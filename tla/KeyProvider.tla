---------------------------- MODULE KeyProvider ----------------------------
(***************************************************************************)
(* The key store shared by every key provider of confmsg                   *)
(* (external/confmsg/confmsg/shared/keyprovider.h): a current and a        *)
(* previous key, each with a version number of fixed width.                *)
(*                                                                         *)
(* Key material is compared for equality only, so a key is a member of the *)
(* set Keys.  ZeroKey is the zero-filled vector of the constructor; Torn   *)
(* is what a reader sees of a vector that another thread is overwriting.   *)
(***************************************************************************)
EXTENDS Integers

CONSTANTS
  Keys,         \* private keys a random generator can return
  ZeroKey,      \* the content of a key vector that was never assigned
  Torn,         \* any mixture of the bytes of two keys
  VersionSpan   \* number of key versions: 2^32 for uint32_t

ASSUME KeyProviderAssumption ==
  /\ Keys # {}
  /\ ZeroKey \notin Keys
  /\ Torn \notin Keys
  /\ ZeroKey # Torn
  /\ VersionSpan \in Nat \ {0}

Version == 0 .. (VersionSpan - 1)

KeyMaterial == Keys \cup {ZeroKey, Torn}

Provider == [ current_key: KeyMaterial, current_key_version: Version,
              previous_key: KeyMaterial, previous_key_version: Version ]

\* Mutant of NextVersion: a counter that does not wrap.
NextVersionUnbounded(v) == v + 1

\* current_key_version++ on a uint32_t.
NextVersion(v) == (v + 1) % VersionSpan

\* Randomize: some key that nothing in `used' names.
FreshKey(used) == CHOOSE k \in Keys : k \notin used

\* Two uses of key material agree only when they name the same whole key.
SameKey(a, b) == a = b /\ a \in Keys

\* A random provider after Initialize.  Its constructor leaves both version
\* fields uninitialised, so the first DoRefreshKey increments an arbitrary v.
Initialized(v, k) ==
  [ current_key |-> k, current_key_version |-> NextVersion(v),
    previous_key |-> ZeroKey, previous_key_version |-> v ]

\* GetKey hands out a reference: which vector the caller will read.
CurrentMatches(kp, v) == kp.current_key_version = v
PreviousMatches(kp, v) == kp.previous_key_version = v

=============================================================================
