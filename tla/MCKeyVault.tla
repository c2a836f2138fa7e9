----------------------------- MODULE MCKeyVault -----------------------------
(***************************************************************************)
(* Instances of KeyVault for TLC.                                          *)
(***************************************************************************)
EXTENDS KeyVault

CONSTANTS s1, s2

RefreshThreads == {<<s1, "refresh">>, <<s2, "refresh">>}
AndRequestThread == RefreshThreads \cup {<<s1, "request">>}

=============================================================================
