------------------------------ MODULE MCMount ------------------------------
(* Values for the constants of module Mount. *)
EXTENDS Mount, TLC

CONSTANTS m1, m2

Given(type, want, persistent, nomtab, cachesize) ==
  [type |-> type, want |-> want, persistent |-> persistent, nomtab |-> nomtab,
   cachesize |-> cachesize]

\* One shfsmount is persistent and takes any server, or needs a capability
\* only perl has and asks for no cache, or hides from mtab.  The other one
\* asks for the shell.
MCOpts ==
  m1 :> {Given("any", {}, TRUE, FALSE, 3),
         Given("perl", {"preserve"}, FALSE, FALSE, 0),
         Given("shell", {}, FALSE, TRUE, 4)}
  @@ m2 :> {Given("shell", {}, FALSE, FALSE, 1)}

=============================================================================
