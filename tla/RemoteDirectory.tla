--------------------------- MODULE RemoteDirectory ---------------------------
(***************************************************************************)
(* What the cache of a directory's listing promises to those who sweep the *)
(* directory: one directory, as they would see it if every call went to    *)
(* the server, except that                                                 *)
(*                                                                         *)
(*   - a name that changes on the way may be given or not, and one that    *)
(*     another is renamed to may be given again;                           *)
(*   - a name that others changed since the listing was made may be shown  *)
(*     as it was, a change from this side is seen by the sweeps to come;   *)
(*   - names may be left out when the listing breaks off, an event;        *)
(*   - nothing is promised to a sweep whose names have moved, but names    *)
(*     move only for a sweep that was disturbed, and removing a name that  *)
(*     a sweep has given does not disturb it.                              *)
(*                                                                         *)
(* What was given is never taken back.  Module DirCache implements this.   *)
(***************************************************************************)
EXTENDS Naturals, SequencesExt

CONSTANTS Name, Sweep

VARIABLES content,  \* the names in the directory
          unlisted, \* names of which a sweep to come need not be told the truth
          phase, got, excuse, taken, moved, disturbed, \* of each sweep, as in DirCache
          events    \* changes when something untoward happens

vars == <<content, unlisted, phase, got, excuse, taken, moved, disturbed, events>>

Init ==
  /\ content \in SUBSET Name /\ unlisted = {}
  /\ phase = [r \in Sweep |-> "closed"]
  /\ got = [r \in Sweep |-> <<>>]
  /\ excuse = [r \in Sweep |-> {}] /\ taken = [r \in Sweep |-> {}]
  /\ moved = [r \in Sweep |-> FALSE] /\ disturbed = [r \in Sweep |-> FALSE]

Open(r) ==
  /\ phase[r] = "closed"
  /\ phase' = [phase EXCEPT ![r] = "open"]
  /\ excuse' = [excuse EXCEPT ![r] = Name]
  /\ UNCHANGED <<content, unlisted, got, taken, moved, disturbed, events>>

Fail(r) ==
  /\ phase[r] = "open"
  /\ phase' = [phase EXCEPT ![r] = "failed"]
  /\ UNCHANGED <<content, unlisted, got, excuse, taken, moved, disturbed, events>>

Close(r) ==
  /\ phase[r] \in {"end", "failed"}
  /\ phase' = [phase EXCEPT ![r] = "closed"]
  /\ got' = [got EXCEPT ![r] = <<>>]
  /\ excuse' = [excuse EXCEPT ![r] = {}]
  /\ taken' = [taken EXCEPT ![r] = {}]
  /\ moved' = [moved EXCEPT ![r] = FALSE]
  /\ disturbed' = [disturbed EXCEPT ![r] = FALSE]
  /\ UNCHANGED <<content, unlisted, events>>

-----------------------------------------------------------------------------
(* A sweep gets names *)

\* What was given, goes on: each name once, unless another was renamed to it,
\* and none that is not there.
Right(r) ==
  /\ Len(got[r]) <= Len(got'[r])
  /\ \A i \in 1..Len(got[r]) : got'[r][i] = got[r][i]
  /\ \A i, j \in 1..Len(got'[r]) : got'[r][i] = got'[r][j] => i = j \/ got'[r][i] \in taken'[r]
  /\ ToSet(got'[r]) \subseteq content \cup excuse'[r]

\* At the end every name was given.
Complete(r) == got'[r] = got[r] /\ content \subseteq ToSet(got[r]) \cup excuse'[r]

\* The other sweeps keep what they were given.
Undisturbed(r, q) ==
  q # r => /\ got'[q] = got[q]
           /\ excuse[q] \subseteq excuse'[q] /\ excuse'[q] \subseteq excuse[q] \cup unlisted'

\* The first names settle what a sweep is not promised, each time the
\* listing is read may add to it.
Give(r) ==
  /\ phase[r] = "open"
  /\ \E l \in {"open", "end", "failed"} : phase' = [phase EXCEPT ![r] = l]
  /\ unlisted' \subseteq unlisted \/ events' # events
  /\ \A q \in Sweep :
       /\ moved[q] => moved'[q]
       /\ taken'[q] \subseteq taken[q]
       /\ moved'[q] => moved[q] \/ disturbed'[q]
       /\ disturbed[q] => disturbed'[q] \/ (q = r /\ got[r] = <<>>)
       /\ ~moved'[q] => Undisturbed(r, q)
  /\ ~moved'[r] =>
       /\ Right(r)
       /\ excuse'[r] \subseteq unlisted' \cup (IF got[r] = <<>> THEN {} ELSE excuse[r])
       /\ phase'[r] = "end" => Complete(r)
  /\ UNCHANGED content

-----------------------------------------------------------------------------
(* Changes *)

Change(n) ==
  /\ content' = IF n \in content THEN content \ {n} ELSE content \cup {n}
  /\ excuse' = [r \in Sweep |-> IF phase[r] = "closed" THEN {} ELSE excuse[r] \cup {n}]
  /\ UNCHANGED <<phase, got, taken, moved>>

\* From this side
ChangeHere(n) ==
  /\ Change(n)
  /\ unlisted' = unlisted \ {n}
  /\ \A r \in Sweep :
       /\ disturbed[r] => disturbed'[r]
       /\ disturbed'[r] => disturbed[r] \/ (phase[r] = "open" /\ n \notin ToSet(got[r]))

ChangeThere(n) ==
  /\ Change(n)
  /\ unlisted' = unlisted \cup {n}
  /\ UNCHANGED disturbed

\* From this side, too: the new name takes the turn of the old one, given or
\* not, and a sweep that has been given both does not notice.
Rename(a, b) ==
  /\ content' = (content \ {a}) \cup {b}
  /\ excuse' = [r \in Sweep |-> IF phase[r] = "closed" THEN {} ELSE excuse[r] \cup {a, b}]
  /\ unlisted' = unlisted \ {a, b}
  /\ \A r \in Sweep :
       /\ taken[r] \subseteq taken'[r]
       /\ taken'[r] \subseteq taken[r] \cup (IF phase[r] = "open" THEN {b} ELSE {})
       /\ disturbed[r] => disturbed'[r]
       /\ disturbed'[r] => disturbed[r] \/ (phase[r] = "open" /\ ~({a, b} \subseteq ToSet(got[r])))
  /\ UNCHANGED <<phase, got, moved>>

\* Memory runs short, time passes, something is looked up.
Elsewhere ==
  /\ UNCHANGED <<content, unlisted, got, excuse, taken, moved, phase>>
  /\ \A r \in Sweep : /\ disturbed[r] => disturbed'[r]
                      /\ disturbed'[r] => disturbed[r] \/ phase[r] = "open"

Next ==
  \/ Elsewhere
  \/ \E n \in Name : ChangeHere(n) \/ ChangeThere(n)
  \/ \E a, b \in Name : Rename(a, b)
  \/ \E r \in Sweep : Open(r) \/ Fail(r) \/ Close(r) \/ Give(r)

Spec == Init /\ [][Next]_vars

=============================================================================
