------------------------------ MODULE RemoteFile ------------------------------
(***************************************************************************)
(* What the read/write cache of a file promises to the users of a mount:   *)
(* one file, as they would see it if every read and write went to the      *)
(* server, except that                                                     *)
(*                                                                         *)
(*   - a byte that others changed may be read as it was, as long as the    *)
(*     attributes of the inode have not been refreshed since;              *)
(*   - bytes the server has not seen yet may be dropped, but only in a     *)
(*     step in which it refuses a write;                                   *)
(*   - bytes the server has not seen yet survive a truncation of the file  *)
(*     in front of them;                                                   *)
(*   - while excused is TRUE, a read may return anything.                  *)
(*                                                                         *)
(* Module FCache implements this.                                          *)
(***************************************************************************)
EXTENDS Naturals, Sequences

CONSTANTS Addr,    \* addresses of the bytes
          Bytes,   \* values of a byte
          Zero     \* what a byte is that was never written, or cut off

VARIABLES content,  \* the file
          past,     \* the values each byte had since the last refresh
          unsaved,  \* addresses of the bytes the server has not seen
          op,       \* the read or write that is running
          got,      \* the bytes it read
          event,    \* what the last step met: the server refused a write,
                    \* others changed the file, it was cut to a size, or
                    \* nothing of the kind
          excused

vars == <<content, past, unsaved, op, got, event, excused>>

Range(o) == {b \in Addr : o.offset <= b /\ b < o.offset + o.count}

Init ==
  /\ content \in [Addr -> Bytes]
  /\ past = [b \in Addr |-> {content[b]}]
  /\ unsaved = {}
  /\ op.kind = "none"
  /\ got = <<>>

\* The values seen so far are kept, the present ones are added.
Remember == past' = [b \in Addr |-> past[b] \cup {content'[b]}]

Call ==
  /\ op.kind = "none"
  /\ op'.kind \in {"read", "write"}
  /\ got' = <<>>
  /\ UNCHANGED <<content, past, unsaved>>

\* The running operation goes on after n bytes, or ends.
Advance(n) ==
  op' \in {[op EXCEPT !.kind = "none"],
           [op EXCEPT !.offset = @ + n, !.count = @ - n],
           [op EXCEPT !.kind = "none", !.offset = @ + n, !.count = @ - n]}

\* A read gets its next n bytes.
Give ==
  /\ op.kind = "read"
  /\ \E n \in 0..op.count :
       /\ Advance(n)
       /\ Len(got') = Len(got) + n
       /\ SubSeq(got', 1, Len(got)) = got
       /\ \A k \in 1..n : excused \/ got'[Len(got) + k] \in past[op.offset + k - 1]
  /\ UNCHANGED <<content, past, unsaved>>

\* A write puts bytes in its range and nowhere else.
Take ==
  /\ op.kind = "write"
  /\ \E n \in 0..op.count : Advance(n)
  /\ \A b \in Addr : content'[b] = content[b] \/ (b \in Range(op) /\ content'[b] = op.val)
  /\ unsaved' \subseteq unsaved \cup Range(op)
  /\ Remember
  /\ UNCHANGED got

\* The caller has its bytes.
Return ==
  /\ op.kind = "none" /\ op'.kind = "none"
  /\ got' = <<>>
  /\ UNCHANGED <<content, past, unsaved>>

Save ==
  /\ unsaved' \subseteq unsaved
  /\ UNCHANGED <<content, past, op, got>>

Lose ==
  /\ event' = "refused"
  /\ unsaved' \subseteq unsaved
  /\ \A b \in Addr \ unsaved : content'[b] = content[b]
  /\ Remember
  /\ UNCHANGED <<op, got>>

\* Others change bytes that are not about to be overwritten.
Change ==
  /\ event' = "others"
  /\ \A b \in unsaved : content'[b] = content[b]
  /\ Remember
  /\ UNCHANGED <<unsaved, op, got>>

\* The file is given a size.
Truncate ==
  /\ event' = "cut"
  /\ \E size \in Addr :
       content' = [b \in Addr |-> IF b < size \/ b \in unsaved THEN content[b] ELSE Zero]
  /\ Remember
  /\ UNCHANGED <<unsaved, op, got>>

Refresh ==
  /\ past' = [b \in Addr |-> {content[b]}]
  /\ UNCHANGED <<content, unsaved, op, got>>

Next == Call \/ Give \/ Take \/ Return \/ Save \/ Lose \/ Change \/ Truncate \/ Refresh

Spec == Init /\ [][Next]_vars

=============================================================================
