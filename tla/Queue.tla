------------------------------- MODULE Queue -------------------------------
(***************************************************************************)
(* What the seed queue promises to its users: inputs are appended one at a *)
(* time, whole; they are handed out in order, each position to one taker   *)
(* and none skipped; a taker reads exactly what was appended.  The threads *)
(* of a restarted fuzzer rewind the queue, never past an input that was    *)
(* not handed out.  Nothing is promised once two saves have overlapped.    *)
(***************************************************************************)
EXTENDS Integers, Sequences

CONSTANTS
  Bufs, Takers,
  Image,      \* Image[b]: what a file holds when b was saved in it
  Nothing,    \* what an idle taker has in hand
  Seeds,      \* what is in the queue at first
  Restart,    \* takers may rewind the queue
  FirstId     \* where the first rewind goes to

VARIABLES
  queue,      \* the inputs appended so far
  head,       \* how many of them are behind
  given,      \* the positions that were handed out, counted from 0
  hand,       \* what each taker was given and has not read
  got,        \* what takers have read
  done,       \* the buffers appended so far
  clash       \* the buffers whose save overlapped another

vars == <<queue, head, given, hand, got, done, clash>>

Init ==
  /\ queue = [i \in 1 .. Len(Seeds) |-> Image[Seeds[i]]]
  /\ head = 0 /\ given = {}
  /\ hand = [t \in Takers |-> Nothing]
  /\ got = {}
  /\ done = {Seeds[i] : i \in 1 .. Len(Seeds)}
  /\ clash = {}

Put(b) ==
  /\ b \notin done
  /\ queue' = Append(queue, Image[b])
  /\ done' = done \cup {b}
  /\ UNCHANGED <<head, given, hand, got, clash>>

Take(t) ==
  /\ hand[t] = Nothing /\ head < Len(queue)
  /\ hand' = [hand EXCEPT ![t] = queue[head + 1]]
  /\ given' = given \cup {head}
  /\ head' = head + 1
  /\ UNCHANGED <<queue, got, done, clash>>

Read(t) ==
  /\ hand[t] # Nothing
  /\ got' = got \cup {hand[t]}
  /\ hand' = [hand EXCEPT ![t] = Nothing]
  /\ UNCHANGED <<queue, head, given, done, clash>>

Rewind ==
  /\ Restart
  /\ head' \in Nat /\ \A i \in FirstId .. head' - 1 : i \in given
  /\ UNCHANGED <<queue, given, hand, got, done, clash>>

Next ==
  \/ clash' # {}
  \/ \E b \in Bufs : Put(b)
  \/ \E t \in Takers : Take(t) \/ Read(t)
  \/ Rewind

Spec == Init /\ [][Next]_vars
=============================================================================
