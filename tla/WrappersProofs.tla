--------------------------- MODULE WrappersProofs ---------------------------
(***************************************************************************)
(* Proofs about two parts of the run of a traced program: which of its     *)
(* branches are solved (module Filter, for any number of solvers, branches *)
(* and calls and any counter width) and which of its bytes are taken for   *)
(* input (module Wrappers, for an input, blocks and descriptors of any     *)
(* number and any sequence of calls).                                      *)
(*                                                                         *)
(* The inductive invariant of Filter speaks of the bits in the trace map   *)
(* and of the values that calls in progress have read from it and may      *)
(* still write back.                                                       *)
(*                                                                         *)
(* The inductive invariant of Wrappers says of the descriptors what        *)
(* Followed says, and what holds before the first file is opened; of       *)
(* memory, that every cell is one of RightCells.  That the label of a      *)
(* comparison's result names the bytes that decide it follows from         *)
(* RightCells and the first byte in which two strings differ.              *)
(***************************************************************************)
EXTENDS Wrappers, Filter, TLAPS

(* More time than the provers take by default. *)
USE SMTT(30), ZenonT(30)

-----------------------------------------------------------------------------
(* Which branches are solved: module Filter. *)

(* Bits that were tried by calls that returned TRUE, or will. *)
Good == tried \cup InProgress

Busy(j) == call[j].at \in {"mark", "inverse", "markinv"}

TraceTried == \A i \in Index : \A b \in trace[i] : <<i, b>> \in Good
OldTried ==
  \A j \in Solvers :
    /\ call[j].at = "mark" => \A b \in call[j].old : <<idx(j), b>> \in Good
    /\ call[j].at = "markinv" => \A b \in call[j].old : <<inv(j), b>> \in Good

(* While a call is in progress it has a location. *)
HasLoc == \A j \in Solvers : call[j].at \notin {"off", "idle"} => call[j].h \in Locs

FilterInv == FilterTypeOK /\ HasLoc /\ TraceTried /\ OldTried

-----------------------------------------------------------------------------
(* Membership in the sets of tried bits. *)
LEMMA OwnTried == ASSUME NEW j \in Solvers, Busy(j), NEW b \in Bits(virgin[j][idx(j)]) PROVE <<idx(j), b>> \in InProgress
BY DEF InProgress, Tries, Own, Busy

LEMMA InvTried == ASSUME NEW j \in Solvers, Busy(j), NEW b \in Bump(j, inv(j)) PROVE <<inv(j), b>> \in InProgress
BY DEF InProgress, Tries, Busy

(* A call that has a location passes an edge; so does its inverse. *)
LEMMA EdgeFacts ==
  ASSUME FilterTypeOK, HasLoc, NEW j \in Solvers, call[j].at \notin {"off", "idle"}
  PROVE  idx(j) \in Index /\ inv(j) \in Index
<1>1. call[j].h \in Locs /\ call[j].prev \in Locs \cup {Start}
  BY DEF FilterTypeOK, HasLoc, CallRec
<1>2. Flipped(call[j].h) \in Locs
  BY <1>1, Zenon DEF Flipped, Locs
<1> QED BY <1>1, <1>2 DEF idx, inv, Index

(* What is good stays good: a call that leaves has its bits recorded. *)
LEMMA GoodGrows ==
  ASSUME NEW j \in Solvers, tried \subseteq tried',
         \A k \in Solvers : k # j => call'[k] = call[k] /\ virgin'[k] = virgin[k],
         Busy(j) => \/ Busy(j)' /\ Tries(j)' = Tries(j)
                    \/ Tries(j) \subseteq tried'
  PROVE  Good \subseteq Good'
<1> SUFFICES ASSUME NEW k \in Solvers, Busy(k), NEW t \in Tries(k) PROVE t \in Good'
  BY DEF Good, InProgress, Busy
<1>1. CASE k # j
  <2>1. call'[k] = call[k] /\ virgin'[k] = virgin[k]
    BY <1>1
  <2>2. Tries(k)' = Tries(k) /\ Busy(k)'
    BY <2>1, Zenon DEF Tries, Own, Bump, idx, inv, Busy
  <2> QED BY <2>2 DEF Good, InProgress, Busy
<1>2. CASE k = j
  BY <1>2 DEF Good, InProgress, Busy
<1> QED BY <1>1, <1>2

(* A step of job j keeps the invariant if what it puts into the trace map  *)
(* and what it has read from it is good.                                   *)
LEMMA StepKeeps ==
  ASSUME FilterInv, NEW j \in Solvers, FilterTypeOK', Good \subseteq Good',
         \A k \in Solvers : k # j => call'[k] = call[k],
         call'[j].at \notin {"off", "idle"} => call'[j].h \in Locs,
         \A i \in Index : \A b \in trace'[i] : b \in trace[i] \/ <<i, b>> \in Good',
         call'[j].at = "mark" => \A b \in call'[j].old : <<idx(j)', b>> \in Good',
         call'[j].at = "markinv" => \A b \in call'[j].old : <<inv(j)', b>> \in Good'
  PROVE  FilterInv'
<1>1. HasLoc'
  BY DEF FilterInv, HasLoc
<1>2. TraceTried'
  BY Zenon DEF FilterInv, TraceTried
<1>3. OldTried'
  <2> SUFFICES ASSUME NEW k \in Solvers, k # j
               PROVE  /\ call'[k].at = "mark" => \A b \in call'[k].old : <<idx(k)', b>> \in Good'
                      /\ call'[k].at = "markinv" => \A b \in call'[k].old : <<inv(k)', b>> \in Good'
    BY DEF OldTried
  <2>1. call'[k] = call[k] /\ idx(k)' = idx(k) /\ inv(k)' = inv(k)
    BY DEF idx, inv
  <2> QED BY <2>1 DEF FilterInv, OldTried
<1> QED BY <1>1, <1>2, <1>3 DEF FilterInv

(* A counter stays within its width. *)
LEMMA IncType == ASSUME NEW n \in 0 .. 2^Width - 1 PROVE Inc(n) \in 0 .. 2^Width - 1
<1> DEFINE M == 2^Width
<1>1. M \in Nat \ {0}
  BY WidthAssumption
<1> HIDE DEF M
<1>2. \A k \in 0 .. M - 1 : (k + 1) % M \in 0 .. M - 1
  BY <1>1
<1> QED BY <1>2 DEF M, Inc

LEMMA NoCountsType == NoCounts \in [Index -> 0 .. 2^Width - 1]
<1> DEFINE M == 2^Width
<1>1. M \in Nat \ {0}
  BY WidthAssumption
<1> HIDE DEF M
<1>2. 0 \in 0 .. M - 1
  BY <1>1
<1> QED BY <1>2 DEF M, NoCounts

LEMMA SessionKeeps == ASSUME FilterInv, NEW j \in Solvers, StartSession(j) \/ EndSession(j) PROVE FilterInv'
<1>1. /\ call[j].at \in {"off", "idle"}
      /\ call' = [call EXCEPT ![j] = [Off EXCEPT !.at = "idle"]] \/ call' = [call EXCEPT ![j] = Off]
      /\ virgin' = [virgin EXCEPT ![j] = NoCounts] /\ visited' = [visited EXCEPT ![j] = {}]
      /\ UNCHANGED <<trace, context, tried>>
  BY DEF StartSession, EndSession
<1>2. Off \in CallRec /\ [Off EXCEPT !.at = "idle"] \in CallRec
  BY WidthAssumption DEF Off, CallRec
<1>3. FilterTypeOK'
  BY <1>1, <1>2, NoCountsType, Zenon DEF FilterInv, FilterTypeOK
<1>4. /\ \A k \in Solvers : k # j => call'[k] = call[k] /\ virgin'[k] = virgin[k]
      /\ call'[j].at \in {"off", "idle"}
  BY <1>1 DEF FilterInv, FilterTypeOK, Off
<1>5. ~Busy(j)
  BY <1>1 DEF Busy
<1>6. Good \subseteq Good'
  BY <1>1, <1>4, <1>5, GoodGrows
<1> QED BY <1>1, <1>3, <1>4, <1>6, StepKeeps

LEMMA CallKeeps == ASSUME FilterInv, NEW j \in Solvers, NEW h \in Locs, qsym_filter(j, h) PROVE FilterInv'
<1>1. PICK fresh \in SUBSET (Locs \X Locs) :
        /\ call[j].at = "idle" /\ call[j].calls < MaxBranches
        /\ call' = [call EXCEPT ![j] = [call[j] EXCEPT !.at = "context", !.calls = call[j].calls + 1, !.h = h, !.fresh = fresh]]
        /\ visited' = visited \/ visited' = [visited EXCEPT ![j] = @ \cup {h}]
        /\ UNCHANGED <<trace, context, virgin, tried>>
  <2> DEFINE bits == virgin[j][<<call[j].prev, h>>]
             fresh == IF isPowerofTwoOrZero(bits) THEN {<<p, h>> : p \in visited[j]} \ context ELSE {}
  <2>1. fresh \in SUBSET (Locs \X Locs)
    BY DEF FilterInv, FilterTypeOK
  <2>2. /\ visited' = [visited EXCEPT ![j] = IF bits = 0 THEN @ \cup {h} ELSE @]
        /\ call' = [call EXCEPT ![j] = [call[j] EXCEPT !.at = "context", !.calls = call[j].calls + 1, !.h = h, !.fresh = fresh]]
        /\ call[j].at = "idle" /\ call[j].calls < MaxBranches
        /\ UNCHANGED <<trace, context, virgin, tried>>
    BY DEF qsym_filter
  <2>3. visited' = visited \/ visited' = [visited EXCEPT ![j] = @ \cup {h}]
    BY <2>2, Zenon DEF FilterInv, FilterTypeOK
  <2> QED BY <2>1, <2>2, <2>3, Zenon
<1>2. call[j] \in CallRec /\ call[j].calls + 1 \in 0 .. MaxBranches
  BY <1>1, WidthAssumption DEF FilterInv, FilterTypeOK, CallRec
<1>3. [call[j] EXCEPT !.at = "context", !.calls = call[j].calls + 1, !.h = h, !.fresh = fresh] \in CallRec
  BY <1>2, Zenon DEF CallRec
<1>4. FilterTypeOK'
  <2>1. call' \in [Solvers -> CallRec]
    BY <1>1, <1>3, Zenon DEF FilterInv, FilterTypeOK
  <2>2. visited' \in [Solvers -> SUBSET Locs]
    BY <1>1 DEF FilterInv, FilterTypeOK
  <2> QED BY <1>1, <2>1, <2>2 DEF FilterInv, FilterTypeOK
<1>5. /\ \A k \in Solvers : k # j => call'[k] = call[k]
      /\ call'[j].at = "context" /\ call'[j].h = h
  BY <1>1, <1>2 DEF FilterInv, FilterTypeOK, CallRec
<1>6. Good \subseteq Good'
  BY <1>1, <1>5, GoodGrows DEF Busy
<1> QED BY <1>1, <1>4, <1>5, <1>6, StepKeeps

LEMMA ContextKeeps == ASSUME FilterInv, NEW j \in Solvers, Context(j) PROVE FilterInv'
<1>1. /\ call[j].at = "context" /\ context' = context \cup call[j].fresh
      /\ virgin' = [virgin EXCEPT ![j][idx(j)] = Inc(@)]
      /\ call' = [call EXCEPT ![j].at = "test"]
      /\ UNCHANGED <<trace, visited, tried>>
  BY DEF Context
<1>2. idx(j) \in Index
  BY <1>1, EdgeFacts DEF FilterInv
<1>3. virgin' \in [Solvers -> [Index -> 0 .. 2^Width - 1]]
  <2>1. virgin[j][idx(j)] \in 0 .. 2^Width - 1
    BY <1>2 DEF FilterInv, FilterTypeOK
  <2>2. Inc(virgin[j][idx(j)]) \in 0 .. 2^Width - 1
    BY <2>1, IncType
  <2> QED BY <1>1, <1>2, <2>2, Zenon DEF FilterInv, FilterTypeOK
<1>4. FilterTypeOK'
  <2>1. call[j] \in CallRec /\ call[j].fresh \subseteq Locs \X Locs
    BY DEF FilterInv, FilterTypeOK, CallRec
  <2>2. [call[j] EXCEPT !.at = "test"] \in CallRec
    BY <2>1 DEF CallRec
  <2>3. call' \in [Solvers -> CallRec]
    BY <1>1, <2>2 DEF FilterInv, FilterTypeOK
  <2>4. context' \subseteq Locs \X Locs
    BY <1>1, <2>1 DEF FilterInv, FilterTypeOK
  <2> QED BY <1>1, <1>3, <2>3, <2>4 DEF FilterInv, FilterTypeOK
<1>5. /\ \A k \in Solvers : k # j => call'[k] = call[k] /\ virgin'[k] = virgin[k]
      /\ call'[j].at = "test" /\ call'[j].h = call[j].h
  BY <1>1 DEF FilterInv, FilterTypeOK, CallRec
<1>6. Good \subseteq Good'
  BY <1>1, <1>5, GoodGrows DEF Busy
<1>7. call[j].h \in Locs
  BY <1>1 DEF FilterInv, HasLoc
<1> QED BY <1>1, <1>4, <1>5, <1>6, <1>7, StepKeeps

(* The bits of a number, and the bits that a call tries, are bits. *)
LEMMA FinishFacts ==
  ASSUME FilterTypeOK, NEW j \in Solvers
  PROVE  Finish(j) \in CallRec /\ Finish(j).at = "idle"
<1>1. call[j] \in CallRec
  BY DEF FilterTypeOK
<1> QED BY <1>1, Zenon DEF Finish, CallRec

LEMMA TriesType ==
  ASSUME FilterTypeOK, HasLoc, NEW j \in Solvers, call[j].at \notin {"off", "idle"}
  PROVE  Own(j) \subseteq Index \X BitNos /\ Tries(j) \subseteq Index \X BitNos
<1>1. idx(j) \in Index /\ inv(j) \in Index
  BY EdgeFacts
<1>2. \A n : Bits(n) \subseteq BitNos
  BY DEF Bits
<1>3. \A i \in Index : \A S \in SUBSET BitNos : {i} \X S \subseteq Index \X BitNos
  OBVIOUS
<1>4. Own(j) \subseteq Index \X BitNos
  BY <1>1, <1>2, <1>3 DEF Own
<1>5. {inv(j)} \X Bump(j, inv(j)) \subseteq Index \X BitNos
  BY <1>1, <1>2, <1>3 DEF Bump
<1> QED BY <1>4, <1>5 DEF Tries

LEMMA TestKeeps == ASSUME FilterInv, NEW j \in Solvers, Test(j) PROVE FilterInv'
<1>1. /\ call[j].at = "test" /\ UNCHANGED <<trace, context, virgin, visited>>
      /\ \/ call' = [call EXCEPT ![j] = Finish(j)] /\ (tried' = tried \/ tried' = tried \cup Own(j))
         \/ call' = [call EXCEPT ![j] = [call[j] EXCEPT !.at = "mark", !.old = trace[idx(j)]]] /\ tried' = tried
  BY Zenon DEF Test
<1>2. /\ idx(j) \in Index /\ Own(j) \subseteq Index \X BitNos
      /\ call[j] \in CallRec /\ call[j].h \in Locs /\ trace[idx(j)] \subseteq BitNos
  BY <1>1, EdgeFacts, TriesType DEF FilterInv, FilterTypeOK, HasLoc
<1>3. [call[j] EXCEPT !.at = "mark", !.old = trace[idx(j)]] \in CallRec
  BY <1>2, Zenon DEF CallRec
<1>4. Finish(j) \in CallRec /\ Finish(j).at = "idle"
  BY FinishFacts DEF FilterInv
<1>5. FilterTypeOK'
  <2>1. call' \in [Solvers -> CallRec]
    BY <1>1, <1>3, <1>4, Zenon DEF FilterInv, FilterTypeOK
  <2>2. tried' \subseteq Index \X BitNos
    BY <1>1, <1>2 DEF FilterInv, FilterTypeOK
  <2> QED BY <1>1, <2>1, <2>2 DEF FilterInv, FilterTypeOK
<1>6. \A k \in Solvers : k # j => call'[k] = call[k] /\ virgin'[k] = virgin[k]
  BY <1>1 DEF FilterInv, FilterTypeOK
<1>7. Good \subseteq Good'
  BY <1>1, <1>6, GoodGrows DEF Busy
<1>8. CASE call'[j] = Finish(j)
  BY <1>1, <1>4, <1>5, <1>6, <1>7, <1>8, StepKeeps
<1>9. CASE call'[j] = [call[j] EXCEPT !.at = "mark", !.old = trace[idx(j)]]
  <2>1. /\ call'[j].at = "mark" /\ call'[j].h = call[j].h /\ call'[j].old = trace[idx(j)]
        /\ call'[j].prev = call[j].prev
    BY <1>9, <1>2 DEF CallRec
  <2>2. idx(j)' = idx(j)
    BY <2>1 DEF idx
  <2>3. \A b \in call'[j].old : <<idx(j)', b>> \in Good'
    BY <2>1, <2>2, <1>2, <1>7 DEF FilterInv, TraceTried
  <2> QED BY <1>1, <1>2, <1>5, <1>6, <1>7, <2>1, <2>3, StepKeeps
<1> QED BY <1>1, <1>8, <1>9 DEF FilterInv, FilterTypeOK

LEMMA MarkKeeps == ASSUME FilterInv, NEW j \in Solvers, Mark(j) PROVE FilterInv'
<1>1. PICK old \in {call[j].old, trace[idx(j)]} :
        /\ call[j].at = "mark" /\ UNCHANGED <<context, virgin, visited, tried>>
        /\ trace' = [trace EXCEPT ![idx(j)] = old \cup Bits(virgin[j][idx(j)])]
        /\ call' = [call EXCEPT ![j] = [call[j] EXCEPT !.at = "inverse", !.old = {}]]
  BY Zenon DEF Mark
<1>2. /\ idx(j) \in Index /\ call[j] \in CallRec /\ call[j].h \in Locs /\ old \subseteq BitNos
      /\ Bits(virgin[j][idx(j)]) \subseteq BitNos
  <2>1. idx(j) \in Index /\ call[j] \in CallRec /\ call[j].h \in Locs
    BY <1>1, EdgeFacts DEF FilterInv, FilterTypeOK, HasLoc
  <2>2. call[j].old \subseteq BitNos /\ trace[idx(j)] \subseteq BitNos
    BY <2>1 DEF FilterInv, FilterTypeOK, CallRec
  <2> QED BY <2>1, <2>2 DEF Bits
<1>3. [call[j] EXCEPT !.at = "inverse", !.old = {}] \in CallRec
  BY <1>2, Zenon DEF CallRec
<1>4. FilterTypeOK'
  <2>1. call' \in [Solvers -> CallRec]
    BY <1>1, <1>3, Zenon DEF FilterInv, FilterTypeOK
  <2>2. trace' \in [Index -> SUBSET BitNos]
    BY <1>1, <1>2 DEF FilterInv, FilterTypeOK
  <2> QED BY <1>1, <2>1, <2>2 DEF FilterInv, FilterTypeOK
<1>5. /\ \A k \in Solvers : k # j => call'[k] = call[k] /\ virgin'[k] = virgin[k]
      /\ call'[j] = [call[j] EXCEPT !.at = "inverse", !.old = {}]
  BY <1>1 DEF FilterInv, FilterTypeOK
<1>6. call'[j].at = "inverse" /\ call'[j].h = call[j].h /\ call'[j].prev = call[j].prev
  BY <1>5, <1>2 DEF CallRec
<1>7. Tries(j)' = Tries(j) /\ Busy(j)
  BY <1>1, <1>6 DEF Tries, Own, Bump, idx, inv, Busy
<1>8. Busy(j)'
  BY <1>6 DEF Busy
<1>9. Good \subseteq Good'
  BY <1>1, <1>5, <1>7, <1>8, GoodGrows
<1>10. \A b \in old \cup Bits(virgin[j][idx(j)]) : <<idx(j), b>> \in Good
  <2>1. \A b \in Bits(virgin[j][idx(j)]) : <<idx(j), b>> \in Good
    BY <1>7, OwnTried DEF Good
  <2>2. \A b \in old : <<idx(j), b>> \in Good
    BY <1>1, <1>2 DEF FilterInv, OldTried, TraceTried
  <2> QED BY <2>1, <2>2
<1>11. \A i \in Index : \A b \in trace'[i] : b \in trace[i] \/ <<i, b>> \in Good'
  BY <1>1, <1>2, <1>9, <1>10 DEF FilterInv, FilterTypeOK
<1> QED BY <1>2, <1>4, <1>5, <1>6, <1>9, <1>11, StepKeeps, Zenon

LEMMA ReadInverseKeeps == ASSUME FilterInv, NEW j \in Solvers, ReadInverse(j) PROVE FilterInv'
<1>1. /\ call[j].at = "inverse" /\ UNCHANGED <<trace, context, virgin, visited, tried>>
      /\ call' = [call EXCEPT ![j] = [call[j] EXCEPT !.at = "markinv", !.old = trace[inv(j)]]]
  BY Zenon DEF ReadInverse
<1>2. inv(j) \in Index /\ call[j] \in CallRec /\ call[j].h \in Locs /\ trace[inv(j)] \subseteq BitNos
  BY <1>1, EdgeFacts, Zenon DEF FilterInv, FilterTypeOK, HasLoc
<1>3. [call[j] EXCEPT !.at = "markinv", !.old = trace[inv(j)]] \in CallRec
  BY <1>2, Zenon DEF CallRec
<1>4. FilterTypeOK'
  <2>1. call' \in [Solvers -> CallRec]
    BY <1>1, <1>3, Zenon DEF FilterInv, FilterTypeOK
  <2> QED BY <1>1, <2>1 DEF FilterInv, FilterTypeOK
<1>5. /\ \A k \in Solvers : k # j => call'[k] = call[k] /\ virgin'[k] = virgin[k]
      /\ call'[j] = [call[j] EXCEPT !.at = "markinv", !.old = trace[inv(j)]]
  BY <1>1 DEF FilterInv, FilterTypeOK
<1>6. /\ call'[j].at = "markinv" /\ call'[j].h = call[j].h /\ call'[j].prev = call[j].prev
      /\ call'[j].old = trace[inv(j)]
  BY <1>5, <1>2 DEF CallRec
<1>7. Tries(j)' = Tries(j) /\ inv(j)' = inv(j)
  BY <1>1, <1>6 DEF Tries, Own, Bump, idx, inv
<1>8. Busy(j)'
  BY <1>6 DEF Busy
<1>9. Good \subseteq Good'
  BY <1>1, <1>5, <1>7, <1>8, GoodGrows
<1>10. \A b \in call'[j].old : <<inv(j)', b>> \in Good'
  BY <1>2, <1>6, <1>7, <1>9 DEF FilterInv, TraceTried
<1> QED BY <1>1, <1>2, <1>4, <1>5, <1>6, <1>9, <1>10, StepKeeps

LEMMA MarkInverseKeeps == ASSUME FilterInv, NEW j \in Solvers, MarkInverse(j) PROVE FilterInv'
<1>1. /\ call[j].at = "markinv" /\ UNCHANGED <<context, virgin, visited>>
      /\ trace' = [trace EXCEPT ![inv(j)] = call[j].old \cup Bump(j, inv(j))]
      /\ tried' = tried \cup Tries(j)
      /\ call' = [call EXCEPT ![j] = Finish(j)]
  BY DEF MarkInverse
<1>2. inv(j) \in Index /\ Tries(j) \subseteq Index \X BitNos
  BY <1>1, EdgeFacts, TriesType DEF FilterInv
<1>3. call[j].old \cup Bump(j, inv(j)) \subseteq BitNos
  BY DEF FilterInv, FilterTypeOK, CallRec, Bump, Bits
<1>4. Finish(j) \in CallRec /\ Finish(j).at = "idle"
  BY FinishFacts DEF FilterInv
<1>5. FilterTypeOK'
  <2>1. call' \in [Solvers -> CallRec]
    BY <1>1, <1>4, Zenon DEF FilterInv, FilterTypeOK
  <2>2. trace' \in [Index -> SUBSET BitNos]
    BY <1>1, <1>2, <1>3 DEF FilterInv, FilterTypeOK
  <2>3. tried' \subseteq Index \X BitNos
    BY <1>1, <1>2 DEF FilterInv, FilterTypeOK
  <2> QED BY <1>1, <2>1, <2>2, <2>3 DEF FilterInv, FilterTypeOK
<1>6. /\ \A k \in Solvers : k # j => call'[k] = call[k] /\ virgin'[k] = virgin[k]
      /\ call'[j] = Finish(j)
  BY <1>1 DEF FilterInv, FilterTypeOK
<1>7. Good \subseteq Good'
  BY <1>1, <1>6, GoodGrows
<1>8. \A b \in call[j].old \cup Bump(j, inv(j)) : <<inv(j), b>> \in Good
  <2>1. \A b \in Bump(j, inv(j)) : <<inv(j), b>> \in Good
    BY <1>1, InvTried DEF Good, Busy
  <2>2. \A b \in call[j].old : <<inv(j), b>> \in Good
    BY <1>1 DEF FilterInv, OldTried
  <2> QED BY <2>1, <2>2
<1>9. \A i \in Index : \A b \in trace'[i] : b \in trace[i] \/ <<i, b>> \in Good'
  BY <1>1, <1>2, <1>7, <1>8 DEF FilterInv, FilterTypeOK
<1> QED BY <1>4, <1>5, <1>6, <1>7, <1>9, StepKeeps

LEMMA StutterKeeps == ASSUME FilterInv, UNCHANGED filterVars PROVE FilterInv'
<1>1. /\ trace' = trace /\ context' = context /\ virgin' = virgin
      /\ visited' = visited /\ call' = call /\ tried' = tried
  BY DEF filterVars
<1>2. FilterTypeOK' /\ HasLoc'
  BY <1>1 DEF FilterInv, FilterTypeOK, HasLoc
<1>3. Good' = Good
  BY <1>1 DEF Good, InProgress, Tries, Own, Bump, idx, inv
<1>4. TraceTried'
  BY <1>1, <1>3, Zenon DEF FilterInv, TraceTried
<1>5. OldTried'
  BY <1>1, <1>3 DEF FilterInv, OldTried, idx, inv
<1> QED BY <1>2, <1>4, <1>5 DEF FilterInv

LEMMA InitGood == ASSUME FilterInit PROVE FilterInv
<1>1. Off \in CallRec /\ Off.at = "off"
  BY WidthAssumption DEF Off, CallRec
<1>2. \A j \in Solvers : call[j] = Off
  BY Zenon DEF FilterInit
<1>3. FilterTypeOK
  BY <1>1, NoCountsType DEF FilterInit, FilterTypeOK
<1>4. HasLoc /\ OldTried
  BY <1>1, <1>2 DEF HasLoc, OldTried
<1>5. TraceTried
  BY DEF FilterInit, TraceTried
<1> QED BY <1>3, <1>4, <1>5 DEF FilterInv

-----------------------------------------------------------------------------
(* The invariant holds in every reachable state of the filter: what is in  *)
(* the trace map, or was read from it to be written back, was tried.       *)
THEOREM FilterInvariance == FilterSpec => []FilterInv
<1>1. FilterInit => FilterInv
  BY InitGood
<1>2. FilterInv /\ [FilterNext]_filterVars => FilterInv'
  <2> SUFFICES ASSUME FilterInv, [FilterNext]_filterVars PROVE FilterInv'
    OBVIOUS
  <2>1. ASSUME NEW j \in Solvers, Step(j) PROVE FilterInv'
    BY <2>1, SessionKeeps, CallKeeps, ContextKeeps, TestKeeps, MarkKeeps, ReadInverseKeeps, MarkInverseKeeps
       DEF Step
  <2> QED BY <2>1, StutterKeeps DEF FilterNext
<1> QED BY <1>1, <1>2, PTL DEF FilterSpec

(* Type correctness: counters of the sessions stay within their width. *)
THEOREM FilterTypeCorrect == FilterSpec => []FilterTypeOK
<1>1. FilterInv => FilterTypeOK
  BY DEF FilterInv
<1> QED BY FilterInvariance, <1>1, PTL

(* isInterestingBranch turns a branch down only if each bit of its count   *)
(* on this edge was tried, by whichever session, lost updates or not.      *)
THEOREM TurnedDownWasTriedHolds == FilterSpec => TurnedDownWasTried
<1>1. FilterInv /\ [FilterNext]_filterVars =>
        [\A j \in Solvers : TurnedDown(j) => Own(j) \subseteq tried \cup InProgress]_filterVars
  <2> SUFFICES ASSUME FilterInv, FilterNext, NEW j \in Solvers, TurnedDown(j)
               PROVE  Own(j) \subseteq tried \cup InProgress
    BY DEF TurnedDown
  <2>1. call[j].at = "test" /\ call'[j].at = "idle"
    BY DEF TurnedDown
  <2>2. PICK k \in Solvers : Step(k)
    BY DEF FilterNext
  <2>3. k = j
    <3> SUFFICES ASSUME k # j PROVE call'[j] = call[j]
      BY <2>1
    <3> QED BY <2>2, Zenon DEF Step, StartSession, EndSession, qsym_filter, Context, Test, Mark, ReadInverse, MarkInverse, FilterInv, FilterTypeOK
  <2>4. Test(j)
    BY <2>1, <2>2, <2>3, Zenon DEF Step, StartSession, EndSession, qsym_filter, Context, Mark, ReadInverse, MarkInverse
  <2>5. idx(j) \in Index /\ call[j] \in CallRec
    BY <2>1, EdgeFacts DEF FilterInv, FilterTypeOK
  <2>6. Bits(virgin[j][idx(j)]) \subseteq trace[idx(j)]
    <3> SUFFICES ASSUME ~(Bits(virgin[j][idx(j)]) \subseteq trace[idx(j)]) PROVE FALSE
      OBVIOUS
    <3>1. call' = [call EXCEPT ![j] = [call[j] EXCEPT !.at = "mark", !.old = trace[idx(j)]]]
      BY <2>4, Zenon DEF Test
    <3>2. call'[j].at = "mark"
      BY <3>1, <2>5, Zenon DEF FilterInv, FilterTypeOK, CallRec
    <3> QED BY <3>2, <2>1
  <2>7. \A b \in Bits(virgin[j][idx(j)]) : <<idx(j), b>> \in tried \cup InProgress
    BY <2>5, <2>6 DEF FilterInv, TraceTried, Good
  <2> QED BY <2>7 DEF Own
<1> QED BY <1>1, FilterInvariance, PTL DEF FilterSpec, TurnedDownWasTried

-----------------------------------------------------------------------------
(* Which bytes are input: module Wrappers. *)

(* The cells that have a right label, as RightLabel says it, by habits h   *)
(* and on input in; and any cell once the input is lost.                   *)
RightCells(h, in) ==
  {c \in [byte : Int, label : Int] :
     \/ h \cap {"lost", "record"} # {}
     \/ c.label \in {LabelOf(c.byte), Unknown}
     \/ c.byte = Nul /\ (c.label = Initializing \/ "anon" \in h)
     \/ c.byte >= 0 /\ c.label = 0 /\ Value(c.byte, in) = 0 /\ "zero" \in h
     \/ c.byte = Chr /\ "misread" \in h}

Rows(h, in) == [Idx -> RightCells(h, in)]
MemRight == mem \in [Blocks -> Rows(habits, input)]

DescType == desc \in [Fds -> [path : Paths \cup {"none"}, pos : Nat]]
TaintedType == tainted \in [fd : Fds \cup {-1}, is_utmp : {0, 1}, offset : Nat]
UtType == ut \in [path : Paths, pos : Nat]

(* Before the input is opened, descriptor 0 of another file is taken for   *)
(* it.                                                                     *)
FollowInv ==
  "lost" \notin habits =>
    IF "stdin" \in habits
    THEN tainted.fd = 0 /\ desc[0].path = "other" /\ ~InputOpen
    ELSE \A fd \in Fds : OnInput(fd) <=> tainted.fd = fd

(* setutxent sets the position right, so the file must be right before. *)
UtmpInv ==
  "stat" \notin habits =>
    /\ tainted.is_utmp = 1 <=> ut.path = "input"
    /\ "moved" \notin habits /\ tainted.is_utmp = 1 => tainted.offset = ut.pos

FilesInv == DescType /\ TaintedType /\ UtType /\ FollowInv /\ UtmpInv

IInv == FilesInv /\ MemRight

(* The habits that are never cleared; those of the wrong labels; and what  *)
(* a call that only adds wrong labels leaves alone.                        *)
Sticky(h) == h \ {"stdin", "stat", "moved"}
Mistakes == {"misread", "anon", "zero", "record"}
SameHabits == \A x \in {"lost", "stdin", "stat", "moved"} : x \in habits' <=> x \in habits

-----------------------------------------------------------------------------
(* Cells. *)
LEMMA ZeroIdx == 0 \in Idx /\ L \in Nat
  BY SizeAssumption DEF Idx

LEMMA PlainRight ==
  ASSUME NEW x \in {Nul, Chr}, NEW h, NEW in
  PROVE  /\ Plain(x) \in RightCells(h, in)
         /\ Cell(x, Unknown) \in RightCells(h, in)
         /\ Cell(x, 0) \in RightCells(h, in)
  BY DEF Plain, Cell, RightCells, LabelOf, Nul, Chr, Unknown

LEMMA InputRight ==
  ASSUME NEW o \in Nat, NEW h, NEW in
  PROVE  Cell(o, o + CONST_OFFSET) \in RightCells(h, in)
  BY DEF Cell, RightCells, LabelOf, CONST_OFFSET

LEMMA UnknownRight ==
  ASSUME NEW x \in Int, NEW h, NEW in
  PROVE  Cell(x, Unknown) \in RightCells(h, in)
  BY DEF Cell, RightCells, Unknown

LEMMA UninitialisedRight ==
  ASSUME NEW h, NEW in
  PROVE  Cell(Nul, Initializing) \in RightCells(h, in)
  BY DEF Cell, RightCells, Nul, Initializing

(* A cell that a mistake was noted for. *)
LEMMA MistakeRight ==
  ASSUME NEW x \in Int, NEW l \in Int, NEW h, NEW in,
         \/ "lost" \in h \/ "record" \in h
         \/ x = Chr /\ "misread" \in h
         \/ x = Nul /\ "anon" \in h
  PROVE  Cell(x, l) \in RightCells(h, in)
  BY DEF Cell, RightCells

LEMMA ZeroRight ==
  ASSUME NEW x \in Int, NEW h, NEW in, x < 0 \/ (Value(x, in) = 0 /\ "zero" \in h)
  PROVE  Cell(x, 0) \in RightCells(h, in)
  BY DEF Cell, RightCells, LabelOf

LEMMA ByteInt ==
  ASSUME NEW h, NEW in, NEW c \in RightCells(h, in)
  PROVE  c.byte \in Int
  BY DEF RightCells

LEMMA Grow ==
  ASSUME NEW h, NEW g, NEW in, Sticky(h) \subseteq g
  PROVE  /\ RightCells(h, in) \subseteq RightCells(g, in)
         /\ Rows(h, in) \subseteq Rows(g, in)
<1>1. \A x \in {"lost", "record", "anon", "zero", "misread"} : x \in h => x \in g
  BY DEF Sticky
<1>2. RightCells(h, in) \subseteq RightCells(g, in)
  BY <1>1 DEF RightCells
<1> QED
  BY <1>2 DEF Rows

LEMMA RowOf ==
  ASSUME MemRight, NEW b \in Blocks, NEW g, Sticky(habits) \subseteq g
  PROVE  mem[b] \in Rows(g, input) /\ \A i \in Idx : mem[b][i] \in RightCells(g, input)
<1>1. mem[b] \in Rows(habits, input)
  BY DEF MemRight
<1>2. mem[b] \in Rows(g, input)
  BY <1>1, Grow, Zenon
<1> QED
  BY <1>2 DEF Rows

LEMMA CellByte ==
  ASSUME MemRight, NEW b \in Blocks, NEW i \in Idx
  PROVE  mem[b][i].byte \in Int
<1>1. Sticky(habits) \subseteq habits
  BY DEF Sticky
<1>2. mem[b][i] \in RightCells(habits, input)
  BY <1>1, RowOf
<1> QED
  BY <1>2, ByteInt

(* A row of right cells written to a block keeps memory right, and so does *)
(* a call that writes nothing.                                             *)
LEMMA WriteRight ==
  ASSUME MemRight, input' = input, Sticky(habits) \subseteq habits',
         NEW b \in Blocks, NEW f \in Rows(habits', input), mem' = [mem EXCEPT ![b] = f]
  PROVE  MemRight'
<1>1. mem \in [Blocks -> Rows(habits', input)]
  BY Grow, Zenon DEF MemRight
<1>2. mem' \in [Blocks -> Rows(habits', input')]
  BY <1>1
<1> QED
  BY <1>2 DEF MemRight

LEMMA KeepRight ==
  ASSUME MemRight, input' = input, Sticky(habits) \subseteq habits', mem' = mem
  PROVE  MemRight'
<1>1. mem' \in [Blocks -> Rows(habits', input')]
  BY Grow, Zenon DEF MemRight
<1> QED
  BY <1>1 DEF MemRight

(* The same for a call that leaves habits alone. *)
LEMMA Stays == Sticky(habits) \subseteq habits
  BY DEF Sticky

LEMMA WriteHere ==
  ASSUME MemRight, UNCHANGED <<input, habits>>,
         NEW b \in Blocks, NEW f \in Rows(habits, input), mem' = [mem EXCEPT ![b] = f]
  PROVE  MemRight'
  BY Stays, WriteRight, Zenon

(* The runtime and the model agree on a descriptor as long as it is not    *)
(* lost, so a byte read is labelled by its file; or the mistake is noted.  *)
LEMMA ReadRight ==
  ASSUME FilesInv, NEW fd \in Fds, NEW o \in Nat, NEW g, Sticky(habits) \cup Misread(fd) \subseteq g
  PROVE  ReadCell(fd, o) \in RightCells(g, input)
<1>1. FileByte(desc[fd].path, o) \in Int /\ get_label_for(fd, o) \in Int
  BY DEF FileByte, Chr, get_label_for, CONST_OFFSET
<1>2. CASE "lost" \in habits
  <2>1. "lost" \in g
    BY <1>2 DEF Sticky
  <2> QED
    BY <1>1, <2>1, MistakeRight DEF ReadCell
<1>3. CASE "lost" \notin habits /\ OnInput(fd)
  <2>1. tainted.fd = fd
    BY <1>3 DEF FilesInv, FollowInv, InputOpen
  <2>2. ReadCell(fd, o) = Cell(o, o + CONST_OFFSET)
    BY <1>3, <2>1, SizeAssumption DEF ReadCell, FileByte, OnInput, get_label_for, taint_get_file
  <2> QED
    BY <2>2, InputRight
<1>4. CASE ~OnInput(fd)
  <2>1. FileByte(desc[fd].path, o) = Chr
    BY <1>4 DEF FileByte, OnInput
  <2>2. CASE taint_get_file(fd) = 0
    <3>1. ReadCell(fd, o) = Cell(Chr, 0)
      BY <2>1, <2>2 DEF ReadCell, get_label_for
    <3> QED
      BY <3>1, PlainRight
  <2>3. CASE taint_get_file(fd) # 0
    <3>1. "misread" \in g
      BY <1>4, <2>3 DEF Misread
    <3> QED
      BY <1>1, <2>1, <3>1, MistakeRight DEF ReadCell
  <2> QED
    BY <2>2, <2>3
<1> QED
  BY <1>2, <1>3, <1>4

LEMMA FilledRight ==
  ASSUME FilesInv, MemRight, NEW b \in Blocks, NEW fd \in Fds, NEW o \in Nat, NEW k \in Int,
         NEW g, Sticky(habits) \cup Misread(fd) \subseteq g
  PROVE  Filled(b, fd, o, k) \in Rows(g, input)
<1>1. \A i \in Idx : o + i \in Nat
  BY SizeAssumption DEF Idx
<1>2. \A i \in Idx : ReadCell(fd, o + i) \in RightCells(g, input)
  BY <1>1, ReadRight, Zenon
<1>3. \A i \in Idx : mem[b][i] \in RightCells(g, input)
  BY RowOf
<1> QED
  BY <1>2, <1>3 DEF Filled, Rows
-----------------------------------------------------------------------------
(* Calls that leave the files alone, and those that move a position. *)
LEMMA Marks ==
  ASSUME NEW h \in SUBSET Mistakes, Mislabels(h)
  PROVE  Sticky(habits) \cup h \subseteq habits' /\ SameHabits
  BY DEF Mislabels, Mistakes, Sticky, SameHabits

LEMMA FilesUnchanged ==
  ASSUME FilesInv, UNCHANGED <<tainted, desc, ut>>, SameHabits
  PROVE  FilesInv'
<1>1. /\ "lost" \in habits' <=> "lost" \in habits
      /\ "stdin" \in habits' <=> "stdin" \in habits
      /\ "stat" \in habits' <=> "stat" \in habits
      /\ "moved" \in habits' <=> "moved" \in habits
  BY DEF SameHabits
<1> QED
  BY <1>1 DEF FilesInv, DescType, TaintedType, UtType, FollowInv, UtmpInv, InputOpen, OnInput

LEMMA FilesSame ==
  ASSUME FilesInv, UNCHANGED Files
  PROVE  FilesInv'
  BY FilesUnchanged DEF Files, SameHabits

LEMMA PositionMoved ==
  ASSUME FilesInv, NEW fd \in Fds, NEW p \in Nat, desc' = [desc EXCEPT ![fd].pos = p], UNCHANGED <<tainted, ut>>, SameHabits
  PROVE  FilesInv'
<1>1. DescType'
  BY DEF FilesInv, DescType
<1>2. \A e \in Fds : desc'[e].path = desc[e].path
  BY DEF FilesInv, DescType
<1>3. \A e : OnInput(e)' <=> OnInput(e)
  BY <1>2 DEF OnInput
<1>4. 0 \in Fds
  BY SizeAssumption DEF Fds
<1>5. /\ "lost" \in habits' <=> "lost" \in habits
      /\ "stdin" \in habits' <=> "stdin" \in habits
      /\ "stat" \in habits' <=> "stat" \in habits
      /\ "moved" \in habits' <=> "moved" \in habits
  BY DEF SameHabits
<1>6. FollowInv'
  BY <1>2, <1>3, <1>4, <1>5 DEF FilesInv, FollowInv, InputOpen
<1>7. TaintedType' /\ UtType' /\ UtmpInv'
  BY <1>5 DEF FilesInv, TaintedType, UtType, UtmpInv
<1> QED
  BY <1>1, <1>6, <1>7 DEF FilesInv

(* A call that sets descriptor fd to d and tainted.fd to t, with the      *)
(* habits that go with it.                                                 *)
LEMMA DescriptorSet ==
  ASSUME FilesInv, NEW fd \in Fds, NEW d \in [path : Paths \cup {"none"}, pos : Nat], NEW t \in Fds \cup {-1},
         NEW h \in SUBSET {"lost"},
         desc' = [desc EXCEPT ![fd] = d],
         tainted' = [tainted EXCEPT !.fd = t], Habit(h), UNCHANGED ut,
         "lost" \notin h =>
            \/ d.path = "input" /\ t = fd /\ ~InputOpen /\ desc[fd] = Closed
            \/ d.path = "other" /\ t = tainted.fd /\ desc[fd] = Closed
            \/ d.path = "none" /\ t = (IF tainted.fd = fd THEN -1 ELSE tainted.fd)
  PROVE  FilesInv'
<1>1. DescType'
  BY DEF FilesInv, DescType
<1>2. TaintedType'
  BY DEF FilesInv, TaintedType
<1>3. UtType'
  BY DEF FilesInv, UtType
<1>5. tainted'.fd = t /\ tainted'.is_utmp = tainted.is_utmp /\ tainted'.offset = tainted.offset
  BY DEF FilesInv, TaintedType
<1>6. ("stat" \in habits' <=> "stat" \in habits) /\ ("moved" \in habits' <=> "moved" \in habits)
  BY DEF Habit
<1>7. UtmpInv'
  BY <1>5, <1>6 DEF FilesInv, UtmpInv
<1>8. desc'[fd].path = d.path /\ \A e \in Fds \ {fd} : desc'[e].path = desc[e].path
  BY DEF FilesInv, DescType
<1>9. ASSUME "lost" \notin habits'
      PROVE  IF "stdin" \in habits'
             THEN tainted'.fd = 0 /\ desc'[0].path = "other" /\ ~InputOpen'
             ELSE \A e \in Fds : OnInput(e)' <=> tainted'.fd = e
  <2>1. "lost" \notin h /\ "lost" \notin habits
    BY <1>9 DEF Habit
  <2>2. "stdin" \in habits' <=> ("stdin" \in habits /\ t = 0)
    BY <1>5, <2>1 DEF Habit
  <2>3. \A e \in Fds : OnInput(e)' <=> (IF e = fd THEN d.path = "input" ELSE OnInput(e))
    BY <1>8 DEF OnInput
  <2>4. 0 \in Fds /\ -1 \notin Fds
    BY SizeAssumption DEF Fds
  <2>5. Closed.path = "none"
    BY DEF Closed
  <2>6. CASE "stdin" \in habits
    <3>1. tainted.fd = 0 /\ desc[0].path = "other" /\ \A e \in Fds : ~OnInput(e)
      BY <2>1, <2>6 DEF FilesInv, FollowInv, InputOpen
    <3>2. CASE d.path = "input" /\ t = fd /\ desc[fd] = Closed
      <4>1. fd # 0
        BY <3>1, <3>2, <2>5
      <4> QED
        BY <4>1, <3>1, <3>2, <2>2, <2>3, <1>5, Zenon
    <3>3. CASE d.path = "other" /\ t = tainted.fd /\ desc[fd] = Closed
      <4>1. fd # 0
        BY <3>1, <3>3, <2>5
      <4>2. desc'[0].path = "other"
        BY <4>1, <3>1, <1>8, <2>4
      <4> QED
        BY <4>2, <3>1, <3>3, <2>2, <2>3, <2>6, <1>5, Zenon DEF InputOpen
    <3>4. CASE d.path = "none" /\ t = (IF tainted.fd = fd THEN -1 ELSE tainted.fd)
      <4>1. CASE fd = 0
        BY <4>1, <3>1, <3>4, <2>2, <2>3, <2>4, <1>5, Zenon
      <4>2. CASE fd # 0
        BY <4>2, <3>1, <3>4, <2>2, <2>3, <2>4, <2>6, <1>5, <1>8, Zenon DEF InputOpen
      <4> QED
        BY <4>1, <4>2
    <3> QED
      BY <2>1, <3>2, <3>3, <3>4
  <2>7. CASE "stdin" \notin habits
    <3>1. \A e \in Fds : OnInput(e) <=> tainted.fd = e
      BY <2>1, <2>7 DEF FilesInv, FollowInv
    <3>2. CASE d.path = "input" /\ t = fd /\ ~InputOpen
      BY <3>1, <3>2, <2>2, <2>3, <2>7, <1>5 DEF InputOpen
    <3>3. CASE d.path = "other" /\ t = tainted.fd /\ desc[fd] = Closed
      <4>1. ~OnInput(fd)
        BY <3>3, <2>5 DEF OnInput
      <4> QED
        BY <4>1, <3>1, <3>3, <2>2, <2>3, <2>7, <1>5
    <3>4. CASE d.path = "none" /\ t = (IF tainted.fd = fd THEN -1 ELSE tainted.fd)
      BY <3>1, <3>4, <2>2, <2>3, <2>4, <2>7, <1>5
    <3> QED
      BY <2>1, <3>2, <3>3, <3>4
  <2> QED
    BY <2>6, <2>7
<1>10. FollowInv'
  BY <1>9 DEF FollowInv
<1> QED
  BY <1>1, <1>2, <1>3, <1>7, <1>10 DEF FilesInv

LEMMA TaintedSame ==
  ASSUME TaintedType
  PROVE  tainted = [tainted EXCEPT !.fd = tainted.fd] /\ tainted.fd \in Fds \cup {-1}
  BY DEF TaintedType

LEMMA OpenFiles ==
  ASSUME FilesInv, NEW path \in Paths, NEW fd \in Fds, Open(path, fd) \/ Fopen(path, fd)
  PROVE  FilesInv'
<1> DEFINE d == [path |-> path, pos |-> 0]
<1>1. d \in [path : Paths \cup {"none"}, pos : Nat] /\ d.path = path
  BY Zenon
<1>2. desc' = [desc EXCEPT ![fd] = d] /\ UNCHANGED ut /\ desc[fd] = Closed
  BY DEF Open, Fopen, Opened, Lowest
<1>3. tainted = [tainted EXCEPT !.fd = tainted.fd] /\ tainted.fd \in Fds \cup {-1}
  BY TaintedSame DEF FilesInv
<1>4. CASE Open(path, fd)
  <2> DEFINE h == IF path = "input" /\ (InputOpen \/ fd = 0) THEN {"lost"} ELSE {}
             t == IF path = "input" /\ fd # 0 THEN fd ELSE tainted.fd
  <2>1. Habit(h) /\ h \in SUBSET {"lost"}
    BY <1>4 DEF Open
  <2>2. tainted' = [tainted EXCEPT !.fd = t] /\ t \in Fds \cup {-1}
    BY <1>3, <1>4 DEF Open, taint_set_file
  <2>3. "lost" \notin h =>
          \/ path = "input" /\ t = fd /\ ~InputOpen
          \/ path = "other" /\ t = tainted.fd
    BY DEF Paths
  <2> HIDE DEF d, h, t
  <2>4. "lost" \notin h =>
          \/ d.path = "input" /\ t = fd /\ ~InputOpen /\ desc[fd] = Closed
          \/ d.path = "other" /\ t = tainted.fd /\ desc[fd] = Closed
          \/ d.path = "none" /\ t = (IF tainted.fd = fd THEN -1 ELSE tainted.fd)
    BY <1>1, <1>2, <2>3
  <2> QED
    BY <1>1, <1>2, <2>1, <2>2, <2>4, DescriptorSet, Zenon
<1>5. CASE Fopen(path, fd)
  <2> DEFINE h == IF path = "input" /\ InputOpen THEN {"lost"} ELSE {}
             t == IF path = "input" THEN fd ELSE tainted.fd
  <2>1. Habit(h) /\ h \in SUBSET {"lost"}
    BY <1>5 DEF Fopen
  <2>2. tainted' = [tainted EXCEPT !.fd = t] /\ t \in Fds \cup {-1}
    BY <1>3, <1>5 DEF Fopen, taint_set_file
  <2>3. "lost" \notin h =>
          \/ path = "input" /\ t = fd /\ ~InputOpen
          \/ path = "other" /\ t = tainted.fd
    BY DEF Paths
  <2> HIDE DEF d, h, t
  <2>4. "lost" \notin h =>
          \/ d.path = "input" /\ t = fd /\ ~InputOpen /\ desc[fd] = Closed
          \/ d.path = "other" /\ t = tainted.fd /\ desc[fd] = Closed
          \/ d.path = "none" /\ t = (IF tainted.fd = fd THEN -1 ELSE tainted.fd)
    BY <1>1, <1>2, <2>3
  <2> QED
    BY <1>1, <1>2, <2>1, <2>2, <2>4, DescriptorSet, Zenon
<1> QED
  BY <1>4, <1>5, Zenon

LEMMA CloseFiles ==
  ASSUME FilesInv, NEW fd \in Fds, Close(fd) \/ (\E ok \in BOOLEAN : Fclose(fd, ok))
  PROVE  FilesInv'
<1>1. Closed \in [path : Paths \cup {"none"}, pos : Nat] /\ Closed.path = "none"
  BY DEF Closed
<1>2. desc' = [desc EXCEPT ![fd] = Closed] /\ UNCHANGED ut
  BY DEF Close, Fclose
<1>3. tainted = [tainted EXCEPT !.fd = tainted.fd] /\ tainted.fd \in Fds \cup {-1}
  BY TaintedSame DEF FilesInv
<1> DEFINE t == IF tainted.fd = fd THEN -1 ELSE tainted.fd
<1>4. CASE tainted' = taint_close_file(fd) /\ Habit({})
  <2>1. tainted' = [tainted EXCEPT !.fd = t] /\ t \in Fds \cup {-1}
    BY <1>3, <1>4 DEF taint_close_file
  <2> QED
    BY <1>1, <1>2, <1>4, <2>1, DescriptorSet, Zenon
<1>5. CASE tainted' = tainted /\ Habit({"lost"})
  <2>1. {"lost"} \in SUBSET {"lost"} /\ "lost" \in {"lost"}
    OBVIOUS
  <2> QED
    BY <1>1, <1>2, <1>3, <1>5, <2>1, DescriptorSet, Zenon
<1>6. ASSUME NEW ok \in BOOLEAN, Fclose(fd, ok)
      PROVE  (tainted' = taint_close_file(fd) /\ Habit({})) \/ (tainted' = tainted /\ Habit({"lost"}))
  BY <1>6 DEF Fclose
<1> QED
  BY <1>4, <1>5, <1>6 DEF Close

LEMMA LostFiles ==
  ASSUME FilesInv, NEW fd \in Fds, NEW to \in Fds,
         Dup2(fd, to) \/ (\E path \in Paths, ok \in BOOLEAN : Freopen(fd, path, ok))
  PROVE  FilesInv'
<1>1. Closed \in [path : Paths \cup {"none"}, pos : Nat]
  BY DEF Closed
<1>2. tainted = [tainted EXCEPT !.fd = tainted.fd] /\ tainted.fd \in Fds \cup {-1}
  BY TaintedSame DEF FilesInv
<1>3. {"lost"} \in SUBSET {"lost"} /\ "lost" \in {"lost"}
  OBVIOUS
<1>4. CASE Dup2(fd, to)
  <2>1. desc[fd] \in [path : Paths \cup {"none"}, pos : Nat]
    BY DEF FilesInv, DescType
  <2>2. desc' = [desc EXCEPT ![to] = desc[fd]] /\ UNCHANGED ut /\ tainted' = tainted /\ Habit({"lost"})
    BY <1>4 DEF Dup2
  <2> QED
    BY <1>2, <1>3, <2>1, <2>2, DescriptorSet, Zenon
<1>5. ASSUME NEW path \in Paths, NEW ok \in BOOLEAN, Freopen(fd, path, ok)
      PROVE  FilesInv'
  <2> DEFINE d == IF ok THEN [path |-> path, pos |-> 0] ELSE Closed
             t == IF ok /\ path = "input" THEN fd ELSE tainted.fd
  <2>1. d \in [path : Paths \cup {"none"}, pos : Nat] /\ t \in Fds \cup {-1}
    BY <1>1, <1>2
  <2>2. tainted' = [tainted EXCEPT !.fd = t]
    BY <1>2, <1>5 DEF Freopen, taint_set_file
  <2>3. desc' = [desc EXCEPT ![fd] = d] /\ UNCHANGED ut /\ Habit({"lost"})
    BY <1>5 DEF Freopen
  <2> HIDE DEF d, t
  <2> QED
    BY <1>3, <2>1, <2>2, <2>3, DescriptorSet, Zenon
<1> QED
  BY <1>4, <1>5

LEMMA OpenFailsFiles ==
  ASSUME FilesInv, NEW path \in Paths, OpenFails(path)
  PROVE  FilesInv'
<1> DEFINE t == IF path = "input" THEN -1 ELSE tainted.fd
<1>1. tainted' = [tainted EXCEPT !.fd = t] /\ t \in Fds \cup {-1}
  BY TaintedSame DEF FilesInv, OpenFails, taint_set_file
<1>2. tainted'.fd = t /\ tainted'.is_utmp = tainted.is_utmp /\ tainted'.offset = tainted.offset /\ TaintedType'
  BY <1>1 DEF FilesInv, TaintedType
<1>3. DescType' /\ UtType' /\ desc' = desc
  BY DEF FilesInv, OpenFails, DescType, UtType
<1>4. Habit(IF path = "input" /\ InputOpen THEN {"lost"} ELSE {})
  BY DEF OpenFails
<1>5. ("stat" \in habits' <=> "stat" \in habits) /\ ("moved" \in habits' <=> "moved" \in habits)
  BY <1>4 DEF Habit
<1>6. UtmpInv'
  BY <1>2, <1>5 DEF FilesInv, UtmpInv, OpenFails
<1>7. -1 \notin Fds
  BY DEF Fds
<1>8. FollowInv'
  <2>1. SUFFICES ASSUME "lost" \notin habits'
                 PROVE  IF "stdin" \in habits'
                        THEN tainted'.fd = 0 /\ desc'[0].path = "other" /\ ~InputOpen'
                        ELSE \A e \in Fds : OnInput(e)' <=> tainted'.fd = e
    BY DEF FollowInv
  <2>2. "lost" \notin habits /\ (path = "input" => ~InputOpen)
    BY <1>4, <2>1 DEF Habit
  <2>3. "stdin" \in habits' <=> ("stdin" \in habits /\ t = 0)
    BY <1>2, <1>4 DEF Habit
  <2>4. InputOpen' <=> InputOpen
    BY <1>3 DEF InputOpen, OnInput
  <2>5. \A e : OnInput(e)' <=> OnInput(e)
    BY <1>3 DEF OnInput
  <2>6. CASE path = "input"
    <3>1. \A e \in Fds : ~OnInput(e)
      BY <2>2, <2>6, Zenon DEF InputOpen
    <3> QED
      BY <3>1, <1>2, <1>7, <2>3, <2>5, <2>6
  <2>7. CASE path # "input"
    <3>1. t = tainted.fd
      BY <2>7, Zenon
    <3>2. CASE "stdin" \in habits
      BY <3>1, <3>2, <1>2, <1>3, <2>2, <2>3, <2>4 DEF FilesInv, FollowInv
    <3>3. CASE "stdin" \notin habits
      BY <3>1, <3>3, <1>2, <2>2, <2>3, <2>5, Zenon DEF FilesInv, FollowInv
    <3> QED
      BY <3>2, <3>3
  <2> QED
    BY <2>6, <2>7
<1> QED
  BY <1>2, <1>3, <1>6, <1>8 DEF FilesInv

(* A call that changes only what the utmpx functions read. *)
LEMMA UtmpSet ==
  ASSUME FilesInv, desc' = desc, TaintedType', tainted'.fd = tainted.fd, UtType', UtmpInv',
         "lost" \in habits' <=> "lost" \in habits,
         "lost" \notin habits => ("stdin" \in habits' <=> "stdin" \in habits)
  PROVE  FilesInv'
<1>1. \A e : OnInput(e)' <=> OnInput(e)
  BY DEF OnInput
<1>2. InputOpen' <=> InputOpen
  BY <1>1 DEF InputOpen
<1>3. FollowInv'
  <2>1. CASE "lost" \in habits
    BY <2>1 DEF FollowInv
  <2>2. CASE "lost" \notin habits /\ "stdin" \in habits
    BY <1>2, <2>2, Zenon DEF FilesInv, FollowInv
  <2>3. CASE "lost" \notin habits /\ "stdin" \notin habits
    BY <1>1, <2>3 DEF FilesInv, FollowInv
  <2> QED
    BY <2>1, <2>2, <2>3, Zenon
<1> QED
  BY <1>3 DEF FilesInv, DescType

LEMMA UtmpxnameFiles ==
  ASSUME FilesInv, NEW path \in Paths, Utmpxname(path)
  PROVE  FilesInv'
<1> DEFINE u == IF path = "input" THEN 1 ELSE 0
           o == IF path = "input" THEN 0 ELSE tainted.offset
<1>1. tainted.offset \in Nat /\ tainted.fd \in Fds \cup {-1}
  BY DEF FilesInv, TaintedType
<1>2. is_taint_file(path) = [fd |-> tainted.fd, is_utmp |-> u, offset |-> tainted.offset]
  BY DEF FilesInv, TaintedType, is_taint_file
<1>3. tainted' = [fd |-> tainted.fd, is_utmp |-> u, offset |-> o]
  BY <1>2 DEF Utmpxname
<1>4. TaintedType' /\ tainted'.fd = tainted.fd
  BY <1>1, <1>3 DEF TaintedType
<1>5. UtType' /\ ut'.path = path /\ ut'.pos = 0
  BY DEF Utmpxname, UtType
<1>6. UtmpInv'
  BY <1>3, <1>5 DEF UtmpInv
<1>7. desc' = desc /\ ("lost" \in habits' <=> "lost" \in habits) /\ ("stdin" \in habits' <=> "stdin" \in habits)
  BY DEF Utmpxname
<1> QED
  BY <1>4, <1>5, <1>6, <1>7, UtmpSet

LEMMA SetutxentFiles ==
  ASSUME FilesInv, Setutxent
  PROVE  FilesInv'
<1> DEFINE o == IF tainted.is_utmp = 1 THEN 0 ELSE tainted.offset
<1>1. tainted' = [fd |-> tainted.fd, is_utmp |-> tainted.is_utmp, offset |-> o]
  BY DEF FilesInv, TaintedType, Setutxent
<1>2. TaintedType' /\ tainted'.fd = tainted.fd
  BY <1>1 DEF FilesInv, TaintedType
<1>3. UtType' /\ ut'.path = ut.path /\ ut'.pos = 0
  BY DEF Setutxent, FilesInv, UtType
<1>4. desc' = desc /\ \A x \in {"lost", "stdin", "stat"} : x \in habits' <=> x \in habits
  BY DEF Setutxent
<1>5. UtmpInv'
  BY <1>1, <1>3, <1>4 DEF FilesInv, UtmpInv
<1> QED
  BY <1>2, <1>3, <1>4, <1>5, UtmpSet

LEMMA GetutxentFiles ==
  ASSUME FilesInv, NEW b \in Blocks, NEW i \in Idx, Getutxent(b, i), SameHabits
  PROVE  FilesInv'
<1> DEFINE o == IF tainted.is_utmp = 1 THEN tainted.offset + 1 ELSE tainted.offset
<1>1. tainted' = [fd |-> tainted.fd, is_utmp |-> tainted.is_utmp, offset |-> o]
  BY DEF FilesInv, TaintedType, Getutxent, NextRecord
<1>2. TaintedType' /\ tainted'.fd = tainted.fd
  BY <1>1 DEF FilesInv, TaintedType
<1>3. UtType' /\ ut'.path = ut.path /\ ut'.pos = ut.pos + 1
  BY DEF Getutxent, FilesInv, UtType
<1>4. desc' = desc /\ \A x \in {"lost", "stdin", "stat", "moved"} : x \in habits' <=> x \in habits
  BY DEF Getutxent, SameHabits
<1>5. UtmpInv'
  BY <1>1, <1>3, <1>4 DEF FilesInv, UtmpInv
<1> QED
  BY <1>2, <1>3, <1>4, <1>5, UtmpSet, Zenon

(* endutxent, getutxid and getutxline. *)
LEMMA UnfollowedFiles ==
  ASSUME FilesInv, NEW p \in Nat, ut' = [ut EXCEPT !.pos = p], Mislabels({"moved"}), UNCHANGED <<tainted, desc>>
  PROVE  FilesInv' /\ Sticky(habits) \subseteq habits'
<1>1. UtType' /\ ut'.path = ut.path
  BY DEF FilesInv, UtType
<1>2. /\ "moved" \in habits'
      /\ \A x \in {"lost", "stdin", "stat"} : x \in habits' <=> x \in habits
      /\ Sticky(habits) \subseteq habits'
  BY DEF Mislabels, Sticky
<1>3. TaintedType' /\ tainted'.fd = tainted.fd
  BY DEF FilesInv, TaintedType
<1>4. UtmpInv'
  BY <1>1, <1>2 DEF FilesInv, UtmpInv
<1> QED
  BY <1>1, <1>2, <1>3, <1>4, UtmpSet

LEMMA StatFiles ==
  ASSUME FilesInv, NEW path \in Paths, NEW b \in Blocks, Stat(path, b)
  PROVE  FilesInv' /\ tainted'.is_utmp \in {0, 1} /\ Sticky(habits) \subseteq habits'
<1> DEFINE u == IF path = "input" THEN 1 ELSE 0
           h == IF path # ut.path THEN {"stat"} ELSE {}
<1>1. tainted' = [fd |-> tainted.fd, is_utmp |-> u, offset |-> tainted.offset]
  BY DEF FilesInv, TaintedType, Stat, is_taint_file
<1>2. TaintedType' /\ tainted'.fd = tainted.fd /\ tainted'.is_utmp \in {0, 1}
  BY <1>1 DEF FilesInv, TaintedType
<1>3. UtType' /\ desc' = desc /\ ut' = ut
  BY DEF FilesInv, UtType, Stat
<1>4. habits' = (IF tainted'.fd = 0 THEN habits ELSE habits \ {"stdin"}) \cup h
  BY DEF Stat, Habit
<1>5. /\ "lost" \in habits' <=> "lost" \in habits
      /\ "moved" \in habits' <=> "moved" \in habits
      /\ "stat" \in habits' <=> "stat" \in habits \/ path # ut.path
      /\ Sticky(habits) \subseteq habits'
  BY <1>4 DEF Sticky
<1>6. "lost" \notin habits => ("stdin" \in habits' <=> "stdin" \in habits)
  BY <1>2, <1>4, Zenon DEF FilesInv, FollowInv
<1>7. UtmpInv'
  BY <1>1, <1>3, <1>5 DEF FilesInv, UtmpInv
<1> QED
  BY <1>2, <1>3, <1>5, <1>6, <1>7, UtmpSet

-----------------------------------------------------------------------------
(* What the calls write. *)
LEMMA ReadsRight ==
  ASSUME IInv, NEW fd \in Fds, NEW b \in Blocks,
         \/ Fread(fd, b) \/ Getline(fd, b)
         \/ \E n \in 1 .. L : Read(fd, b, n)
         \/ \E i \in Idx : Fgetc(fd, b, i)
  PROVE  IInv'
<1>0. /\ input' = input /\ UNCHANGED <<tainted, ut>>
      /\ Sticky(habits) \cup Misread(fd) \subseteq habits' /\ SameHabits
  <2>1. input' = input /\ UNCHANGED <<tainted, ut>> /\ Mislabels(Misread(fd))
    BY Zenon DEF Fread, Getline, Read, Fgetc, Call
  <2>2. Misread(fd) \in SUBSET Mistakes
    BY DEF Misread, Mistakes
  <2> QED
    BY <2>1, <2>2, Marks, Zenon
<1> DEFINE R == Rows(habits', input)
           C == RightCells(habits', input)
<1>1. desc[fd].pos \in Nat /\ \A x : x \in Nat => desc[fd].pos + x \in Nat
  BY DEF IInv, FilesInv, DescType
<1>2. ASSUME NEW n \in Int, NEW ret \in Returns(desc[fd].pos, n)
      PROVE  ret \in Nat /\ (n < L => ret < L) /\ (n <= L => ret <= L)
  BY <1>1, <1>2, SizeAssumption DEF Returns, Min2
<1>3. \A ret \in Nat : desc' = [desc EXCEPT ![fd].pos = @ + ret] => FilesInv'
  BY <1>0, <1>1, PositionMoved, Zenon DEF IInv
<1>4. \A f \in R : Write(b, f) => MemRight'
  BY <1>0, WriteRight, Zenon DEF IInv, Write
<1>5. mem[b] \in R /\ \A i \in Idx : mem[b][i] \in C
  BY <1>0, RowOf DEF IInv
<1>6. \A o \in Nat : ReadCell(fd, o) \in C
  BY <1>0, ReadRight, Zenon DEF IInv
<1>7. \A o \in Nat, k \in Int : Filled(b, fd, o, k) \in R
  BY <1>0, FilledRight, Zenon DEF IInv
<1>8. ASSUME NEW n \in 1 .. L, Read(fd, b, n)
      PROVE  IInv'
  <2>1. PICK ret \in Returns(desc[fd].pos, n) :
          Write(b, Filled(b, fd, desc[fd].pos, ret)) /\ desc' = [desc EXCEPT ![fd].pos = @ + ret]
    BY <1>8, Zenon DEF Read
  <2>2. ret \in Nat
    BY <1>2, <2>1
  <2>3. Filled(b, fd, desc[fd].pos, ret) \in R
    BY <1>1, <1>7, <2>2
  <2> QED
    BY <1>3, <1>4, <2>1, <2>2, <2>3, Zenon DEF IInv
<1>9. CASE Fread(fd, b)
  <2> DEFINE p == desc[fd].pos
             f(got) == [i \in Idx |->
                          CASE i < got /\ got = 2 -> ReadCell(fd, p + i)
                            [] i < got /\ got # 2 -> Cell(FileByte(desc[fd].path, p + i), Unknown)
                            [] OTHER -> mem[b][i]]
  <2>1. PICK got \in Returns(p, 2) : Write(b, f(got)) /\ desc' = [desc EXCEPT ![fd].pos = @ + got]
    BY <1>9, Zenon DEF Fread
  <2>2. got \in Nat
    BY <1>2, <2>1
  <2>3. ASSUME NEW i \in Idx
        PROVE  f(got)[i] \in C
    <3>1. p + i \in Nat /\ mem[b][i] \in C
      BY <1>1, <1>5 DEF Idx
    <3>2. ReadCell(fd, p + i) \in C
      BY <3>1, <1>6, Zenon
    <3>3. Cell(FileByte(desc[fd].path, p + i), Unknown) \in C
      <4>1. FileByte(desc[fd].path, p + i) \in Int
        BY <3>1 DEF FileByte, Chr
      <4> QED
        BY <4>1, UnknownRight, Zenon
    <3> HIDE DEF C
    <3> QED
      BY <3>1, <3>2, <3>3, <2>2, Zenon
  <2>4. f(got) \in R
    BY <2>3 DEF Rows
  <2> QED
    BY <1>3, <1>4, <2>1, <2>2, <2>4, Zenon DEF IInv
<1>10. ASSUME NEW i \in Idx, Fgetc(fd, b, i)
       PROVE  IInv'
  <2>1. ReadCell(fd, desc[fd].pos) \in C
    BY <1>1, <1>6, Zenon
  <2>2. [mem[b] EXCEPT ![i] = ReadCell(fd, desc[fd].pos)] \in R
    BY <2>1, <1>5 DEF Rows
  <2>3. Write(b, [mem[b] EXCEPT ![i] = ReadCell(fd, desc[fd].pos)]) /\ desc' = [desc EXCEPT ![fd].pos = @ + 1]
    BY <1>10, Zenon DEF Fgetc
  <2>4. 1 \in Nat
    OBVIOUS
  <2> QED
    BY <1>3, <1>4, <2>2, <2>3, <2>4, Zenon DEF IInv
<1>11. CASE Getline(fd, b)
  <2>1. PICK ret \in Returns(desc[fd].pos, L - 1) :
          Write(b, Line(b, fd, ret)) /\ desc' = [desc EXCEPT ![fd].pos = @ + ret]
    BY <1>11, Zenon DEF Getline
  <2>2. ret \in Nat /\ ret \in Idx
    BY <1>2, <2>1, SizeAssumption DEF Idx
  <2>3. Filled(b, fd, desc[fd].pos, ret) \in R
    <3>1. ret \in Int
      BY <2>2
    <3> QED
      BY <1>1, <1>7, <3>1, Zenon
  <2>4. Plain(Nul) \in C
    BY PlainRight, Zenon
  <2>5. Line(b, fd, ret) \in R
    BY <1>5, <2>2, <2>3, <2>4 DEF Line, Rows
  <2> QED
    BY <1>3, <1>4, <2>1, <2>2, <2>5, Zenon DEF IInv
<1> QED
  BY <1>8, <1>9, <1>10, <1>11

LEMMA FgetsRight ==
  ASSUME IInv, NEW fd \in Fds, NEW b \in Blocks, Fgets(fd, b)
  PROVE  IInv'
<1> DEFINE zero(len, ret) == IF len # ret THEN {"zero"} ELSE {}
           f(got, len, ret) == [i \in Idx |-> IF i <= ret THEN FgetsCell(got[i], i, len) ELSE got[i]]
<1>1. input' = input /\ UNCHANGED <<tainted, ut>>
  BY DEF Fgets, Call
<1>2. PICK ret \in Returns(desc[fd].pos, L - 1) \ {0}, len \in Idx :
        /\ FirstNul(Line(b, fd, ret), len)
        /\ Write(b, f(Line(b, fd, ret), len, ret))
        /\ desc' = [desc EXCEPT ![fd].pos = @ + ret]
        /\ Mislabels(Misread(fd) \cup zero(len, ret))
  BY Zenon DEF Fgets
<1>3. desc[fd].pos \in Nat
  BY DEF IInv, FilesInv, DescType
<1>4. ret \in Nat \ {0} /\ ret \in Idx /\ desc[fd].pos + ret \in Nat
  BY <1>2, <1>3, SizeAssumption DEF Returns, Min2, Idx
<1>5. Sticky(habits) \cup Misread(fd) \cup zero(len, ret) \subseteq habits' /\ SameHabits
  <2>1. Misread(fd) \cup zero(len, ret) \in SUBSET Mistakes
    BY DEF Misread, Mistakes
  <2> QED
    BY <1>2, <2>1, Marks
<1>6. FilesInv'
  BY <1>1, <1>2, <1>3, <1>4, <1>5, PositionMoved, Zenon DEF IInv
<1> DEFINE R == Rows(habits', input)
           C == RightCells(habits', input)
           got == Line(b, fd, ret)
<1>7. Filled(b, fd, desc[fd].pos, ret) \in R
  <2>1. ret \in Int /\ Sticky(habits) \cup Misread(fd) \subseteq habits'
    BY <1>4, <1>5
  <2> QED
    BY <1>3, <2>1, FilledRight, Zenon DEF IInv
<1>8. got \in R /\ got[ret] = Plain(Nul)
  BY <1>4, <1>7, PlainRight DEF Line, Rows
<1>9. Value(got[len].byte, input) = 0
  BY <1>2, Zenon DEF FirstNul
<1>10. \A i \in Idx : got[i] \in C /\ got[i].byte \in Int
  BY <1>8, ByteInt, Zenon DEF Rows
<1>11. got[ret].byte < 0
  BY <1>8 DEF Plain, Cell, Nul
<1>12. len # ret => "zero" \in habits'
  BY <1>5
<1> HIDE DEF got, C
<1>13. ASSUME NEW i \in Idx
       PROVE  FgetsCell(got[i], i, len) \in C
  <2>1. CASE i < len
    BY <2>1, <1>10 DEF FgetsCell
  <2>2. CASE i = len
    <3>1. got[i].byte < 0 \/ (Value(got[i].byte, input) = 0 /\ "zero" \in habits')
      BY <2>2, <1>9, <1>11, <1>12, Zenon
    <3>2. Cell(got[i].byte, 0) \in C
      BY <3>1, <1>10, ZeroRight DEF C
    <3> QED
      BY <2>2, <3>2 DEF FgetsCell, Idx
  <2>3. CASE i > len
    <3>1. Cell(got[i].byte, Unknown) \in C
      BY <1>10, UnknownRight DEF C
    <3> QED
      BY <2>3, <3>1 DEF FgetsCell, Idx
  <2> QED
    BY <2>1, <2>2, <2>3, SizeAssumption DEF Idx
<1>14. f(got, len, ret) \in [Idx -> C]
  BY <1>10, <1>13, Zenon
<1>15. f(got, len, ret) \in R /\ mem' = [mem EXCEPT ![b] = f(got, len, ret)]
  BY <1>2, <1>14, Zenon DEF Rows, got, C, Write
<1> HIDE DEF f
<1>16. Sticky(habits) \subseteq habits'
  BY <1>5
<1>17. MemRight'
  BY <1>1, <1>15, <1>16, WriteRight, Zenon DEF IInv
<1> QED
  BY <1>6, <1>17 DEF IInv

LEMMA OtherReadsRight ==
  ASSUME IInv, NEW b \in Blocks, NEW fd \in Fds,
         Fstat(fd, b) \/ \E n \in 1 .. L, o \in 0 .. N : Pread(fd, b, n, o)
  PROVE  IInv'
<1>1. /\ input' = input /\ UNCHANGED <<tainted, desc, ut>>
      /\ Sticky(habits) \cup Misread(fd) \subseteq habits' /\ SameHabits
  <2>1. input' = input /\ UNCHANGED <<tainted, desc, ut>> /\ Mislabels(Misread(fd))
    BY DEF Fstat, Pread, Call
  <2>2. Misread(fd) \in SUBSET Mistakes
    BY DEF Misread, Mistakes
  <2> QED
    BY <2>1, <2>2, Marks
<1> DEFINE R == Rows(habits', input)
           C == RightCells(habits', input)
<1>2. \A f \in R : Write(b, f) => MemRight'
  BY <1>1, WriteRight, Zenon DEF IInv, Write
<1>3. FilesInv'
  BY <1>1, FilesUnchanged DEF IInv
<1>4. ASSUME NEW n \in 1 .. L, NEW o \in 0 .. N, Pread(fd, b, n, o)
      PROVE  MemRight'
  <2>1. PICK ret \in Returns(o, n) : Write(b, Filled(b, fd, o, ret))
    BY <1>4 DEF Pread
  <2>2. o \in Nat /\ ret \in Int
    BY <2>1 DEF Returns, Min2
  <2>3. Filled(b, fd, o, ret) \in R
    BY <1>1, <2>2, FilledRight DEF IInv
  <2> QED
    BY <1>2, <2>1, <2>3, Zenon
<1>5. ASSUME Fstat(fd, b)
      PROVE  MemRight'
  <2> DEFINE Wrong == [i \in Idx |-> Cell(Chr, Stated[i].label)]
  <2>1. Stated \in R /\ Unlabelled \in R
    BY PlainRight, InputRight, SizeAssumption DEF Stated, Unlabelled, Rows
  <2>2. CASE taint_get_file(fd) # 0 /\ ~OnInput(fd)
    <3>1. "misread" \in habits'
      BY <1>1, <2>2 DEF Misread
    <3>2. ASSUME NEW i \in Idx PROVE Stated[i].label \in Int
      <4>1. Stated[i] \in {Cell(N, N + CONST_OFFSET), Plain(Chr)}
        BY Zenon DEF Stated
      <4>2. N + CONST_OFFSET \in Int
        BY SizeAssumption DEF CONST_OFFSET
      <4> QED
        BY <4>1, <4>2 DEF Cell, Plain
    <3>3. Chr \in Int
      BY DEF Chr
    <3>4. \A i \in Idx : Cell(Chr, Stated[i].label) \in C
      BY <3>1, <3>2, <3>3, MistakeRight, Zenon
    <3>5. Wrong \in R
      BY <3>4, Zenon DEF Rows
    <3>6. Write(b, Wrong)
      BY <1>5, <2>2 DEF Fstat
    <3> QED
      BY <1>2, <3>5, <3>6, Zenon
  <2>3. CASE taint_get_file(fd) = 0 \/ OnInput(fd)
    <3>1. Write(b, Unlabelled) \/ Write(b, Stated)
      BY <1>5, <2>3 DEF Fstat
    <3> QED
      BY <1>2, <2>1, <3>1, Zenon
  <2> QED
    BY <2>2, <2>3
<1> QED
  BY <1>3, <1>4, <1>5 DEF IInv

LEMMA StatRight ==
  ASSUME IInv, NEW path \in Paths, NEW b \in Blocks, Stat(path, b)
  PROVE  IInv'
<1>1. FilesInv' /\ Sticky(habits) \subseteq habits'
  BY StatFiles DEF IInv
<1>2. Stated \in Rows(habits', input) /\ Unlabelled \in Rows(habits', input)
  BY PlainRight, InputRight, SizeAssumption DEF Stated, Unlabelled, Rows
<1>3. input' = input /\ (mem' = [mem EXCEPT ![b] = Stated] \/ mem' = [mem EXCEPT ![b] = Unlabelled])
  BY Zenon DEF Stat, Write, Call
<1>4. MemRight'
  BY <1>1, <1>2, <1>3, WriteRight, Zenon DEF IInv
<1> QED
  BY <1>1, <1>4 DEF IInv

LEMMA GetutxentRight ==
  ASSUME IInv, NEW b \in Blocks, NEW i \in Idx, Getutxent(b, i)
  PROVE  IInv'
<1> DEFINE h == IF tainted.is_utmp = 1 /\ habits \cap {"stat", "moved"} # {} THEN {"record"} ELSE {}
           l == IF tainted.is_utmp = 1 THEN tainted.offset + CONST_OFFSET ELSE Unknown
           c == Cell(FileByte(ut.path, ut.pos), l)
<1>1. input' = input /\ Mislabels(h) /\ mem' = [mem EXCEPT ![b] = [mem[b] EXCEPT ![i] = c]]
  BY Zenon DEF Getutxent, Write, Call
<1>2. Sticky(habits) \cup h \subseteq habits' /\ SameHabits
  BY <1>1, Marks DEF Mistakes
<1>3. ut.pos \in Nat /\ FileByte(ut.path, ut.pos) \in Int /\ tainted.offset + CONST_OFFSET \in Int
  BY DEF IInv, FilesInv, UtType, TaintedType, FileByte, Chr, CONST_OFFSET
<1>4. c \in RightCells(habits', input)
  <2>1. CASE tainted.is_utmp = 1 /\ habits \cap {"stat", "moved"} = {}
    <3>1. ut.path = "input" /\ tainted.offset = ut.pos
      BY <2>1 DEF IInv, FilesInv, UtmpInv
    <3> QED
      BY <1>3, <2>1, <3>1, InputRight, Zenon DEF FileByte
  <2>2. CASE tainted.is_utmp = 1 /\ habits \cap {"stat", "moved"} # {}
    <3>1. "record" \in habits'
      BY <1>2, <2>2
    <3> QED
      BY <1>3, <2>2, <3>1, MistakeRight
  <2>3. CASE tainted.is_utmp # 1
    BY <1>3, <2>3, UnknownRight
  <2> QED
    BY <2>1, <2>2, <2>3
<1> HIDE DEF c, h
<1>5. Sticky(habits) \subseteq habits'
  BY <1>2, Zenon
<1>6. [mem[b] EXCEPT ![i] = c] \in Rows(habits', input)
  BY <1>4, <1>5, RowOf DEF IInv, Rows
<1>7. MemRight'
  BY <1>1, <1>5, <1>6, WriteRight, Zenon DEF IInv
<1> QED
  BY <1>2, <1>7, GetutxentFiles DEF IInv

LEMMA GetutxidRight ==
  ASSUME IInv, NEW b \in Blocks, NEW i \in Idx, NEW p \in Offsets, Getutxid(b, i, p)
  PROVE  IInv'
<1>1. p \in Nat /\ p + 1 \in Nat /\ FileByte(ut.path, p) \in Int
  BY DEF Offsets, FileByte, Chr
<1>2. FilesInv' /\ Sticky(habits) \subseteq habits'
  BY <1>1, UnfollowedFiles, Zenon DEF IInv, Getutxid
<1>3. [mem[b] EXCEPT ![i] = Cell(FileByte(ut.path, p), Unknown)] \in Rows(habits', input)
  BY <1>1, <1>2, UnknownRight, RowOf DEF IInv, Rows
<1>4. input' = input /\ mem' = [mem EXCEPT ![b] = [mem[b] EXCEPT ![i] = Cell(FileByte(ut.path, p), Unknown)]]
  BY Zenon DEF Getutxid, Write, Call
<1>5. MemRight'
  BY <1>2, <1>3, <1>4, WriteRight, Zenon DEF IInv
<1> QED
  BY <1>2, <1>5 DEF IInv

LEMMA MmapRight ==
  ASSUME IInv, NEW fd \in Fds \cup {-1}, NEW b \in Blocks, NEW o \in 0 .. N, Mmap(fd, b, o)
  PROVE  IInv'
<1> DEFINE byte(i) == IF fd # -1 /\ o + i < N THEN FileByte(desc[fd].path, o + i) ELSE Nul
           label(i) == IF taint_get_file(fd) # 0 /\ i >= MappedLength(o) THEN Initializing ELSE get_label_for(fd, o + i)
           h == IF fd # -1 THEN Misread(fd) ELSE IF taint_get_file(fd) # 0 THEN {"anon"} ELSE {}
<1>1. /\ mem' = [mem EXCEPT ![b] = [i \in Idx |-> Cell(byte(i), label(i))]]
      /\ Mislabels(h) /\ UNCHANGED <<tainted, desc, ut>> /\ input' = input
  BY Zenon DEF Mmap, Call
<1>2. Sticky(habits) \cup h \subseteq habits' /\ SameHabits
  <2>1. h \in SUBSET Mistakes
    BY Zenon DEF Mistakes, Misread
  <2> QED
    BY <1>1, <2>1, Marks
<1>3. ASSUME NEW i \in Idx
      PROVE  Cell(byte(i), label(i)) \in RightCells(habits', input)
  <2>1. o + i \in Nat /\ i \in Nat /\ N \in Nat \ {0} /\ L \in Nat /\ i < L
    BY SizeAssumption DEF Idx
  <2>2. byte(i) \in Int /\ label(i) \in Int
    BY <2>1 DEF FileByte, Chr, Nul, Initializing, get_label_for, CONST_OFFSET
  <2>3. i < MappedLength(o) <=> o + i < N
    BY <2>1 DEF MappedLength
  <2>4. CASE taint_get_file(fd) = 0 /\ ~OnInput(fd)
    <3>1. label(i) = 0 /\ byte(i) \in {Nul, Chr}
      BY <2>4, Zenon DEF get_label_for, FileByte, OnInput
    <3> QED
      BY <3>1, PlainRight, Zenon
  <2>5. CASE taint_get_file(fd) # 0 /\ ~(o + i < N) /\ fd # -1
    <3>1. label(i) = Initializing /\ byte(i) = Nul
      BY <2>1, <2>3, <2>5 DEF MappedLength
    <3> QED
      BY <3>1, UninitialisedRight, Zenon
  <2>6. CASE taint_get_file(fd) # 0 /\ fd = -1
    <3>1. "anon" \in habits' /\ byte(i) = Nul
      BY <1>2, <2>6, Zenon
    <3> QED
      BY <2>2, <3>1, MistakeRight, Zenon
  <2>7. CASE taint_get_file(fd) # 0 /\ fd # -1 /\ o + i < N /\ ~OnInput(fd)
    <3>1. "misread" \in habits' /\ byte(i) = Chr
      BY <1>2, <2>7, Zenon DEF Misread, FileByte, OnInput
    <3> QED
      BY <2>2, <3>1, MistakeRight, Zenon
  <2>8. CASE taint_get_file(fd) # 0 /\ fd # -1 /\ o + i < N /\ OnInput(fd)
    <3>1. byte(i) = o + i /\ label(i) = o + i + CONST_OFFSET
      BY <2>1, <2>3, <2>8 DEF FileByte, OnInput, get_label_for, MappedLength
    <3> QED
      BY <2>1, <3>1, InputRight, Zenon
  <2>9. CASE taint_get_file(fd) = 0 /\ OnInput(fd)
    <3>1. "lost" \in habits
      BY <2>1, <2>9, Zenon DEF IInv, FilesInv, FollowInv, InputOpen, OnInput, taint_get_file
    <3>2. "lost" \in habits'
      BY <1>2, <3>1 DEF Sticky
    <3> QED
      BY <2>2, <3>2, MistakeRight, Zenon
  <2> HIDE DEF byte, label
  <2> QED
    BY <2>4, <2>5, <2>6, <2>7, <2>8, <2>9, Zenon
<1> HIDE DEF byte, label, h
<1>4. [i \in Idx |-> Cell(byte(i), label(i))] \in Rows(habits', input)
  BY <1>3, Zenon DEF Rows
<1>5. Sticky(habits) \subseteq habits'
  BY <1>2
<1>6. MemRight'
  BY <1>1, <1>4, <1>5, WriteRight, Zenon DEF IInv
<1> QED
  BY <1>1, <1>2, <1>6, FilesUnchanged DEF IInv

(* Calls that give, take and copy blocks. *)
LEMMA HeapRight ==
  ASSUME IInv, NEW b \in Blocks,
         Malloc(b) \/ Calloc(b) \/ FreeBlock(b) \/ Munmap(b) \/ SetOutput(b) \/ Unwrapped(b)
  PROVE  IInv'
<1>0. UNCHANGED Files /\ UNCHANGED <<input, habits>>
  BY DEF Malloc, Calloc, FreeBlock, Munmap, SetOutput, Unwrapped, Call, Files
<1>1. FilesInv'
  BY <1>0, FilesSame, Zenon DEF IInv
<1>2. \A i \in Idx : mem[b][i] \in RightCells(habits, input) /\ Cell(mem[b][i].byte, Unknown) \in RightCells(habits, input)
  BY Stays, RowOf, CellByte, UnknownRight, Zenon DEF IInv
<1>3. CASE Malloc(b)
  <2>1. [i \in Idx |-> Cell(mem[b][i].byte, Unknown)] \in Rows(habits, input)
    BY <1>2 DEF Rows
  <2>2. mem' = [mem EXCEPT ![b] = [i \in Idx |-> Cell(mem[b][i].byte, Unknown)]]
    BY <1>3 DEF Malloc
  <2> QED
    BY <1>0, <1>1, <2>1, <2>2, WriteHere, Zenon DEF IInv
<1>4. CASE Calloc(b)
  <2>1. [i \in Idx |-> Cell(Nul, IF kind[b] = "fresh" THEN 0 ELSE Unknown)] \in Rows(habits, input)
    BY PlainRight, Zenon DEF Rows
  <2>2. mem' = [mem EXCEPT ![b] = [i \in Idx |-> Cell(Nul, IF kind[b] = "fresh" THEN 0 ELSE Unknown)]]
    BY <1>4, Zenon DEF Calloc
  <2> QED
    BY <1>0, <1>1, <2>1, <2>2, WriteHere, Zenon DEF IInv
<1>5. CASE FreeBlock(b)
  BY <1>0, <1>1, <1>5 DEF FreeBlock, IInv, MemRight
<1>6. \A f \in Rows(habits, input) : mem' = [mem EXCEPT ![b] = f] => IInv'
  BY <1>0, <1>1, WriteHere, Zenon DEF IInv
<1>7. [i \in Idx |-> Plain(Nul)] \in Rows(habits, input) /\ [i \in Idx |-> Plain(Chr)] \in Rows(habits, input) /\ Unlabelled \in Rows(habits, input)
  BY PlainRight, Zenon DEF Rows, Unlabelled
<1> QED
  BY <1>3, <1>4, <1>5, <1>6, <1>7, Zenon DEF Munmap, SetOutput, Unwrapped, Write

LEMMA CopyRight ==
  ASSUME IInv, NEW d \in Blocks, NEW s \in Blocks, NEW at \in Nat, NEW n \in Int
  PROVE  dfsan_memcpy(d, at, s, n) \in Rows(habits, input)
<1>1. ASSUME NEW i \in Idx, i >= at, i < at + n
      PROVE  mem[s][i - at] \in RightCells(habits, input)
  <2>1. i - at \in Idx
    BY <1>1, SizeAssumption DEF Idx
  <2> QED
    BY <2>1, Stays, RowOf DEF IInv
<1> QED
  BY <1>1, Stays, RowOf, Zenon DEF IInv, dfsan_memcpy, Rows

LEMMA StringsRight ==
  ASSUME IInv, NEW d \in Blocks, NEW s \in Blocks,
         Strcpy(d, s) \/ Strcat(d, s) \/ Strdup(d, s) \/ \E n \in 1 .. L : Memcpy(d, s, n) \/ Strncpy(d, s, n) \/ Realloc(s, d, n)
  PROVE  IInv'
<1>0. UNCHANGED Files /\ UNCHANGED <<input, habits>>
  BY DEF Strcpy, Strcat, Strdup, Memcpy, Strncpy, Realloc, Call, Files
<1>1. FilesInv'
  BY <1>0, FilesSame DEF IInv
<1>2. \A f \in Rows(habits, input) : mem' = [mem EXCEPT ![d] = f] => IInv'
  BY <1>0, <1>1, WriteHere, Zenon DEF IInv
<1>3. \A i \in Idx : mem[s][i] \in RightCells(habits, input) /\ mem[d][i] \in RightCells(habits, input) /\ Cell(mem[d][i].byte, Unknown) \in RightCells(habits, input)
  BY Stays, RowOf, CellByte, UnknownRight, Zenon DEF IInv
<1>4. \A b \in Blocks : Strlen(b) \subseteq Nat
  BY SizeAssumption DEF Strlen, Idx
<1>5. \A at \in Nat, n \in Int : dfsan_memcpy(d, at, s, n) \in Rows(habits, input)
  BY CopyRight
<1>6. CASE Strcpy(d, s)
  <2>1. PICK len \in Strlen(s) : mem' = [mem EXCEPT ![d] = dfsan_memcpy(d, 0, s, len + 1)]
    BY <1>6, Zenon DEF Strcpy, Write
  <2>2. len + 1 \in Int
    BY <1>4, <2>1
  <2> QED
    BY <1>2, <1>5, <2>1, <2>2, Zenon
<1>7. CASE Strcat(d, s)
  <2>1. PICK at \in Strlen(d), len \in Strlen(s) : mem' = [mem EXCEPT ![d] = dfsan_memcpy(d, at, s, len + 1)]
    BY <1>7, Zenon DEF Strcat, Write
  <2>2. at \in Nat /\ len + 1 \in Int
    BY <1>4, <2>1
  <2> QED
    BY <1>2, <1>5, <2>1, <2>2, Zenon
<1>8. CASE Strdup(d, s)
  <2>1. PICK len \in Strlen(s) :
          mem' = [mem EXCEPT ![d] = [i \in Idx |-> IF i <= len THEN mem[s][i] ELSE Cell(mem[d][i].byte, Unknown)]]
    BY <1>8, Zenon DEF Strdup
  <2>2. [i \in Idx |-> IF i <= len THEN mem[s][i] ELSE Cell(mem[d][i].byte, Unknown)] \in Rows(habits, input)
    BY <1>3, Zenon DEF Rows
  <2> QED
    BY <1>2, <2>1, <2>2, Zenon
<1>9. ASSUME NEW n \in 1 .. L, Memcpy(d, s, n)
      PROVE  IInv'
  <2>1. 0 \in Nat /\ n \in Int
    BY <1>9
  <2>2. dfsan_memcpy(d, 0, s, n) \in Rows(habits, input)
    BY <1>5, <2>1
  <2> QED
    BY <1>2, <1>9, <2>2, Zenon DEF Memcpy, Write
<1>10. ASSUME NEW n \in 1 .. L, Strncpy(d, s, n)
       PROVE  IInv'
  <2>1. PICK len \in Strlen(s) :
          mem' = [mem EXCEPT ![d] = IF len < n THEN Padded(d, s, len, n) ELSE dfsan_memcpy(d, 0, s, n)]
    BY <1>10, Zenon DEF Strncpy, Write
  <2>2. ASSUME NEW i \in Idx
        PROVE  Padded(d, s, len, n)[i] \in RightCells(habits, input)
    <3>1. i \in Int /\ len \in Int /\ n \in Int
      BY <1>4, <2>1, SizeAssumption DEF Idx
    <3>2. mem[s][i] \in RightCells(habits, input) /\ mem[d][i] \in RightCells(habits, input) /\ Plain(Nul) \in RightCells(habits, input)
      BY <1>3, PlainRight
    <3> QED
      BY <3>1, <3>2 DEF Padded
  <2>3. Padded(d, s, len, n) \in Rows(habits, input)
    BY <2>2, Zenon DEF Padded, Rows
  <2>4. 0 \in Nat /\ n \in Int
    BY <1>10
  <2>5. dfsan_memcpy(d, 0, s, n) \in Rows(habits, input)
    BY <1>5, <2>4, Zenon
  <2> QED
    BY <1>2, <2>1, <2>3, <2>5, Zenon
<1>11. ASSUME NEW n \in 1 .. L, Realloc(s, d, n)
       PROVE  IInv'
  <2>1. mem' = [mem EXCEPT ![d] = [i \in Idx |-> IF i < n THEN mem[s][i] ELSE Cell(mem[d][i].byte, Unknown)]]
    BY <1>11, Zenon DEF Realloc
  <2>2. [i \in Idx |-> IF i < n THEN mem[s][i] ELSE Cell(mem[d][i].byte, Unknown)] \in Rows(habits, input)
    BY <1>3, Zenon DEF Rows
  <2> QED
    BY <1>2, <2>1, <2>2
<1> QED
  BY <1>6, <1>7, <1>8, <1>9, <1>10, <1>11, Zenon

LEMMA BlockRight ==
  ASSUME IInv, NEW b \in Blocks
  PROVE  /\ \A to, from \in Idx, n \in 1 .. L : Memmove(b, to, from, n) => IInv'
         /\ \A s \in Blocks, i \in Idx, n \in 1 .. L : Memset(b, n, mem[s][i]) => IInv'
<1>1. ASSUME NEW to \in Idx, NEW from \in Idx, NEW n \in 1 .. L, Memmove(b, to, from, n)
      PROVE  IInv'
  <2>0. UNCHANGED Files /\ UNCHANGED <<input, habits>>
    BY <1>1 DEF Memmove, Call, Files
  <2>1. FilesInv'
    BY <2>0, FilesSame, Zenon DEF IInv
  <2>2. ASSUME NEW i \in Idx, i >= to, i < to + n
        PROVE  mem[b][i - to + from] \in RightCells(habits, input)
    <3>1. i - to + from \in Idx
      BY <1>1, <2>2, SizeAssumption DEF Idx, Memmove
    <3> QED
      BY <3>1, Stays, RowOf, Zenon DEF IInv
  <2>3. Moved(b, to, from, n) \in Rows(habits, input)
    BY <2>2, Stays, RowOf DEF IInv, Moved, Rows
  <2> QED
    BY <1>1, <2>0, <2>1, <2>3, WriteHere, Zenon DEF IInv, Memmove, Write
<1>2. ASSUME NEW s \in Blocks, NEW i \in Idx, NEW n \in 1 .. L, Memset(b, n, mem[s][i])
      PROVE  IInv'
  <2>0. UNCHANGED Files /\ UNCHANGED <<input, habits>>
    BY <1>2 DEF Memset, Call, Files
  <2>1. FilesInv'
    BY <2>0, FilesSame, Zenon DEF IInv
  <2>2. [j \in Idx |-> IF j < n THEN mem[s][i] ELSE mem[b][j]] \in Rows(habits, input)
    BY Stays, RowOf DEF IInv, Rows
  <2> QED
    BY <1>2, <2>0, <2>1, <2>2, WriteHere, Zenon DEF IInv, Memset, Write
<1> QED
  BY <1>1, <1>2

-----------------------------------------------------------------------------
LEMMA InitIInv == Init => IInv
<1> SUFFICES ASSUME Init PROVE IInv
  OBVIOUS
<1>1. 0 \in Fds /\ Closed \in [path : Paths \cup {"none"}, pos : Nat] /\ Closed.path = "none"
  BY SizeAssumption DEF Fds, Closed
<1>2. MemRight
  <2>1. PICK k \in {1, L - 1} :
          mem = [b \in Blocks |-> [i \in Idx |-> Plain(IF kind[b] = "heap" /\ i < k THEN Chr ELSE Nul)]]
    BY DEF Init
  <2>2. Plain(Chr) \in RightCells(habits, input) /\ Plain(Nul) \in RightCells(habits, input)
    BY PlainRight, Zenon
  <2> QED
    BY <2>1, <2>2, Zenon DEF MemRight, Rows
<1>3. TaintedType /\ UtType /\ UtmpInv
  BY <1>1 DEF Init, TaintedType, UtType, UtmpInv, Paths
<1>4. PICK p \in Paths :
        /\ desc = [fd \in Fds |-> IF fd = 0 THEN [path |-> p, pos |-> 0] ELSE Closed]
        /\ habits = IF p = "input" THEN {} ELSE {"stdin"}
  BY DEF Init
<1>5. DescType
  BY <1>1, <1>4, Zenon DEF DescType
<1>6. tainted.fd = 0
  BY DEF Init
<1>7. \A fd \in Fds : OnInput(fd) <=> (fd = 0 /\ p = "input")
  BY <1>1, <1>4, Zenon DEF OnInput
<1>8. desc[0].path = p
  BY <1>1, <1>4, Zenon
<1>9. FollowInv
  BY <1>4, <1>6, <1>7, <1>8 DEF FollowInv, InputOpen, Paths
<1> QED
  BY <1>2, <1>3, <1>5, <1>9 DEF IInv, FilesInv

LEMMA NextIInv == IInv /\ [Next]_vars => IInv'
<1> SUFFICES ASSUME IInv, [Next]_vars PROVE IInv'
  OBVIOUS
<1>1. CASE UNCHANGED vars
  BY <1>1, FilesSame DEF IInv, vars, Files, MemRight
<1>2. CASE FileCalls
  <2>0. mem' = mem /\ input' = input
    BY <1>2, Zenon DEF FileCalls, Open, Fopen, Opened, OpenFails, Utmpxname, Freopen, Close, Fclose, Dup2, Lseek, Setutxent, Endutxent, Call
  <2>1. MemRight'
    <3>1. \A h : Habit(h) => Sticky(habits) \subseteq habits'
      BY DEF Habit, Sticky
    <3>2. \A path, fd : Open(path, fd) \/ Fopen(path, fd) \/ OpenFails(path) => Sticky(habits) \subseteq habits'
      BY <3>1, Zenon DEF Open, Fopen, OpenFails
    <3>3. \A fd, path, ok : Freopen(fd, path, ok) \/ Close(fd) \/ Fclose(fd, ok) \/ Dup2(fd, path) => Sticky(habits) \subseteq habits'
      BY <3>1, Zenon DEF Freopen, Close, Fclose, Dup2
    <3>4. \A path, fd, off : Utmpxname(path) \/ Setutxent \/ Endutxent \/ Lseek(fd, off) => Sticky(habits) \subseteq habits'
      BY DEF Utmpxname, Setutxent, Endutxent, Lseek, Mislabels, Sticky
    <3>5. Sticky(habits) \subseteq habits'
      BY <1>2, <3>2, <3>3, <3>4, Zenon DEF FileCalls
    <3> QED
      BY <2>0, <3>5, KeepRight DEF IInv
  <2>2. FilesInv
    BY DEF IInv
  <2>3. ASSUME NEW path \in Paths, NEW fd \in Fds, Open(path, fd) \/ Fopen(path, fd)
        PROVE  FilesInv'
    BY <2>2, <2>3, OpenFiles
  <2>4. ASSUME NEW path \in Paths, OpenFails(path) \/ Utmpxname(path)
        PROVE  FilesInv'
    BY <2>2, <2>4, OpenFailsFiles, UtmpxnameFiles
  <2>5. ASSUME NEW fd \in Fds, NEW path \in Paths, NEW ok \in BOOLEAN, Freopen(fd, path, ok)
        PROVE  FilesInv'
    BY <2>2, <2>5, LostFiles
  <2>6. ASSUME NEW fd \in Fds, Close(fd) \/ \E ok \in BOOLEAN : Fclose(fd, ok)
        PROVE  FilesInv'
    BY <2>2, <2>6, CloseFiles
  <2>7. ASSUME NEW fd \in Fds, NEW to \in Fds, Dup2(fd, to)
        PROVE  FilesInv'
    BY <2>2, <2>7, LostFiles
  <2>8. ASSUME NEW fd \in Fds, NEW off \in 0 .. N, Lseek(fd, off)
        PROVE  FilesInv'
    <3>1. off \in Nat
      BY SizeAssumption
    <3> QED
      BY <2>2, <2>8, <3>1, PositionMoved, Zenon DEF Lseek, SameHabits
  <2>9. Setutxent \/ Endutxent => FilesInv'
    <3>1. 0 \in Nat
      OBVIOUS
    <3> QED
      BY <2>2, <3>1, SetutxentFiles, UnfollowedFiles, Zenon DEF Endutxent
  <2>10. FilesInv'
    BY <1>2, <2>3, <2>4, <2>5, <2>6, <2>7, <2>8, <2>9, Zenon DEF FileCalls
  <2> QED
    BY <2>1, <2>10 DEF IInv
<1>3. CASE ReadCalls
  <2>1. PICK b \in Blocks :
          \/ \E fd \in Fds : Fread(fd, b) \/ Getline(fd, b) \/ Fgets(fd, b) \/ Fstat(fd, b)
          \/ \E fd \in Fds, n \in 1 .. L : Read(fd, b, n) \/ \E o \in 0 .. N : Pread(fd, b, n, o)
          \/ \E fd \in Fds, i \in Idx : Fgetc(fd, b, i)
          \/ \E fd \in Fds \cup {-1}, o \in 0 .. N : Mmap(fd, b, o)
          \/ \E path \in Paths : Stat(path, b)
          \/ \E i \in Idx : Getutxent(b, i) \/ \E p \in Offsets : Getutxid(b, i, p)
    BY <1>3, Zenon DEF ReadCalls
  <2> QED
    BY <2>1, ReadsRight, FgetsRight, OtherReadsRight, MmapRight, StatRight, GetutxentRight, GetutxidRight, Zenon
<1>4. CASE MemoryCalls
  BY <1>4, HeapRight, BlockRight, StringsRight, Zenon DEF MemoryCalls
<1>5. CASE Comparisons
  <2>1. UNCHANGED <<mem, Files>> /\ UNCHANGED <<input, habits>>
    BY <1>5 DEF Comparisons, Memcmp, Strcmp, Strncmp, Compared, Call, Files
  <2> QED
    BY <2>1, FilesSame, Zenon DEF IInv, MemRight
<1> QED
  BY <1>1, <1>2, <1>3, <1>4, <1>5 DEF Next

LEMMA IInvHolds == Spec => []IInv
  BY InitIInv, NextIInv, PTL DEF Spec

-----------------------------------------------------------------------------
(* taint_set_file, taint_close_file: for any number of descriptors and any *)
(* sequence of calls, tainted.fd is the descriptor of the input and of no  *)
(* other file, until the program does what the runtime does not follow.    *)
THEOREM FollowedHolds == Spec => []Followed
<1>1. IInv => Followed
  <2> SUFFICES ASSUME IInv, habits \cap {"lost", "stdin"} = {} PROVE {fd \in Fds : OnInput(fd)} = {tainted.fd} \ {-1}
    BY DEF Followed
  <2>1. \A fd \in Fds : OnInput(fd) <=> tainted.fd = fd
    BY DEF IInv, FilesInv, FollowInv
  <2>2. tainted.fd \in Fds \cup {-1} /\ -1 \notin Fds
    BY DEF IInv, FilesInv, TaintedType, Fds
  <2> QED
    BY <2>1, <2>2
<1> QED
  BY <1>1, IInvHolds, PTL

(* is_taint_file and set_utmp_offset: the utmpx wrappers know the file and *)
(* the position at which libc reads, for records at any offset, and        *)
(* utmpxname and setutxent set them right again after what the runtime     *)
(* does not see: a stat of another file, and endutxent, getutxid and       *)
(* getutxline, which have no wrapper.                                      *)
THEOREM UtmpFollowedHolds == Spec => []UtmpFollowed
<1>1. IInv => UtmpFollowed
  BY DEF IInv, FilesInv, UtmpInv, UtmpFollowed
<1> QED
  BY <1>1, IInvHolds, PTL

(* Every wrapper that reads, maps, copies or clears memory, on an input of *)
(* any size: a byte has its own label or one that the last call left, but  *)
(* for the labels on anonymous mappings, on zero bytes from fgets and on   *)
(* bytes of a file on the descriptor in tainted.fd, which are wrong only   *)
(* if such a call was made, until the runtime loses the input or labels a  *)
(* record at the wrong offset.                                             *)
THEOREM LabelsFollowBytesHolds == Spec => []LabelsFollowBytes
<1>1. IInv => LabelsFollowBytes
  <2> SUFFICES ASSUME IInv, habits \cap {"lost", "record"} = {}, NEW b \in Blocks, NEW i \in Idx
               PROVE  RightLabel(mem[b][i])
    BY DEF LabelsFollowBytes
  <2>1. mem[b][i] \in RightCells(habits, input)
    BY Stays, RowOf DEF IInv
  <2> QED
    BY <2>1 DEF RightCells, RightLabel
<1> QED
  BY <1>1, IInvHolds, PTL

-----------------------------------------------------------------------------
(* Comparisons. *)

(* The induction of this section is over the bytes of two strings: it      *)
(* takes the first one that differs.  The lemmas have the principle as a   *)
(* hypothesis, and Least, below, proves it.                                *)
LeastElement == \A T \in SUBSET Nat : T # {} => \E m \in T : \A k \in T : m <= k

(* Bytes up to the first zero of one argument, or n of them, decide. *)
LEMMA Decides ==
  ASSUME LeastElement, NEW a, NEW b, NEW in, NEW n \in Nat, NEW size \in 1 .. n,
         size = n \/ At(a, size - 1, in) = 0 \/ At(b, size - 1, in) = 0,
         \A j \in 0 .. size - 2 : At(a, j, in) # 0 \/ At(b, j, in) # 0
  PROVE  SameTo(a, b, size, in) <=> SameString(a, b, n, in)
<1>1. ASSUME SameTo(a, b, size, in), NEW i \in 0 .. n - 1, \A j \in 0 .. i - 1 : At(a, j, in) # 0
      PROVE  At(a, i, in) = At(b, i, in)
  <2>1. \A k \in 0 .. size - 1 : At(a, k, in) = At(b, k, in)
    BY <1>1, Zenon DEF SameTo
  <2>2. size - 1 \in 0 .. size - 1
    OBVIOUS
  <2>3. i < size
    <3> SUFFICES ASSUME i >= size PROVE FALSE
      OBVIOUS
    <3>1. size - 1 \in 0 .. i - 1 /\ size # n
      OBVIOUS
    <3>2. At(a, size - 1, in) # 0 /\ At(b, size - 1, in) # 0
      BY <1>1, <2>1, <2>2, <3>1, Zenon
    <3> QED
      BY <3>1, <3>2, Zenon
  <2> QED
    BY <2>1, <2>3
<1>2. ASSUME SameString(a, b, n, in), ~ SameTo(a, b, size, in)
      PROVE  FALSE
  <2> DEFINE T == {i \in 0 .. size - 1 : At(a, i, in) # At(b, i, in)}
  <2>1. T \in SUBSET Nat /\ T # {}
    BY <1>2 DEF SameTo
  <2>2. PICK m \in T : \A k \in T : m <= k
    BY <2>1, Zenon DEF LeastElement
  <2>3. m \in 0 .. n - 1 /\ At(a, m, in) # At(b, m, in)
    OBVIOUS
  <2>4. ASSUME NEW j \in 0 .. m - 1 PROVE At(a, j, in) # 0
    <3>1. j \in 0 .. size - 2 /\ j \notin T
      BY <2>2
    <3> QED
      BY <3>1
  <2> QED
    BY <1>2, <2>3, <2>4, Zenon DEF SameString
<1> QED
  BY <1>1, <1>2, Zenon DEF SameString

(* A byte that is no input byte is the same on every input; a label is 0   *)
(* exactly for those.                                                      *)
LEMMA FixedByte ==
  ASSUME MemRight, NEW b \in Blocks, NEW i \in Idx, mem[b][i].byte < 0, NEW in
  PROVE  At(b, i, in) = Byte(b, i)
<1>1. mem[b][i].byte \in Int
  BY CellByte, Zenon
<1>2. mem[b][i].byte \notin Offsets
  BY <1>1 DEF Offsets
<1> QED
  BY <1>2, Zenon DEF At, Byte, Value

LEMMA LabelZero ==
  ASSUME MemRight, NEW b \in Blocks, 0 \in Idx, mem[b][0].label = LabelOf(mem[b][0].byte)
  PROVE  /\ dfsan_get_label(b) = {mem[b][0].label}
         /\ (mem[b][0].label = 0 <=> mem[b][0].byte < 0)
<1>1. mem[b][0].byte \in Int
  BY CellByte, Zenon
<1> QED
  BY <1>1 DEF dfsan_get_label, LabelOf, CONST_OFFSET, Unknown

(* A string without input bytes has its length on every input. *)
LEMMA FixedString ==
  ASSUME MemRight, NEW b \in Blocks, InputFree(b), NEW len \in Strlen(b), NEW in
  PROVE  /\ len \in Idx /\ len \in Nat /\ len < L /\ mem[b][0].byte < 0
         /\ At(b, len, in) = 0
         /\ \A j \in 0 .. len - 1 : At(b, j, in) # 0
<1>1. len \in Idx /\ len \in Nat /\ len < L /\ Byte(b, len) = 0 /\ \A j \in 0 .. len - 1 : Byte(b, j) # 0
  BY SizeAssumption DEF Strlen, Idx
<1>2. \A i \in 0 .. len : mem[b][i].byte < 0
  BY Zenon DEF InputFree
<1>3. \A i \in 0 .. len : i \in Idx
  BY <1>1, SizeAssumption DEF Idx
<1>4. \A i \in 0 .. len : At(b, i, in) = Byte(b, i)
  BY <1>2, <1>3, FixedByte, Zenon
<1>5. len \in 0 .. len /\ 0 \in 0 .. len
  BY <1>1
<1>6. \A j \in 0 .. len - 1 : j \in 0 .. len
  BY <1>1
<1> QED
  BY <1>1, <1>2, <1>4, <1>5, <1>6, Zenon

(* What a comparison leaves in cmp. *)
Fixed(a, b) ==
  /\ \A c \in {a, b} : mem[c][0].label = LabelOf(mem[c][0].byte)
  /\ \E c \in {a, b} : InputFree(c)
  /\ \A c \in {a, b} : mem[c][0].byte < 0 => InputFree(c)

LEMMA StrcmpDecides ==
  ASSUME LeastElement, MemRight, NEW a \in Blocks, NEW b \in Blocks, Strlen(a) # {}, NEW size \in StrcmpSize(a, b), Fixed(a, b), NEW in
  PROVE  size \in Nat /\ (SameTo(a, b, size, in) <=> SameString(a, b, L, in))
<1>0. 0 \in Idx /\ L \in Nat
  BY ZeroIdx, Zenon
<1>1. dfsan_get_label(a) = {mem[a][0].label} /\ (mem[a][0].label = 0 <=> mem[a][0].byte < 0)
  BY <1>0, LabelZero, Zenon DEF Fixed
<1>2. CASE mem[a][0].label = 0
  <2>1. PICK len \in Strlen(a) : size = len + 1
    BY <1>1, <1>2, Zenon DEF StrcmpSize
  <2>2. InputFree(a)
    BY <1>1, <1>2, Zenon DEF Fixed
  <2>3. len \in Nat /\ len < L /\ At(a, len, in) = 0 /\ \A j \in 0 .. len - 1 : At(a, j, in) # 0
    BY <2>2, FixedString, Zenon
  <2> QED
    BY <1>0, <2>1, <2>3, Decides
<1>3. CASE mem[a][0].label # 0
  <2>1. PICK len \in Strlen(b) : size = len + 1
    BY <1>1, <1>3, Zenon DEF StrcmpSize
  <2>2. ~ InputFree(a)
    BY <1>1, <1>3, FixedString, Zenon
  <2>3. InputFree(b)
    BY <2>2, Zenon DEF Fixed
  <2>4. len \in Nat /\ len < L /\ At(b, len, in) = 0 /\ \A j \in 0 .. len - 1 : At(b, j, in) # 0
    BY <2>3, FixedString, Zenon
  <2> QED
    BY <1>0, <2>1, <2>4, Decides
<1> QED
  BY <1>2, <1>3, Zenon

(* Shorter cuts n down to the string with its zero byte, if that is no     *)
(* input.                                                                  *)
LEMMA ShorterSize ==
  ASSUME MemRight, NEW b \in Blocks, mem[b][0].label = LabelOf(mem[b][0].byte),
         mem[b][0].byte < 0 => InputFree(b),
         NEW n \in Nat \ {0}, NEW m \in Shorter(b, n), NEW in
  PROVE  /\ m \in 1 .. n
         /\ m = n \/ At(b, m - 1, in) = 0
         /\ InputFree(b) => \A j \in 0 .. m - 2 : At(b, j, in) # 0
<1>0. 0 \in Idx
  BY ZeroIdx, Zenon
<1>1. dfsan_get_label(b) = {mem[b][0].label} /\ (mem[b][0].label = 0 <=> mem[b][0].byte < 0)
  BY <1>0, LabelZero, Zenon
<1>2. PICK len \in Strlen(b) : m = IF mem[b][0].label = 0 /\ len < n - 1 THEN len + 1 ELSE n
  <2>1. PICK l \in dfsan_get_label(b), len \in Strlen(b) : m = IF l = 0 /\ len < n - 1 THEN len + 1 ELSE n
    BY DEF Shorter
  <2>2. l = mem[b][0].label
    BY <1>1, Zenon
  <2>3. m = IF mem[b][0].label = 0 /\ len < n - 1 THEN len + 1 ELSE n
    BY <2>1, <2>2, Zenon
  <2> QED
    BY <2>3, Zenon
<1>3. len \in Nat
  BY SizeAssumption DEF Strlen, Idx
<1>4. InputFree(b) => /\ mem[b][0].label = 0 /\ At(b, len, in) = 0
                      /\ \A j \in 0 .. len - 1 : At(b, j, in) # 0
  BY <1>1, FixedString, Zenon
<1>5. mem[b][0].label = 0 => InputFree(b)
  BY <1>1, Zenon
<1> HIDE DEF At, InputFree
<1>6. CASE mem[b][0].label = 0 /\ len < n - 1
  <2>1. m = len + 1
    BY <1>2, <1>6, Zenon
  <2>2. m \in 1 .. n /\ m - 1 = len /\ m - 2 = len - 1
    BY <2>1, <1>3, <1>6
  <2> QED
    BY <2>2, <1>4, <1>5, <1>6, Zenon
<1>7. CASE ~ (mem[b][0].label = 0 /\ len < n - 1)
  <2>1. m = n
    BY <1>2, <1>7, Zenon
  <2>2. InputFree(b) => \A j \in 0 .. m - 2 : At(b, j, in) # 0
    BY <2>1, <1>3, <1>4, <1>7
  <2> QED
    BY <2>1, <2>2
<1> QED
  BY <1>6, <1>7, Zenon

LEMMA StrncmpDecides ==
  ASSUME LeastElement, MemRight, NEW a \in Blocks, NEW b \in Blocks, NEW n \in 1 .. L,
         NEW m \in Shorter(a, n), NEW size \in Shorter(b, m), Fixed(a, b), NEW in
  PROVE  size \in Nat /\ (SameTo(a, b, size, in) <=> SameString(a, b, n, in))
<1>1. n \in Nat \ {0}
  OBVIOUS
<1>2. /\ m \in 1 .. n
      /\ m = n \/ At(a, m - 1, in) = 0
      /\ InputFree(a) => \A j \in 0 .. m - 2 : At(a, j, in) # 0
  <2>1. mem[a][0].label = LabelOf(mem[a][0].byte) /\ (mem[a][0].byte < 0 => InputFree(a))
    BY Zenon DEF Fixed
  <2> QED
    BY <1>1, <2>1, ShorterSize, Zenon
<1>3. m \in Nat \ {0}
  BY <1>1, <1>2
<1>4. /\ size \in 1 .. m
      /\ size = m \/ At(b, size - 1, in) = 0
      /\ InputFree(b) => \A j \in 0 .. size - 2 : At(b, j, in) # 0
  <2>1. mem[b][0].label = LabelOf(mem[b][0].byte) /\ (mem[b][0].byte < 0 => InputFree(b))
    BY Zenon DEF Fixed
  <2> QED
    BY <1>3, <2>1, ShorterSize, Zenon
<1>5. InputFree(a) \/ InputFree(b)
  BY Zenon DEF Fixed
<1> HIDE DEF InputFree, At
<1>6. size \in 1 .. n /\ (size = n \/ At(a, size - 1, in) = 0 \/ At(b, size - 1, in) = 0)
  BY <1>1, <1>2, <1>4
<1>7. \A j \in 0 .. size - 2 : j \in 0 .. m - 2
  BY <1>3, <1>4
<1>8. \A j \in 0 .. size - 2 : At(a, j, in) # 0 \/ At(b, j, in) # 0
  BY <1>2, <1>4, <1>5, <1>7, Zenon
<1>9. n \in Nat /\ size \in Nat
  BY <1>1, <1>6
<1> QED
  BY <1>6, <1>8, <1>9, Decides, Zenon

(* Every call but a comparison clears cmp. *)
LEMMA OtherCalls ==
  ASSUME FileCalls \/ ReadCalls \/ MemoryCalls
  PROVE  cmp' = NoCmp
<1>1. FileCalls => Call(NoCmp)
  BY Zenon DEF FileCalls, Open, Fopen, OpenFails, Utmpxname, Freopen, Close, Fclose, Dup2, Lseek, Setutxent, Endutxent
<1>2. ReadCalls => Call(NoCmp)
  <2>1. \A fd, b : Fread(fd, b) \/ Getline(fd, b) \/ Fgets(fd, b) \/ Fstat(fd, b) => Call(NoCmp)
    BY Zenon DEF Fread, Getline, Fgets, Fstat
  <2>2. \A fd, b, n, o : Read(fd, b, n) \/ Pread(fd, b, n, o) \/ Fgetc(fd, b, n) => Call(NoCmp)
    BY Zenon DEF Read, Pread, Fgetc
  <2>3. \A path, b, i, p : Stat(path, b) \/ Getutxent(b, i) \/ Getutxid(b, i, p) => Call(NoCmp)
    BY Zenon DEF Stat, Getutxent, Getutxid
  <2>4. \A fd, b, o : Mmap(fd, b, o) => Call(NoCmp)
    BY Zenon DEF Mmap
  <2> QED
    BY <2>1, <2>2, <2>3, <2>4, Zenon DEF ReadCalls
<1>3. MemoryCalls => Call(NoCmp)
  BY Zenon DEF MemoryCalls, Malloc, Calloc, FreeBlock, Munmap, SetOutput, Unwrapped, Memmove, Memset, Strcpy, Strcat,
     Strdup, Memcpy, Strncpy, Realloc
<1> QED
  BY <1>1, <1>2, <1>3, Zenon DEF Call

(* What a comparison means depends on memory and the input only. *)
LEMMA SameMeaning ==
  ASSUME mem' = mem, input' = input
  PROVE  /\ \A a, b, n, in : (SameTo(a, b, n, in)' <=> SameTo(a, b, n, in))
         /\ \A a, b, n, in : (SameString(a, b, n, in)' <=> SameString(a, b, n, in))
         /\ \A b : (InputFree(b)' <=> InputFree(b))
<1>1. \A a, b, n, in : (SameTo(a, b, n, in)' <=> SameTo(a, b, n, in))
  BY Zenon DEF SameTo, At
<1>2. \A a, b, n, in : (SameString(a, b, n, in)' <=> SameString(a, b, n, in))
  BY DEF SameString, At
<1>3. \A b : (InputFree(b)' <=> InputFree(b))
  BY Zenon DEF InputFree, Strlen, Byte
<1> QED
  BY <1>1, <1>2, <1>3, Zenon

(* dfsan_union keeps the low bits of the number. *)
LEMMA NarrowFacts ==
  ASSUME NEW len \in Nat
  PROVE  /\ Narrow(len) \in 0 .. len
         /\ len < SizeLimit => Narrow(len) = len
<1>1. SizeLimit \in Nat /\ SizeLimit > 0
  BY SizeAssumption
<1>2. len % SizeLimit \in 0 .. SizeLimit - 1
  BY <1>1
<1>3. len % SizeLimit <= len
  BY <1>1
<1>4. len < SizeLimit => len % SizeLimit = len
  BY <1>1
<1> QED
  BY <1>1, <1>2, <1>3, <1>4 DEF Narrow

(* A comparison that len bytes decide leaves a cmp that CompareDecides     *)
(* accepts.                                                                *)
LEMMA Answers ==
  ASSUME mem' = mem, input' = input, NEW name, NEW a, NEW b, NEW n, NEW len, NEW size, size = Narrow(len),
         cmp' = [name |-> name, s1 |-> a, s2 |-> b, n |-> n, len |-> len, size |-> size],
         Fixed(a, b) => \A in : len \in Nat /\ (SameTo(a, b, len, in) <=> SameString(a, b, n, in))
  PROVE  CompareDecides'
<1>1. cmp'.s1 = a /\ cmp'.s2 = b /\ cmp'.n = n /\ cmp'.len = len /\ cmp'.size = size
  BY Zenon
<1>2. ASSUME Fixed(a, b), NEW in
      PROVE  /\ SameString(a, b, n, in) => SameTo(a, b, size, in)
             /\ len < SizeLimit /\ SameTo(a, b, size, in) => SameString(a, b, n, in)
  <2>1. len \in Nat /\ (SameTo(a, b, len, in) <=> SameString(a, b, n, in))
    BY <1>2, Zenon
  <2>2. size \in 0 .. len /\ (len < SizeLimit => size = len)
    BY <2>1, NarrowFacts, Zenon
  <2>3. \A i \in 0 .. size - 1 : i \in 0 .. len - 1
    BY <2>1, <2>2
  <2>4. SameTo(a, b, len, in) => SameTo(a, b, size, in)
    BY <2>3, Zenon DEF SameTo
  <2> QED
    BY <2>1, <2>2, <2>4, Zenon
<1> SUFFICES ASSUME \A c \in {a, b}, i \in Idx : mem'[c][i].label = LabelOf(mem'[c][i].byte),
                    \E c \in {a, b} : InputFree(c)',
                    \A c \in {a, b} : mem'[c][0].byte < 0 => InputFree(c)',
                    NEW in
             PROVE  /\ SameString(a, b, n, in)' => SameTo(a, b, size, in)'
                    /\ len < SizeLimit /\ SameTo(a, b, size, in)' => SameString(a, b, n, in)'
  BY <1>1, Zenon DEF CompareDecides
<1>3. /\ SameTo(a, b, size, in)' <=> SameTo(a, b, size, in)
      /\ SameString(a, b, n, in)' <=> SameString(a, b, n, in)
  BY SameMeaning, Zenon
<1>4. Fixed(a, b)
  BY ZeroIdx, SameMeaning, Zenon DEF Fixed
<1> QED
  BY <1>2, <1>3, <1>4, Zenon

LEMMA InitDecides == Init => CompareDecides
  BY DEF Init, CompareDecides, NoCmp

LEMMA NextDecides == LeastElement /\ IInv /\ CompareDecides /\ [Next]_vars => CompareDecides'
<1> SUFFICES ASSUME LeastElement, IInv, CompareDecides, [Next]_vars PROVE CompareDecides'
  BY Zenon
<1>1. CASE UNCHANGED vars
  BY <1>1, SameMeaning, Zenon DEF vars, CompareDecides
<1>2. CASE FileCalls \/ ReadCalls \/ MemoryCalls
  <2>1. cmp'.name = "none"
    BY <1>2, OtherCalls DEF NoCmp
  <2> QED
    BY <2>1, Zenon DEF CompareDecides
<1>3. CASE Comparisons
  <2>1. PICK a \in Blocks, b \in Blocks : Strcmp(a, b) \/ \E n \in 1 .. L : Memcmp(a, b, n) \/ Strncmp(a, b, n)
    BY <1>3, Zenon DEF Comparisons
  <2>2. mem' = mem /\ input' = input
    BY <2>1, Zenon DEF Strcmp, Strncmp, Memcmp, Compared, Call
  <2>3. MemRight
    BY Zenon DEF IInv
  <2>5. CASE Strcmp(a, b)
    <3>1. PICK size \in StrcmpSize(a, b) :
            cmp' = [name |-> "strcmp", s1 |-> a, s2 |-> b, n |-> L, len |-> size, size |-> Narrow(size)]
      BY <2>5, Zenon DEF Strcmp, Compared, Call
    <3>2. Strlen(a) # {}
      BY <2>5, Zenon DEF Strcmp
    <3>3. Fixed(a, b) => \A in : size \in Nat /\ (SameTo(a, b, size, in) <=> SameString(a, b, L, in))
      BY <2>3, <3>2, StrcmpDecides, Zenon
    <3> QED
      BY <2>2, <3>1, <3>3, Answers, Zenon
  <2>6. CASE \E n \in 1 .. L : Strncmp(a, b, n)
    <3>0. PICK n \in 1 .. L : Strncmp(a, b, n)
      BY <2>6, Zenon
    <3>1. PICK m \in Shorter(a, n) : \E size \in Shorter(b, m) :
            cmp' = [name |-> "strncmp", s1 |-> a, s2 |-> b, n |-> n, len |-> size, size |-> Narrow(size)]
      BY <3>0, Zenon DEF Strncmp, Compared, Call
    <3>2. PICK size \in Shorter(b, m) :
            cmp' = [name |-> "strncmp", s1 |-> a, s2 |-> b, n |-> n, len |-> size, size |-> Narrow(size)]
      BY <3>1, Zenon
    <3>3. Fixed(a, b) => \A in : size \in Nat /\ (SameTo(a, b, size, in) <=> SameString(a, b, n, in))
      BY <2>3, StrncmpDecides, Zenon
    <3> QED
      BY <2>2, <3>2, <3>3, Answers, Zenon
  <2>7. CASE \E n \in 1 .. L : Memcmp(a, b, n)
    <3>1. cmp'.name = "memcmp"
      BY <2>7 DEF Memcmp, Compared, Call
    <3> QED
      BY <3>1, Zenon DEF CompareDecides
  <2> QED
    BY <2>1, <2>5, <2>6, <2>7, Zenon
<1> QED
  BY <1>1, <1>2, <1>3, Zenon DEF Next

INSTANCE WellFoundedInduction

(* A nonempty set of natural numbers has a least element. *)
LEMMA Least == LeastElement
<1> SUFFICES ASSUME NEW T \in SUBSET Nat, T # {} PROVE \E m \in T : \A k \in T : m <= k
  BY DEF LeastElement
<1> DEFINE R == OpToRel(<, Nat)
<1>1. IsWellFoundedOn(R, Nat)
  BY NatLessThanWellFounded, Zenon
<1>2. \A k, m \in Nat : <<k, m>> \in R <=> k < m
  BY DEF OpToRel
<1> HIDE DEF R
<1>3. PICK m \in T : \A k \in T : ~ (<<k, m>> \in R)
  BY <1>1, WFMin, Zenon
<1>4. \A k \in T : k \in Nat /\ m \in Nat
  OBVIOUS
<1>5. \A k \in T : ~ (k < m)
  BY <1>2, <1>3, <1>4, Zenon
<1> QED
  BY <1>4, <1>5

(* The wrappers of strcmp and strncmp, for strings, blocks and n of any    *)
(* length: where one argument is a constant and each byte has its own      *)
(* label, the bytes that the label of the result names decide the          *)
(* comparison on every input if dfsan_union could take their number, and   *)
(* are equal on every input on which the strings are if it could not.      *)
THEOREM CompareDecidesHolds == Spec => []CompareDecides
<1> QED
  BY Least, InitDecides, NextDecides, IInvHolds, PTL DEF Spec
=============================================================================
