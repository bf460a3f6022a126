------------------------ MODULE DecomposeMint_proofs ------------------------
(* Proofs about DecomposeMint, for any tree of tasks and any bounds. *)
EXTENDS DecomposeMint, TLAPS

-----------------------------------------------------------------------------
(* Records. *)

\* A slot is a record or the lack of one, never both.
LEMMA SlotIsRecord ==
  /\ \A x \in Slots : x # NoRecord <=> x \in Records
  /\ Records \subseteq Slots /\ NoRecord \in Slots
BY DEF Slots, Records, NoRecord, Statuses

\* What the code changes in a record leaves it a record.
LEMMA RecordChanges ==
  ASSUME NEW r \in Records
  PROVE  /\ \A s \in Statuses : [r EXCEPT !.status = s] \in Records
         /\ [r EXCEPT !.laid = TRUE] \in Records /\ [r EXCEPT !.told = TRUE] \in Records
         /\ [r EXCEPT !.laid = TRUE].mint = r.mint /\ [r EXCEPT !.told = TRUE].mint = r.mint
         /\ r.spent < Attempts => [r EXCEPT !.spent = @ + 1] \in Records
         /\ Claimed(r) \in Records /\ Claimed(r).mint = r.mint
         /\ \A m \in Mints : Committed(r, m) \in Records /\ Committed(r, m).mint = m
         /\ Reset(r) \in Records
         /\ \A q \in Records : Merged(r, q) \in Records
<1> USE MintAssumption
<1>1. Attempts \in 0..Attempts  OBVIOUS
<1>2. \A s \in Statuses : [r EXCEPT !.status = s] \in Records  BY DEF Records
<1>3. [r EXCEPT !.laid = TRUE] \in Records /\ [r EXCEPT !.told = TRUE] \in Records
  BY DEF Records
<1>4. [r EXCEPT !.laid = TRUE].mint = r.mint /\ [r EXCEPT !.told = TRUE].mint = r.mint
  BY DEF Records
<1>5. r.spent < Attempts => [r EXCEPT !.spent = @ + 1] \in Records
  <2> SUFFICES ASSUME r.spent < Attempts PROVE [r EXCEPT !.spent = @ + 1] \in Records
    OBVIOUS
  <2>1. r.spent + 1 \in 0..Attempts  BY DEF Records
  <2> DEFINE n == r.spent + 1
  <2> HIDE DEF n
  <2>2. n \in 0..Attempts => [r EXCEPT !.spent = n] \in Records  BY DEF Records
  <2> QED BY <2>1, <2>2 DEF n
<1>6. Claimed(r) \in Records /\ Claimed(r).mint = r.mint  BY <1>1 DEF Records, Claimed
<1>7. \A m \in Mints : Committed(r, m) \in Records /\ Committed(r, m).mint = m
  <2>1. \A m \in Mints : m \in 0..MaxMints  BY DEF Mints
  <2> QED BY <1>1, <2>1 DEF Records, Committed
<1>8. Reset(r) \in Records  BY DEF Records, Reset, Statuses
<1>9. \A q \in Records : Merged(r, q) \in Records  BY ZenonT(60) DEF Records, Merged
<1> QED BY <1>2, <1>3, <1>4, <1>5, <1>6, <1>7, <1>8, <1>9

\* A record newly written is one.
LEMMA FreshIsRecord ==
  ASSUME NEW m \in 0..MaxMints, NEW s \in 0..Attempts
  PROVE  Fresh(m, s) \in Records
<1>1. 0 \in 0..MaxMints  BY MintAssumption
<1> QED BY <1>1 DEF Fresh, Records, Statuses

-----------------------------------------------------------------------------
(* Frames: what a frame holds, and who may be moving. *)

Moving(t) == pc[t] \notin {"idle", "waiting"}

\* A frame holds a record that is in the store; one frame moves at a time, and
\* the others wait for a child; a mint that is being worked on has its number.
FramesOK ==
  /\ disk[Root] \in Records
  /\ \A t \in Tasks : obj[t] \in Records => disk[t] \in Records
  /\ \A t \in Tasks : pc[t] # "idle" => obj[t] \in Records
  /\ \A t \in Tasks : pc[t] \in {"emit", "mark", "kids"} => obj[t].mint # 0
  /\ \A t \in Tasks : pc[t] \in {"produce", "overflow"} => obj[t].mint = 0
  /\ \A t \in Tasks : pc[t] \in {"loop", "waiting"} =>
       \A k \in KidSet(t) : obj[k] \in Records
  /\ \A t \in Tasks : pc[t] = "waiting" => at[t] <= Len(Kids[t])
  /\ \A t, u \in Tasks : Moving(t) /\ Moving(u) => t = u

\* What the lane holds beside its frames.
LaneOK ==
  /\ \A i \in DOMAIN buffer : obj[buffer[i]] \in Records
  /\ \A t \in totell : disk[t] \in Records /\ disk[t].mint # 0
  /\ \A t \in Tasks : listed[t] \in Records => disk[t] \in Records
  /\ lane # "scan" => totell = {}
  /\ lane = "scan" => \A t \in Tasks : pc[t] \in {"idle", "emit", "mark"}
  /\ lane \in {"idle", "merge"} => \A t \in Tasks : pc[t] = "idle"
  /\ lane \in {"idle", "scan"} => ~worker
  /\ worker => \A i \in DOMAIN queue : queue[i] = Root
  /\ worker => \A t \in Tasks : pc[t] # "idle" => obj[Root] \in Records

Sound == TypeOK /\ FramesOK /\ LaneOK

LEMMA KidsAreTasks ==
  /\ \A t \in Tasks : KidSet(t) \subseteq Tasks \ {Root}
  /\ \A t \in Tasks : \A i \in Nat \ {0} : i <= Len(Kids[t]) =>
       Kids[t][i] \in KidSet(t) /\ Kids[t][i] \in Tasks
BY MintAssumption DEF KidSet

LEMMA InitSound == Init => Sound
<1> USE MintAssumption
<1> SUFFICES ASSUME Init PROVE Sound  OBVIOUS
<1>1. Fresh(0, 0) \in Records
  <2>1. 0 \in 0..MaxMints /\ 0 \in 0..Attempts  OBVIOUS
  <2> QED BY <2>1, FreshIsRecord
<1>2. disk \in [Tasks -> Slots] /\ obj \in [Tasks -> Slots] /\ listed \in [Tasks -> Slots]
  BY <1>1, SlotIsRecord DEF Init, Nothing
<1>3. pc \in [Tasks -> Places] /\ at \in [Tasks -> Nat \ {0}]
  BY DEF Init, AllIdle, AllOne, Places
<1>4. TypeOK
  <2>1. /\ rows \in [Mints -> Nat] /\ calls \in [Tasks -> Nat] /\ 0 \in 0..MaxMints
        /\ goal \in GoalStatuses
    BY DEF Init, GoalStatuses
  <2>2. queue \in Seq(Tasks) /\ buffer \in Seq(Tasks)  BY DEF Init
  <2> QED BY <1>2, <1>3, <2>1, <2>2 DEF Init, TypeOK
<1>5. \A t \in Tasks : obj[t] \notin Records /\ pc[t] = "idle"
  BY SlotIsRecord DEF Init, Nothing, AllIdle
<1>6. disk[Root] \in Records  BY <1>1 DEF Init, Nothing
<1>7. FramesOK  BY <1>5, <1>6 DEF FramesOK, Moving
<1>8. LaneOK  BY <1>5, SlotIsRecord DEF Init, LaneOK, Nothing
<1> QED BY <1>4, <1>7, <1>8 DEF Sound

-----------------------------------------------------------------------------
(* Steps that move one frame to a place other than its loop, and may save it. *)

\* The frame of t goes to `place` with its object r, saved or not.
Advances(t, r, place) ==
  /\ obj' = [obj EXCEPT ![t] = r] /\ pc' = [pc EXCEPT ![t] = place]
  /\ disk' = disk \/ disk' = [disk EXCEPT ![t] = r]
  /\ UNCHANGED <<at, listed, queue, lane, worker, buffer, totell>>

LEMMA AdvanceIsSound ==
  ASSUME Sound, NEW t \in Tasks, NEW r \in Records, NEW place \in Places,
         Moving(t), Advances(t, r, place),
         place \notin {"loop", "waiting"},
         place \in {"emit", "mark", "kids"} => r.mint # 0,
         place \in {"produce", "overflow"} => r.mint = 0,
         lane = "scan" => place \in {"idle", "emit", "mark"} /\ r.mint # 0
  PROVE  /\ disk' \in [Tasks -> Slots] /\ obj' \in [Tasks -> Slots]
         /\ pc' \in [Tasks -> Places]
         /\ FramesOK' /\ LaneOK'
<1> USE DEF Advances
<1>1. /\ disk \in [Tasks -> Slots] /\ obj \in [Tasks -> Slots] /\ pc \in [Tasks -> Places]
      /\ buffer \in Seq(Tasks) /\ totell \subseteq Tasks /\ Root \in Tasks
      /\ lane \in {"idle", "scan", "run", "merge"}
  BY MintAssumption DEF Sound, TypeOK
<1>2. r \in Slots  BY SlotIsRecord
<1>3. disk' \in [Tasks -> Slots] /\ obj' \in [Tasks -> Slots] /\ pc' \in [Tasks -> Places]
  BY <1>1, <1>2
<1>4. pc[t] # "idle" /\ obj[t] \in Records /\ disk[t] \in Records
  BY DEF Sound, FramesOK, Moving
<1>5. \A u \in Tasks : obj[u] \in Records => obj'[u] \in Records  BY <1>1
<1>6. \A u \in Tasks : obj'[u] \in Records => disk'[u] \in Records
  BY <1>1, <1>4 DEF Sound, FramesOK
<1>7. FramesOK'
  <2>1. disk'[Root] \in Records  BY <1>1 DEF Sound, FramesOK
  <2>2. \A u \in Tasks : pc'[u] # "idle" => obj'[u] \in Records  BY <1>1 DEF Sound, FramesOK
  <2>3. \A u \in Tasks : pc'[u] \in {"emit", "mark", "kids"} => obj'[u].mint # 0
    BY <1>1 DEF Sound, FramesOK
  <2>m. \A u \in Tasks : pc'[u] \in {"produce", "overflow"} => obj'[u].mint = 0
    BY <1>1 DEF Sound, FramesOK
  <2>4. \A u \in Tasks : pc'[u] \in {"loop", "waiting"} => \A k \in KidSet(u) : obj'[k] \in Records
    BY <1>1, <1>5, KidsAreTasks DEF Sound, FramesOK
  <2>5. \A u \in Tasks : pc'[u] = "waiting" => at'[u] <= Len(Kids[u])
    BY <1>1 DEF Sound, FramesOK
  <2>6. \A u, v \in Tasks : Moving(u)' /\ Moving(v)' => u = v
    BY <1>1 DEF Sound, FramesOK, Moving
  <2> QED BY <2>1, <1>6, <2>2, <2>3, <2>m, <2>4, <2>5, <2>6 DEF FramesOK, KidSet
<1>8. LaneOK'
  <2>1. \A i \in DOMAIN buffer' : obj'[buffer'[i]] \in Records
    <3>1. \A i \in DOMAIN buffer : buffer[i] \in Tasks  BY <1>1
    <3> QED BY <1>5, <3>1 DEF Sound, LaneOK
  <2>2. \A u \in totell' : disk'[u] \in Records /\ disk'[u].mint # 0
    BY <1>1 DEF Sound, LaneOK
  <2>3. lane' # "scan" => totell' = {}  BY DEF Sound, LaneOK
  <2>4. lane' = "scan" => \A u \in Tasks : pc'[u] \in {"idle", "emit", "mark"}
    BY <1>1 DEF Sound, LaneOK
  <2>5. lane' \in {"idle", "merge"} => \A u \in Tasks : pc'[u] = "idle"
    BY <1>4 DEF Sound, LaneOK
  <2>6. lane' \in {"idle", "scan"} => ~worker'  BY DEF Sound, LaneOK
  <2>7. worker' => \A i \in DOMAIN queue' : queue'[i] = Root  BY DEF Sound, LaneOK
  <2>8. worker' => \A u \in Tasks : pc'[u] # "idle" => obj'[Root] \in Records
    BY <1>1, <1>4, <1>5 DEF Sound, LaneOK
  <2>9. \A u \in Tasks : listed'[u] \in Records => disk'[u] \in Records
    BY <1>1 DEF Sound, LaneOK
  <2> QED BY <2>1, <2>2, <2>3, <2>4, <2>5, <2>6, <2>7, <2>8, <2>9 DEF LaneOK
<1> QED BY <1>3, <1>7, <1>8

\* The rest of the state, as TypeOK has it.
RestOK ==
  /\ goal \in GoalStatuses /\ listed \in [Tasks -> Slots]
  /\ queue \in Seq(Tasks) /\ buffer \in Seq(Tasks) /\ at \in [Tasks -> Nat \ {0}]
  /\ lane \in {"idle", "scan", "run", "merge"} /\ worker \in BOOLEAN /\ stopped \in BOOLEAN
  /\ torn \in BOOLEAN /\ totell \subseteq Tasks /\ emitted \subseteq Mints
  /\ missed \subseteq Mints
  /\ rows \in [Mints -> Nat] /\ minted \in 0..MaxMints /\ calls \in [Tasks -> Nat]
  /\ passes \in Nat /\ reopens \in Nat /\ crashes \in Nat /\ faults \in Nat

LEMMA TypesSplit ==
  TypeOK <=> /\ disk \in [Tasks -> Slots] /\ obj \in [Tasks -> Slots]
             /\ pc \in [Tasks -> Places] /\ RestOK
BY DEF TypeOK, RestOK

\* The parts of the state every step but its own leaves alone.
LEMMA RestIsKept ==
  ASSUME RestOK,
         UNCHANGED <<goal, at, listed, queue, lane, worker, buffer, totell, minted, stopped>>,
         torn' = torn /\ passes' = passes /\ reopens' = reopens /\ crashes' = crashes,
         faults' = faults \/ faults' = faults + 1,
         calls' = calls \/ \E t \in Tasks : calls' = [calls EXCEPT ![t] = @ + 1],
         emitted' \subseteq Mints, missed' \subseteq Mints, rows' \in [Mints -> Nat]
  PROVE  RestOK'
<1>1. calls' \in [Tasks -> Nat] /\ faults' \in Nat  BY DEF RestOK
<1> QED BY <1>1 DEF RestOK

\* Every step of a frame that moves it to a place other than its loop: the seam
\* of the producer, the mint and its disclosure, and the end of a container.
LEMMA SeamIsSound ==
  ASSUME Sound, NEW t \in Tasks,
         \/ Resume(t) \/ Bail(t) \/ Count(t) \/ Claim(t) \/ ClaimFails(t) \/ QCFix(t)
         \/ Produced(t) \/ Refuse(t) \/ Commit(t) \/ SkipEmit(t) \/ Emit(t) \/ EmitFails(t)
         \/ Mark(t) \/ Container(t)
  PROVE  Sound'
<1>1. Moving(t) /\ obj[t] \in Records /\ obj \in [Tasks -> Slots]
  <2>1. pc[t] \in {"enter", "produce", "overflow", "emit", "mark", "loop"}
    BY DEF Resume, Bail, Count, Claim, ClaimFails, QCFix, Produced, Refuse, Commit, SkipEmit,
           Emit, EmitFails, Mark, Container
  <2> QED BY <2>1 DEF Sound, TypeOK, FramesOK, Moving
<1>o. obj = [obj EXCEPT ![t] = obj[t]]  BY <1>1
<1>t. RestOK /\ TypeOK  BY TypesSplit DEF Sound
<1>s. {"completed", "failed"} \subseteq Statuses  BY DEF Statuses
<1>c. lane = "scan" => pc[t] \in {"idle", "emit", "mark"}  BY DEF Sound, LaneOK
<1>e. pc[t] \in {"emit", "mark"} => obj[t].mint # 0 /\ obj[t].mint \in Mints
  BY <1>1, MintAssumption DEF Sound, FramesOK, Records, Mints
<1>r. emitted \subseteq Mints /\ missed \subseteq Mints /\ rows \in [Mints -> Nat]
  BY <1>t DEF RestOK
<1>a. ASSUME NEW r \in Records, NEW place \in Places, Advances(t, r, place),
             place \notin {"loop", "waiting"},
             place \in {"emit", "mark", "kids"} => r.mint # 0,
             place \in {"produce", "overflow"} => r.mint = 0,
             lane = "scan" => place \in {"idle", "emit", "mark"} /\ r.mint # 0,
             RestOK'
      PROVE  Sound'
  <2>1. /\ disk' \in [Tasks -> Slots] /\ obj' \in [Tasks -> Slots]
        /\ pc' \in [Tasks -> Places] /\ FramesOK' /\ LaneOK'
    BY <1>a, <1>1, AdvanceIsSound
  <2>2. TypeOK'  BY <2>1, <1>a DEF TypeOK, RestOK
  <2> QED BY <2>1, <2>2 DEF Sound
<1>2. CASE Resume(t)
  <2>1. RestOK'  BY <1>2, <1>r, <1>t, RestIsKept DEF Resume, stores, bounds
  <2>2. Advances(t, obj[t], "emit")  BY <1>2, <1>o DEF Resume, Advances, stores
  <2> QED BY <2>1, <2>2, <1>1, <1>2, <1>c, <1>a DEF Resume, Places
<1>3. CASE Bail(t)
  <2>1. RestOK'  BY <1>3, <1>r, <1>t, RestIsKept DEF Bail, stores, bounds
  <2>2. Advances(t, obj[t], "done")  BY <1>3, <1>o DEF Bail, Advances, stores
  <2> QED BY <2>1, <2>2, <1>1, <1>3, <1>c, <1>a DEF Bail, Places
<1>4. CASE Count(t)
  <2>1. RestOK'  BY <1>4, <1>r, <1>t, RestIsKept DEF Count, stores, bounds
  <2> DEFINE r == [obj[t] EXCEPT !.spent = @ + 1]
  <2>2. r \in Records /\ r.mint = 0  BY <1>1, <1>4, RecordChanges DEF Count, Records
  <2>3. Advances(t, r, "produce")  BY <1>4 DEF Count, Move, Advances, stores
  <2> HIDE DEF r
  <2> QED BY <2>1, <2>2, <2>3, <1>4, <1>c, <1>a DEF Count, Places
<1>5. CASE Claim(t)
  <2>1. RestOK'  BY <1>5, <1>r, <1>t, RestIsKept DEF Claim, bounds
  <2>2. Claimed(obj[t]) \in Records /\ Claimed(obj[t]).mint = 0
    BY <1>1, <1>5, RecordChanges DEF Claim
  <2>3. Advances(t, Claimed(obj[t]), "produce")  BY <1>5 DEF Claim, Move, Advances
  <2> QED BY <2>1, <2>2, <2>3, <1>5, <1>c, <1>a DEF Claim, Places
<1>6. CASE ClaimFails(t)
  <2>1. RestOK'  BY <1>6, <1>r, <1>t, RestIsKept DEF ClaimFails, Fault, stores
  <2> DEFINE r == [Claimed(obj[t]) EXCEPT !.status = "failed"]
  <2>2. r \in Records
    <3>1. Claimed(obj[t]) \in Records  BY <1>1, RecordChanges
    <3> QED BY <3>1, <1>s, RecordChanges
  <2>3. Advances(t, r, "done")  BY <1>6 DEF ClaimFails, Move, Advances, stores
  <2> HIDE DEF r
  <2> QED BY <2>1, <2>2, <2>3, <1>6, <1>c, <1>a DEF ClaimFails, Places
<1>7. CASE QCFix(t)
  <2>1. RestOK'  BY <1>7, <1>r, <1>t, RestIsKept DEF QCFix, Settle, Move, stores, bounds
  <2>2. PICK s \in {"completed", "failed"} :
          IF stopped THEN Move(t, obj[t], "done") ELSE Settle(t, s)
    BY <1>7 DEF QCFix
  <2>3. [obj[t] EXCEPT !.status = s] \in Records  BY <1>1, <1>s, RecordChanges
  <2>4. \/ Advances(t, obj[t], "done")
        \/ Advances(t, [obj[t] EXCEPT !.status = s], "done")
    BY <1>7, <2>2 DEF QCFix, Settle, Move, Advances, stores
  <2>5. lane # "scan"  BY <1>7, <1>c DEF QCFix
  <2> QED BY <2>1, <2>3, <2>4, <2>5, <1>1, <1>a DEF Places
<1>8. CASE Produced(t)
  <2>1. RestOK'  BY <1>8, <1>r, <1>t, RestIsKept DEF Produced, stores, bounds
  <2>3. \A s \in {"completed", "failed"} : [obj[t] EXCEPT !.status = s] \in Records
    BY <1>1, <1>s, RecordChanges
  <2>4. \/ \E place \in {"enter", "overflow"} : Advances(t, obj[t], place)
        \/ \E s \in {"completed", "failed"} : Advances(t, [obj[t] EXCEPT !.status = s], "done")
    BY <1>8 DEF Produced, Settle, Move, Advances, stores
  <2>5. lane # "scan" /\ obj[t].mint = 0  BY <1>8, <1>c DEF Produced, Sound, FramesOK
  <2> QED BY <2>1, <2>3, <2>4, <2>5, <1>1, <1>a DEF Places
<1>9. CASE Refuse(t)
  <2>1. RestOK'  BY <1>9, <1>r, <1>t, RestIsKept DEF Refuse, stores, bounds
  <2>3. [obj[t] EXCEPT !.status = "failed"] \in Records  BY <1>1, <1>s, RecordChanges
  <2>4. Advances(t, [obj[t] EXCEPT !.status = "failed"], "done")
    BY <1>9 DEF Refuse, Settle, Move, Advances, stores
  <2>5. lane # "scan"  BY <1>9, <1>c DEF Refuse
  <2> QED BY <2>1, <2>3, <2>4, <2>5, <1>a DEF Places
<1>10. CASE Commit(t)
  <2>0. minted' \in Mints /\ minted' \in 0..MaxMints
    BY SMTT(30), <1>10, <1>t, MintAssumption DEF Commit, RestOK, Mints
  <2>1. RestOK'  BY <1>10, <1>t, <2>0 DEF Commit, RestOK, bounds
  <2> DEFINE r == Committed(obj[t], minted')
  <2>2. r \in Records /\ r.mint # 0
    <3>1. \A m \in Mints : m # 0  BY DEF Mints
    <3> QED BY <1>1, <2>0, <3>1, RecordChanges
  <2>3. Advances(t, r, "emit")  BY <1>10 DEF Commit, Move, Advances
  <2>5. lane # "scan"  BY <1>10, <1>c DEF Commit
  <2> HIDE DEF r
  <2> QED BY <2>1, <2>2, <2>3, <2>5, <1>a DEF Places
<1>11. CASE SkipEmit(t)
  <2>1. RestOK'  BY <1>11, <1>r, <1>t, RestIsKept DEF SkipEmit, stores, bounds
  <2>2. Advances(t, obj[t], AfterEmit)  BY <1>11, <1>o DEF SkipEmit, Advances, stores
  <2> QED BY <2>1, <2>2, <1>1, <1>11, <1>e, <1>a DEF SkipEmit, AfterEmit, Places
<1>12. CASE Emit(t)
  <2>0. rows' \in [Mints -> Nat] /\ emitted' \subseteq Mints
    BY <1>12, <1>r, <1>e DEF Emit, Appended
  <2>1. RestOK'  BY <1>12, <2>0, <1>r, <1>t, RestIsKept DEF Emit, bounds
  <2> DEFINE r == [obj[t] EXCEPT !.told = TRUE]
  <2>2. r \in Records /\ r.mint = obj[t].mint  BY <1>1, RecordChanges
  <2>3. Advances(t, r, "mark")  BY <1>12 DEF Emit, Move, Advances
  <2> HIDE DEF r
  <2> QED BY <2>1, <2>2, <2>3, <1>12, <1>e, <1>a DEF Emit, Places
<1>13. CASE EmitFails(t)
  <2>0. missed' \subseteq Mints  BY <1>13, <1>r, <1>e DEF EmitFails
  <2>1. RestOK'  BY <1>13, <2>0, <1>r, <1>t, RestIsKept DEF EmitFails, Fault, stores
  <2>2. Advances(t, obj[t], AfterEmit)  BY <1>13, <1>o DEF EmitFails, Advances, stores
  <2> QED BY <2>1, <2>2, <1>1, <1>13, <1>e, <1>a DEF EmitFails, AfterEmit, Places
<1>14. CASE Mark(t)
  <2>1. RestOK'  BY <1>14, <1>r, <1>t, RestIsKept DEF Mark, Fault
  <2>2. Advances(t, obj[t], AfterEmit)  BY <1>14, <1>o DEF Mark, Fault, Advances
  <2> QED BY <2>1, <2>2, <1>1, <1>14, <1>e, <1>a DEF Mark, AfterEmit, Places
<1>15. CASE Container(t)
  <2>1. RestOK'  BY <1>15, <1>r, <1>t, RestIsKept DEF Container, stores, bounds
  <2>2. Outcome(t) \in Statuses  BY DEF Outcome, Statuses
  <2>3. [obj[t] EXCEPT !.status = Outcome(t)] \in Records  BY <1>1, <2>2, RecordChanges
  <2>4. Advances(t, [obj[t] EXCEPT !.status = Outcome(t)], "done")
    BY <1>15 DEF Container, Settle, Move, Advances, stores
  <2>5. lane # "scan"  BY <1>15, <1>c DEF Container
  <2> QED BY <2>1, <2>3, <2>4, <2>5, <1>a DEF Places
<1> QED BY <1>2, <1>3, <1>4, <1>5, <1>6, <1>7, <1>8, <1>9, <1>10, <1>11, <1>12, <1>13,
           <1>14, <1>15

-----------------------------------------------------------------------------
(* The steps of a container's loop. *)

\* A child is laid out.
LEMMA CreateIsSound ==
  ASSUME Sound, NEW t \in Tasks, Create(t)
  PROVE  Sound'
<1> USE MintAssumption
<1>1. PICK i \in DOMAIN Kids[t] :
        disk' = [disk EXCEPT ![Kids[t][i]] = Fresh(obj[t].mint, Attempts - 1)]
        /\ ~Present(Kids[t][i])
  BY DEF Create
<1> DEFINE k == Kids[t][i]
<1>2. k \in Tasks  OBVIOUS
<1>3. obj[t] \in Records  BY DEF Create, Sound, FramesOK
<1>4. Fresh(obj[t].mint, Attempts - 1) \in Records
  <2>1. obj[t].mint \in 0..MaxMints /\ Attempts - 1 \in 0..Attempts  BY <1>3 DEF Records
  <2> QED BY <2>1, FreshIsRecord
<1>5. disk[k] \notin Records  BY <1>1, SlotIsRecord DEF Present
<1>6. UNCHANGED <<goal, obj, pc, at, listed, queue, lane, worker, buffer, totell, rows, emitted,
                  stopped, minted, calls, missed, torn, passes, reopens, crashes, faults>>
  BY DEF Create, frames, bounds
<1> HIDE DEF k
<1>7. disk' = [disk EXCEPT ![k] = Fresh(obj[t].mint, Attempts - 1)]  BY <1>1 DEF k
<1>8. TypeOK  BY DEF Sound
<1>9. disk' \in [Tasks -> Slots]  BY <1>7, <1>4, <1>2, <1>8, SlotIsRecord DEF TypeOK
<1>10. TypeOK'  BY <1>6, <1>8, <1>9 DEF TypeOK
<1>11. FramesOK'
  <2>1. \A u \in Tasks : disk[u] \in Records => disk'[u] \in Records
    BY <1>7, <1>4, <1>8 DEF TypeOK
  <2> QED BY <1>6, <2>1 DEF Sound, FramesOK, Moving, KidSet
<1>12. LaneOK'
  <2>1. \A u \in totell : disk'[u] = disk[u]
    BY <1>7, <1>5, <1>8 DEF TypeOK, Sound, LaneOK
  <2>2. \A u \in Tasks : disk[u] \in Records => disk'[u] \in Records
    BY <1>7, <1>4, <1>8 DEF TypeOK
  <2> QED BY <1>6, <2>1, <2>2 DEF Sound, LaneOK
<1> QED BY <1>10, <1>11, <1>12 DEF Sound

\* The loop gets its children's records.
LEMMA LoadIsSound ==
  ASSUME Sound, NEW t \in Tasks, Load(t)
  PROVE  Sound'
<1> DEFINE parent == [obj[t] EXCEPT !.laid = TRUE]
<1>1. /\ TypeOK /\ obj[t] \in Records /\ pc[t] = "kids" /\ Moving(t)
      /\ lane # "scan" /\ lane \notin {"idle", "merge"} /\ totell = {}
  <2>1. pc[t] = "kids"  BY DEF Load
  <2> QED BY <2>1 DEF Sound, FramesOK, LaneOK, Moving
<1>2. parent \in Records  BY <1>1, RecordChanges
<1>3. \A k \in KidSet(t) : disk[k] \in Records
  BY <1>1, SlotIsRecord, KidsAreTasks DEF Load, TypeOK, Present
<1>4. /\ obj' = [u \in Tasks |-> IF u = t THEN parent
                                ELSE IF u \in KidSet(t) THEN disk[u] ELSE obj[u]]
      /\ pc' = [pc EXCEPT ![t] = "loop"] /\ at' = [at EXCEPT ![t] = 1]
      /\ disk' = disk \/ disk' = [disk EXCEPT ![t] = parent]
      /\ faults' = faults \/ faults' = faults + 1
      /\ UNCHANGED <<goal, rows, listed, queue, lane, worker, buffer, totell, emitted, stopped, minted,
                     calls, missed, torn, passes, reopens, crashes>>
  BY DEF Load, Fault
<1> HIDE DEF parent
<1>5. \A u \in Tasks : obj[u] \in Records => obj'[u] \in Records
  BY <1>2, <1>3, <1>4
<1>6. \A u \in Tasks : disk[u] \in Records => disk'[u] \in Records
  BY <1>1, <1>2, <1>4 DEF TypeOK
<1>7. TypeOK'
  <2>1. obj' \in [Tasks -> Slots]
    BY <1>1, <1>2, <1>4, SlotIsRecord DEF TypeOK
  <2>2. disk' \in [Tasks -> Slots]
    BY <1>1, <1>2, <1>4, SlotIsRecord DEF TypeOK
  <2>3. pc' \in [Tasks -> Places] /\ at' \in [Tasks -> Nat \ {0}]
    BY <1>1, <1>4 DEF TypeOK, Places
  <2>4. RestOK'  BY <1>1, <1>4, <2>3 DEF TypeOK, RestOK
  <2> QED BY <2>1, <2>2, <2>3, <2>4 DEF TypeOK, RestOK
<1>8. FramesOK'
  <2>1. disk'[Root] \in Records  BY <1>6, MintAssumption DEF Sound, FramesOK
  <2>2. \A u \in Tasks : obj'[u] \in Records => disk'[u] \in Records
    BY <1>1, <1>3, <1>4, <1>6 DEF Sound, FramesOK
  <2>3. \A u \in Tasks : pc'[u] # "idle" => obj'[u] \in Records
    BY <1>1, <1>4, <1>5 DEF Sound, FramesOK, TypeOK
  <2>4. \A u \in Tasks : pc'[u] \notin {"emit", "mark", "kids", "produce", "overflow"}
    BY <1>1, <1>4 DEF Sound, FramesOK, TypeOK, Moving
  <2>5. \A u \in Tasks : pc'[u] \in {"loop", "waiting"} =>
          \A k \in KidSet(u) : obj'[k] \in Records
    <3>1. \A k \in KidSet(t) : obj'[k] \in Records
      BY <1>2, <1>3, <1>4, KidsAreTasks
    <3>2. \A u \in Tasks \ {t} : pc'[u] = pc[u]  BY <1>1, <1>4 DEF TypeOK
    <3> QED BY <3>1, <3>2, <1>5, KidsAreTasks DEF Sound, FramesOK
  <2>6. \A u \in Tasks : pc'[u] = "waiting" => at'[u] <= Len(Kids[u])
    BY <1>1, <1>4 DEF Sound, FramesOK, TypeOK
  <2>7. \A u, v \in Tasks : Moving(u)' /\ Moving(v)' => u = v
    BY <1>1, <1>4 DEF Sound, FramesOK, TypeOK, Moving
  <2> QED BY <2>1, <2>2, <2>3, <2>4, <2>5, <2>6, <2>7 DEF FramesOK, KidSet
<1>9. LaneOK'
  <2>1. \A i \in DOMAIN buffer' : obj'[buffer'[i]] \in Records
    <3>1. \A i \in DOMAIN buffer : buffer[i] \in Tasks  BY <1>1 DEF TypeOK
    <3> QED BY <1>4, <1>5, <3>1 DEF Sound, LaneOK
  <2>2. worker' => \A u \in Tasks : pc'[u] # "idle" => obj'[Root] \in Records
    <3>1. worker => obj[Root] \in Records  BY <1>1 DEF Sound, LaneOK
    <3> QED BY <1>4, <1>5, <3>1, MintAssumption
  <2> QED BY <1>1, <1>4, <1>6, <2>1, <2>2 DEF Sound, LaneOK
<1> QED BY <1>7, <1>8, <1>9 DEF Sound

\* The loop of t goes to its next child: a child k settled in it or in its own
\* frame, and saved or left to the merge.
Turns(t, k, r) ==
  /\ obj' = [obj EXCEPT ![k] = r]
  /\ pc' = [pc EXCEPT ![t] = "loop", ![k] = "idle"] \/ pc' = pc
  /\ NextChild(t)
  /\ Persist(k, r) \/ UNCHANGED <<disk, buffer>>
  /\ UNCHANGED <<goal, rows, listed, queue, lane, worker, totell, emitted, stopped, minted, calls,
                 missed, bounds>>

\* ... which keeps the state sound.
LEMMA TurnIsSound ==
  ASSUME Sound, NEW t \in Tasks, NEW k \in KidSet(t), NEW r \in Records, Turns(t, k, r),
         \/ pc[t] = "loop" /\ pc' = pc
         \/ pc[t] = "waiting" /\ pc[k] = "done" /\ pc' = [pc EXCEPT ![t] = "loop", ![k] = "idle"]
  PROVE  Sound'
<1>1. /\ TypeOK /\ k \in Tasks /\ obj[k] \in Records /\ disk[k] \in Records
      /\ lane # "scan" /\ lane \notin {"idle", "merge"} /\ totell = {} /\ pc[t] # "idle"
  <2>1. pc[t] \in {"loop", "waiting"}  OBVIOUS
  <2> QED BY <2>1, KidsAreTasks DEF Sound, FramesOK, LaneOK
<1>2. /\ obj' = [obj EXCEPT ![k] = r] /\ at' = [at EXCEPT ![t] = @ + 1]
      /\ disk' = disk \/ disk' = [disk EXCEPT ![k] = r]
      /\ buffer' = buffer \/ buffer' = Append(buffer, k)
      /\ UNCHANGED <<goal, rows, listed, queue, lane, worker, totell, emitted, stopped, minted, calls,
                     missed, torn, passes, reopens, crashes, faults>>
  BY DEF Turns, Persist, NextChild, bounds
<1>3. pc' \in [Tasks -> Places]  BY <1>1 DEF TypeOK, Places
<1>4. \A u \in Tasks : obj[u] \in Records => obj'[u] \in Records  BY <1>1, <1>2
<1>5. TypeOK'
  <2>1. obj' \in [Tasks -> Slots] /\ disk' \in [Tasks -> Slots]
    BY <1>1, <1>2, SlotIsRecord DEF TypeOK
  <2>2. at' \in [Tasks -> Nat \ {0}]
    <3>1. at \in [Tasks -> Nat \ {0}]  BY <1>1 DEF TypeOK
    <3>2. \A n \in Nat \ {0} : n + 1 \in Nat \ {0}  OBVIOUS
    <3> QED BY <1>2, <3>1, <3>2
  <2>3. buffer' \in Seq(Tasks)
    <3>1. buffer \in Seq(Tasks)  BY <1>1 DEF TypeOK
    <3>2. Append(buffer, k) \in Seq(Tasks)  BY <3>1, <1>1
    <3> QED BY <1>2, <3>1, <3>2
  <2> QED BY <1>1, <1>2, <1>3, <2>1, <2>2, <2>3 DEF TypeOK
<1>6. FramesOK'
  <2>1. disk'[Root] \in Records  BY <1>1, <1>2, MintAssumption DEF Sound, FramesOK, TypeOK
  <2>2. \A u \in Tasks : obj'[u] \in Records => disk'[u] \in Records
    BY <1>1, <1>2 DEF Sound, FramesOK, TypeOK
  <2>3. \A u \in Tasks : pc'[u] # "idle" => pc[u] # "idle"  BY <1>1 DEF TypeOK
  <2>4. \A u \in Tasks : pc'[u] # "idle" => obj'[u] \in Records
    BY <1>4, <2>3 DEF Sound, FramesOK
  <2>5. \A u \in Tasks : pc'[u] \notin {"emit", "mark", "kids", "produce", "overflow"}
    BY <1>1 DEF Sound, FramesOK, TypeOK, Moving
  <2>6. \A u \in Tasks : pc'[u] \in {"loop", "waiting"} => pc[u] \in {"loop", "waiting"}
    BY <1>1 DEF TypeOK
  <2>7. \A u \in Tasks : pc'[u] \in {"loop", "waiting"} =>
          \A j \in KidSet(u) : obj'[j] \in Records
    BY <1>4, <2>6, KidsAreTasks DEF Sound, FramesOK
  <2>8. \A u \in Tasks : pc'[u] = "waiting" => at'[u] <= Len(Kids[u])
    BY <1>1, <1>2 DEF Sound, FramesOK, TypeOK
  <2>9. \A u, v \in Tasks : Moving(u)' /\ Moving(v)' => u = v
    BY ZenonT(60), <1>1 DEF Sound, FramesOK, TypeOK, Moving
  <2> QED BY <2>1, <2>2, <2>4, <2>5, <2>7, <2>8, <2>9 DEF FramesOK, KidSet
<1>7. LaneOK'
  <2>1. \A i \in DOMAIN buffer' : obj'[buffer'[i]] \in Records
    <3>1. \A i \in DOMAIN buffer : buffer[i] \in Tasks /\ obj[buffer[i]] \in Records
      BY <1>1 DEF TypeOK, Sound, LaneOK
    <3>2. CASE buffer' = buffer  BY <1>4, <3>1, <3>2
    <3>3. CASE buffer' = Append(buffer, k)
      <4>1. \A i \in DOMAIN buffer' : buffer'[i] = k \/ (i \in DOMAIN buffer /\ buffer'[i] = buffer[i])
        <5>1. buffer \in Seq(Tasks) /\ k \in Tasks  BY <1>1 DEF TypeOK
        <5>2. /\ DOMAIN Append(buffer, k) = 1..(Len(buffer) + 1) /\ DOMAIN buffer = 1..Len(buffer)
              /\ Append(buffer, k)[Len(buffer) + 1] = k
              /\ \A i \in 1..Len(buffer) : Append(buffer, k)[i] = buffer[i]
              /\ Len(buffer) \in Nat
          BY <5>1
        <5>3. \A i \in 1..(Len(buffer) + 1) : i = Len(buffer) + 1 \/ i \in 1..Len(buffer)
          BY <5>2
        <5> QED BY <3>3, <5>2, <5>3
      <4> QED BY <4>1, <1>1, <1>4, <3>1
    <3> QED BY <1>2, <3>2, <3>3
  <2>2. worker' => \A u \in Tasks : pc'[u] # "idle" => obj'[Root] \in Records
    <3>1. worker => obj[Root] \in Records  BY <1>1 DEF Sound, LaneOK
    <3> QED BY <1>2, <1>4, <3>1, MintAssumption
  <2>3. \A u \in Tasks : disk[u] \in Records => disk'[u] \in Records
    BY <1>1, <1>2 DEF TypeOK
  <2> QED BY <1>1, <1>2, <2>1, <2>2, <2>3 DEF Sound, LaneOK
<1> QED BY <1>5, <1>6, <1>7 DEF Sound

\* Every other step of the loop.
LEMMA LoopIsSound ==
  ASSUME Sound, NEW t \in Tasks,
         Preserve(t) \/ SettleClaim(t) \/ RunChild(t) \/ ChildDone(t)
  PROVE  Sound'
<1>1. TypeOK /\ pc[t] \in {"loop", "waiting"} /\ at[t] \in Nat \ {0} /\ at[t] <= Len(Kids[t])
  BY DEF Preserve, SettleClaim, RunChild, ChildDone, InLoop, Sound, TypeOK, FramesOK
<1> DEFINE k == ChildAt(t)
<1>2. k \in KidSet(t) /\ k \in Tasks  BY <1>1, KidsAreTasks DEF ChildAt
<1>3. obj[k] \in Records  BY <1>1, <1>2 DEF Sound, FramesOK
<1> HIDE DEF k
<1>4. obj = [obj EXCEPT ![k] = obj[k]]  BY <1>1 DEF TypeOK
<1>5. CASE Preserve(t)
  <2>1. Turns(t, k, obj[k])  BY <1>5, <1>4 DEF Preserve, Turns, stores
  <2>2. pc[t] = "loop" /\ pc' = pc  BY <1>5 DEF Preserve, InLoop
  <2> QED BY <2>1, <2>2, <1>2, <1>3, TurnIsSound
<1>6. CASE SettleClaim(t)
  <2>1. PICK s \in {"completed", "failed"} : Turns(t, k, [obj[k] EXCEPT !.status = s])
    BY <1>6 DEF SettleClaim, Turns, k
  <2>2. [obj[k] EXCEPT !.status = s] \in Records  BY <1>3, RecordChanges DEF Statuses
  <2>3. pc[t] = "loop" /\ pc' = pc  BY <1>6 DEF SettleClaim, InLoop
  <2> QED BY <2>1, <2>2, <2>3, <1>2, TurnIsSound
<1>7. CASE ChildDone(t)
  <2>1. Turns(t, k, obj[k])  BY <1>7, <1>4 DEF ChildDone, Turns, k
  <2>2. pc[t] = "waiting" /\ pc[k] = "done" /\ pc' = [pc EXCEPT ![t] = "loop", ![k] = "idle"]
    BY <1>7 DEF ChildDone, k
  <2> QED BY <2>1, <2>2, <1>2, <1>3, TurnIsSound
<1>8. CASE RunChild(t)
  <2>1. /\ pc[t] = "loop" /\ pc' = [pc EXCEPT ![t] = "waiting", ![k] = "enter"]
        /\ UNCHANGED <<disk, goal, rows, obj, at, listed, queue, lane, worker, buffer, totell, emitted,
                       stopped, minted, calls, missed, torn, passes, reopens, crashes, faults>>
    BY <1>8 DEF RunChild, InLoop, k, stores, bounds
  <2>2. TypeOK'  BY <1>1, <1>2, <2>1 DEF TypeOK, Places
  <2>3. FramesOK'
    <3>1. \A u \in Tasks : pc'[u] # "idle" => obj'[u] \in Records
      BY <1>1, <1>2, <1>3, <2>1 DEF Sound, FramesOK, TypeOK
    <3>2. \A u \in Tasks : pc'[u] \notin {"emit", "mark", "kids", "produce", "overflow"}
      BY <1>1, <2>1 DEF Sound, FramesOK, TypeOK, Moving
    <3>3. \A u \in Tasks : pc'[u] \in {"loop", "waiting"} => pc[u] \in {"loop", "waiting"}
      BY <1>1, <2>1 DEF TypeOK
    <3>4. \A u \in Tasks : pc'[u] = "waiting" => at'[u] <= Len(Kids[u])
      BY <1>1, <2>1 DEF TypeOK, Sound, FramesOK
    <3>5. \A u, v \in Tasks : Moving(u)' /\ Moving(v)' => u = v
      BY <1>1, <2>1 DEF Sound, FramesOK, TypeOK, Moving
    <3> QED BY <2>1, <3>1, <3>2, <3>3, <3>4, <3>5 DEF Sound, FramesOK, KidSet
  <2>4. LaneOK'
    <3>1. lane # "scan" /\ lane \notin {"idle", "merge"} /\ (worker => obj[Root] \in Records)
      BY <2>1 DEF Sound, LaneOK
    <3> QED BY <2>1, <3>1 DEF Sound, LaneOK
  <2> QED BY <2>2, <2>3, <2>4 DEF Sound
<1> QED BY <1>5, <1>6, <1>7, <1>8

-----------------------------------------------------------------------------
(* The steps of the lanes. *)

LEMMA TailOfTasks ==
  ASSUME NEW s \in Seq(Tasks), s # <<>>
  PROVE  /\ Tail(s) \in Seq(Tasks) /\ Head(s) \in Tasks /\ 1 \in DOMAIN s /\ s[1] = Head(s)
         /\ \A i \in DOMAIN Tail(s) : i + 1 \in DOMAIN s /\ Tail(s)[i] = s[i + 1]
OBVIOUS

LEMMA Prepended ==
  ASSUME NEW x \in Tasks, NEW s \in Seq(Tasks)
  PROVE  /\ <<x>> \o s \in Seq(Tasks)
         /\ \A i \in DOMAIN (<<x>> \o s) :
              (<<x>> \o s)[i] = x \/ \E j \in DOMAIN s : (<<x>> \o s)[i] = s[j]
<1>1. <<x>> \o s \in Seq(Tasks)  OBVIOUS
<1>2. Len(s) \in Nat /\ Len(<<x>> \o s) = Len(s) + 1 /\ DOMAIN s = 1..Len(s)
      /\ DOMAIN (<<x>> \o s) = 1..(Len(s) + 1)
  OBVIOUS
<1>3. ASSUME NEW i \in 1..(Len(s) + 1)
      PROVE  (<<x>> \o s)[i] = x \/ \E j \in DOMAIN s : (<<x>> \o s)[i] = s[j]
  <2>1. CASE i = 1  BY <2>1
  <2>2. CASE i # 1
    <3>1. i - 1 \in 1..Len(s)  BY <1>2, <2>2
    <3>2. (<<x>> \o s)[i] = s[i - 1]  BY <1>2, <2>2
    <3> QED BY <3>1, <3>2, <1>2
  <2> QED BY <2>1, <2>2
<1> QED BY <1>1, <1>2, <1>3

\* What a run that lets go of everything leaves behind.
LEMMA ForgetIsSound ==
  ASSUME Sound, Forget, RestOK', disk' \in [Tasks -> Slots],
         \A u \in Tasks : disk[u] \in Records => disk'[u] \in Records
  PROVE  Sound'
<1>2. obj' \in [Tasks -> Slots] /\ pc' \in [Tasks -> Places]
  BY SlotIsRecord DEF Forget, Nothing, AllIdle, Places
<1>3. TypeOK'  BY <1>2 DEF TypeOK, RestOK
<1>4. FramesOK'  BY SlotIsRecord, MintAssumption DEF Sound, FramesOK, Forget, AllIdle, Nothing, Moving
<1>5. LaneOK'  BY SlotIsRecord DEF LaneOK, Forget, AllIdle, Nothing
<1> QED BY <1>3, <1>4, <1>5 DEF Sound

LEMMA ForgetTypes ==
  ASSUME RestOK, Forget, UNCHANGED <<rows, minted, calls, missed>>, goal' \in GoalStatuses,
         emitted' \subseteq emitted, stopped' \in BOOLEAN, torn' \in BOOLEAN,
         passes' = passes, reopens' = reopens,
         crashes' \in {crashes, crashes + 1}, faults' \in {faults, faults + 1}
  PROVE  RestOK'
<1>1. listed' \in [Tasks -> Slots]  BY SlotIsRecord DEF Forget, Nothing
<1>2. at' \in [Tasks -> Nat \ {0}]  BY DEF Forget, AllOne
<1>3. queue' \in Seq(Tasks) /\ buffer' \in Seq(Tasks)  BY DEF Forget
<1>4. crashes' \in Nat /\ faults' \in Nat  BY DEF RestOK
<1> QED BY <1>1, <1>2, <1>3, <1>4 DEF RestOK, Forget

\* An exception leaves the redo path.
LEMMA EscapeIsSound ==
  ASSUME Sound, Escape, \E t \in Tasks : pc[t] # "idle",
         UNCHANGED <<disk, rows, emitted, stopped, minted, calls, missed, torn, passes, reopens,
                     crashes>>,
         faults' = faults \/ faults' = faults + 1
  PROVE  Sound'
<1>t. TypeOK /\ RestOK /\ Root \in Tasks /\ disk \in [Tasks -> Slots]
  BY TypesSplit, MintAssumption DEF Sound
<1>1. CASE ~worker
  <2>1. Forget /\ goal' \in GoalStatuses  BY <1>1 DEF Escape, SettleOnFatal, GoalStatuses
  <2>2. RestOK'  BY <1>t, <2>1, ForgetTypes DEF RestOK
  <2> QED BY <1>t, <2>1, <2>2, ForgetIsSound
<1>2. CASE worker
  <2>1. /\ lane' = "merge" /\ buffer' = <<Root>> \o buffer /\ queue' = <<>>
        /\ obj' = [obj EXCEPT ![Root].status = "failed"] /\ pc' = AllIdle
        /\ UNCHANGED <<disk, goal, rows, at, listed, worker, totell>>
    BY <1>2 DEF Escape
  <2>2. obj[Root] \in Records /\ disk[Root] \in Records /\ totell = {}
    BY <1>2 DEF Sound, LaneOK, FramesOK
  <2>3. [obj[Root] EXCEPT !.status = "failed"] \in Records
    BY <2>2, RecordChanges DEF Statuses
  <2>4. obj' \in [Tasks -> Slots] /\ obj'[Root] \in Records
    BY <1>t, <2>1, <2>3, SlotIsRecord DEF TypeOK
  <2>5. \A u \in Tasks : obj[u] \in Records => obj'[u] \in Records
    BY <1>t, <2>1, <2>4 DEF TypeOK
  <2>6. buffer' \in Seq(Tasks) /\ \A i \in DOMAIN buffer' : obj'[buffer'[i]] \in Records
    <3>1. buffer \in Seq(Tasks) /\ \A j \in DOMAIN buffer : buffer[j] \in Tasks
      BY <1>t DEF RestOK
    <3> QED BY <1>t, <2>1, <2>4, <2>5, <3>1, Prepended DEF Sound, LaneOK
  <2>7. RestOK'
    <3>1. faults' \in Nat  BY <1>t DEF RestOK
    <3>2. queue' \in Seq(Tasks)  BY <2>1
    <3> QED BY <1>t, <2>1, <2>6, <3>1, <3>2 DEF RestOK
  <2>8. pc' \in [Tasks -> Places]  BY <2>1 DEF AllIdle, Places
  <2>9. TypeOK'  BY <1>t, <2>1, <2>4, <2>7, <2>8 DEF TypeOK, RestOK
  <2>10. FramesOK'
    <3>1. \A u \in Tasks : obj'[u] \in Records => disk'[u] \in Records
      BY <1>t, <2>1, <2>2 DEF Sound, FramesOK, TypeOK
    <3>2. \A u \in Tasks : pc'[u] = "idle"  BY <2>1 DEF AllIdle
    <3> QED BY <2>1, <2>2, <3>1, <3>2 DEF FramesOK, Moving
  <2>11. LaneOK'
    <3>1. \A u \in Tasks : pc'[u] = "idle"  BY <2>1 DEF AllIdle
    <3>2. \A u \in Tasks : listed'[u] \in Records => disk'[u] \in Records
      BY <2>1 DEF Sound, LaneOK
    <3>3. totell' = {} /\ lane' = "merge" /\ \A i \in DOMAIN queue' : queue'[i] = Root
      BY <2>1, <2>2
    <3> QED BY <3>1, <3>2, <3>3, <2>6 DEF LaneOK
  <2> QED BY <2>9, <2>10, <2>11 DEF Sound
<1> QED BY <1>1, <1>2

\* A teardown writes "abandoned" to records of the store, and to nothing else.
LEMMA TeardownWrites ==
  ASSUME Sound, Teardown
  PROVE  \E S \in SUBSET Tasks :
           /\ \A t \in S : disk[t] \in Records /\ disk[t].status # "completed"
           /\ disk' = [t \in Tasks |-> IF t \in S THEN [disk[t] EXCEPT !.status = "abandoned"]
                                       ELSE disk[t]]
<1>1. PICK S \in SUBSET Unfinished : Abandon(S)  BY DEF Teardown
<1>2. \A t \in Unfinished : t \in Tasks /\ disk[t] \in Records /\ disk[t].status # "completed"
  BY SlotIsRecord DEF Unfinished, Present, Sound, TypeOK
<1>3. S \in SUBSET Tasks  BY <1>2
<1> QED BY <1>1, <1>2, <1>3 DEF Abandon

LEMMA LaneEndIsSound ==
  ASSUME Sound, LaneEnds \/ Teardown \/ Crash \/ Foreign \/ Raise
  PROVE  Sound'
<1>t. RestOK /\ disk \in [Tasks -> Slots]  BY TypesSplit DEF Sound
<1>1. CASE LaneEnds
  <2>1. Forget /\ disk' = disk /\ goal' \in GoalStatuses  BY <1>1 DEF LaneEnds, GoalStatuses
  <2>2. RestOK'  BY <1>1, <1>t, <2>1, ForgetTypes DEF LaneEnds, bounds, RestOK
  <2> QED BY <1>t, <2>1, <2>2, ForgetIsSound
<1>2. CASE Crash
  <2>1. Forget /\ disk' = disk  BY <1>2 DEF Crash, stores
  <2>2. RestOK'  BY <1>2, <1>t, <2>1, ForgetTypes DEF Crash, stores, RestOK
  <2> QED BY <1>t, <2>1, <2>2, ForgetIsSound
<1>3. CASE Foreign
  <2>1. \E t \in Tasks : pc[t] # "idle"  BY <1>3 DEF Foreign
  <2> QED BY <1>3, <2>1, EscapeIsSound DEF Foreign, bounds
<1>4. CASE Raise
  <2>1. \E t \in Tasks : pc[t] # "idle"  BY <1>4 DEF Raise
  <2> QED BY <1>4, <2>1, EscapeIsSound DEF Raise, Fault
<1>5. CASE Teardown
  <2>1. PICK S \in SUBSET Tasks :
          /\ \A t \in S : disk[t] \in Records
          /\ disk' = [t \in Tasks |-> IF t \in S THEN [disk[t] EXCEPT !.status = "abandoned"]
                                      ELSE disk[t]]
    BY <1>5, TeardownWrites
  <2>2. Forget  BY <1>5 DEF Teardown
  <2>3. RestOK'
    <3>1. goal' \in GoalStatuses  BY <1>5, <1>t DEF Teardown, GoalStatuses, RestOK
    <3>2. faults' \in {faults, faults + 1}  BY <1>5 DEF Teardown, Fault
    <3> QED BY <1>5, <1>t, <2>2, <3>1, <3>2, ForgetTypes DEF Teardown, RestOK
  <2>4. \A t \in S : [disk[t] EXCEPT !.status = "abandoned"] \in Records
    BY <2>1, RecordChanges DEF Statuses
  <2>5. /\ disk' \in [Tasks -> Slots]
        /\ \A u \in Tasks : disk[u] \in Records => disk'[u] \in Records
    BY <1>t, <2>1, <2>4, SlotIsRecord
  <2> QED BY <2>2, <2>3, <2>5, ForgetIsSound
<1> QED BY <1>1, <1>2, <1>3, <1>4, <1>5

\* A record is put in a frame of its own: by the scan or by a lane.
LEMMA EnterIsSound ==
  ASSUME Sound, Quiet, NEW t \in Tasks, NEW r \in Records, disk[t] \in Records,
         NEW place \in {"emit", "enter"}, Move(t, r, place),
         totell' \subseteq totell, lane \in {"scan", "run"},
         UNCHANGED <<disk, goal, rows, at, listed, queue, lane, worker, buffer, emitted, stopped,
                     minted, calls, missed, torn, passes, reopens, crashes, faults>>,
         place = "emit" => r.mint # 0, place = "enter" => lane = "run",
         worker => t = Root
  PROVE  Sound'
<1>t. TypeOK /\ Root \in Tasks  BY MintAssumption DEF Sound
<1>1. /\ \A u \in Tasks : pc[u] = "idle"
      /\ obj' = [obj EXCEPT ![t] = r] /\ pc' = [pc EXCEPT ![t] = place]
  BY DEF Quiet, AllIdle, Move
<1>2. \A u \in Tasks : obj[u] \in Records => obj'[u] \in Records  BY <1>1, <1>t DEF TypeOK
<1>3. TypeOK'
  <2>1. obj' \in [Tasks -> Slots]  BY <1>t, <1>1, SlotIsRecord DEF TypeOK
  <2>2. pc' \in [Tasks -> Places]  BY <1>t, <1>1 DEF TypeOK, Places
  <2> QED BY <1>t, <2>1, <2>2 DEF TypeOK
<1>4. FramesOK'
  <2>1. \A u \in Tasks : u # t => pc'[u] = "idle"  BY <1>1, <1>t DEF TypeOK
  <2>2. pc'[t] = place /\ obj'[t] = r  BY <1>1, <1>t DEF TypeOK
  <2>3. \A u \in Tasks : obj'[u] \in Records => disk'[u] \in Records
    BY <1>1, <1>t DEF Sound, FramesOK, TypeOK
  <2> QED BY <2>1, <2>2, <2>3 DEF Sound, FramesOK, Moving
<1>5. LaneOK'
  <2>1. \A i \in DOMAIN buffer' : obj'[buffer'[i]] \in Records
    <3>1. \A i \in DOMAIN buffer : buffer[i] \in Tasks  BY <1>t DEF TypeOK
    <3> QED BY <1>2, <3>1 DEF Sound, LaneOK
  <2>2. worker' => obj'[Root] \in Records  BY <1>t, <1>1 DEF TypeOK
  <2>3. lane' = "scan" => \A u \in Tasks : pc'[u] \in {"idle", "emit", "mark"}
    BY <1>t, <1>1 DEF TypeOK
  <2> QED BY <2>1, <2>2, <2>3 DEF Sound, LaneOK
<1> QED BY <1>3, <1>4, <1>5 DEF Sound

\* No frame is open, and the store keeps every record it has: the lists of the
\* lane may change.
LEMMA QuietIsSound ==
  ASSUME Sound, \A u \in Tasks : pc'[u] = "idle", pc' \in [Tasks -> Places], RestOK',
         UNCHANGED obj, disk' \in [Tasks -> Slots],
         \A u \in Tasks : disk[u] \in Records => disk'[u] \in Records,
         LaneOK'
  PROVE  Sound'
<1>1. TypeOK'  BY DEF Sound, TypeOK, RestOK
<1>2. FramesOK'  BY MintAssumption DEF Sound, FramesOK, Moving
<1> QED BY <1>1, <1>2 DEF Sound

LEMMA LaneIsSound ==
  ASSUME Sound, Kickoff \/ Dispatch \/ Reopen \/ Skip \/ TaskDone \/ Merge
  PROVE  Sound'
<1>t. /\ TypeOK /\ RestOK /\ Root \in Tasks /\ disk[Root] \in Records
      /\ pc \in [Tasks -> Places] /\ disk \in [Tasks -> Slots] /\ queue \in Seq(Tasks)
      /\ buffer \in Seq(Tasks)
  BY TypesSplit, MintAssumption DEF Sound, FramesOK, RestOK
<1>q. Quiet => \A u \in Tasks : pc[u] = "idle"  BY DEF Quiet, AllIdle
<1>n. \A n \in Nat : n + 1 \in Nat  OBVIOUS
<1>1. CASE Kickoff
  <2>0. UNCHANGED <<disk, goal, rows, pc, at, obj, listed, queue, worker, buffer, emitted, minted, calls,
                    torn, reopens, crashes, faults>>
        /\ lane = "idle" /\ lane' = "scan" /\ passes' = passes + 1 /\ stopped' = FALSE
        /\ missed' = {} /\ totell' = {t \in Tasks : Present(t) /\ disk[t].mint # 0 /\ ~disk[t].told}
    BY <1>1 DEF Kickoff, stores, frames
  <2>1. \A u \in Tasks : pc[u] = "idle"  BY <2>0 DEF Sound, LaneOK
  <2>2. \A t \in totell' : disk[t] \in Records /\ disk[t].mint # 0
    BY <2>0, <1>t, SlotIsRecord DEF Present
  <2>3. LaneOK'  BY <2>0, <2>1, <2>2 DEF Sound, LaneOK
  <2>4. RestOK'  BY <2>0, <1>t, <1>n DEF RestOK
  <2> QED BY <2>0, <2>1, <2>3, <2>4, <1>t, QuietIsSound
<1>2. CASE Dispatch
  <2>0. /\ Scanned /\ disk' = [disk EXCEPT ![Root] = Reset(@)]
        /\ listed' = [Nothing EXCEPT ![Root] = Reset(disk[Root])] /\ queue' = <<Root>>
        /\ lane' = "run" /\ worker' \in BOOLEAN
        /\ UNCHANGED <<goal, rows, pc, at, obj, buffer, totell, emitted, stopped, minted, calls, missed,
                       torn, passes, reopens, crashes, faults>>
    BY <1>2 DEF Dispatch, frames, bounds
  <2>1. /\ \A u \in Tasks : pc[u] = "idle" /\ totell = {}  BY <2>0, <1>q DEF Scanned
  <2>t. totell = {}  BY <2>0 DEF Scanned
  <2>2. Reset(disk[Root]) \in Records  BY <1>t, RecordChanges
  <2>3. disk' \in [Tasks -> Slots] /\ listed' \in [Tasks -> Slots]
        /\ \A u \in Tasks : disk[u] \in Records => disk'[u] \in Records
    BY <1>t, <2>0, <2>2, SlotIsRecord DEF Nothing
  <2>4. queue' \in Seq(Tasks) /\ \A i \in DOMAIN queue' : queue'[i] = Root  BY <2>0, <1>t
  <2>5. RestOK'  BY <2>0, <2>3, <2>4, <1>t DEF RestOK
  <2>l. \A u \in Tasks : listed'[u] \in Records => disk'[u] \in Records
    BY <1>t, <2>0, <2>2, SlotIsRecord DEF Nothing
  <2>6. LaneOK'  BY <2>0, <2>1, <2>t, <2>4, <2>l DEF Sound, LaneOK
  <2>8. \A u \in Tasks : pc'[u] = "idle"  BY <2>0, <2>1
  <2> QED BY <2>0, <2>8, <2>3, <2>5, <2>6, <1>t, QuietIsSound
<1>3. CASE Reopen
  <2>0. /\ Scanned /\ lane' = "run" /\ worker' = FALSE /\ listed' = disk' /\ queue' = LaneOrder
        /\ reopens' = reopens + 1 /\ goal' \in GoalStatuses
        /\ UNCHANGED <<rows, pc, at, obj, buffer, totell, emitted, stopped, minted, calls, missed,
                       torn, passes, crashes, faults>>
    BY <1>3 DEF Reopen, frames, GoalStatuses
  <2>1. \A u \in Tasks : pc[u] = "idle"  BY <2>0, <1>q DEF Scanned
  <2>t. totell = {}  BY <2>0 DEF Scanned
  <2>2. PICK S \in SUBSET Ticketed :
          disk' = [t \in Tasks |-> IF t \in S THEN Reset(disk[t]) ELSE disk[t]]
    BY <1>3 DEF Reopen
  <2>r. \A t \in Tasks : t \in S => disk[t] \in Records
    BY <1>t, SlotIsRecord DEF Present, Ticketed
  <2>3. disk' \in [Tasks -> Slots]
        /\ \A u \in Tasks : disk[u] \in Records => disk'[u] \in Records
    <3>1. \A u \in Tasks : disk[u] \in Records => Reset(disk[u]) \in Records  BY RecordChanges
    <3> QED BY <1>t, <2>2, <2>r, <3>1, SlotIsRecord
  <2>4. LaneOrder \in Seq(Tasks)  BY MintAssumption
  <2>5. RestOK'  BY <2>0, <2>3, <2>4, <1>t, <1>n DEF RestOK
  <2>6. LaneOK'  BY <2>0, <2>1, <2>t DEF Sound, LaneOK
  <2>8. \A u \in Tasks : pc'[u] = "idle"  BY <2>0, <2>1
  <2> QED BY <2>0, <2>8, <2>3, <2>5, <2>6, <1>t, QuietIsSound
<1>4. CASE Skip
  <2>0. /\ Quiet /\ queue # <<>> /\ queue' \in {<<>>, Tail(queue)} /\ lane = "run"
        /\ UNCHANGED <<disk, goal, rows, pc, at, obj, listed, lane, worker, buffer, totell, emitted,
                       stopped, minted, calls, missed, torn, passes, reopens, crashes, faults>>
    BY <1>4 DEF Skip, stores, frames, bounds
  <2>1. \A u \in Tasks : pc[u] = "idle"  BY <2>0, <1>q
  <2>2. queue' \in Seq(Tasks)
    <3>1. <<>> \in Seq(Tasks)  OBVIOUS
    <3> QED BY <3>1, <2>0, <1>t, TailOfTasks
  <2>3. \A i \in DOMAIN queue' : \E j \in DOMAIN queue : queue'[i] = queue[j]
    <3>1. CASE queue' = <<>>  BY <3>1
    <3>2. CASE queue' = Tail(queue)  BY <3>2, <2>0, <1>t, TailOfTasks
    <3> QED BY <2>0, <3>1, <3>2
  <2>4. RestOK'  BY <2>0, <2>2, <1>t DEF RestOK
  <2>5. LaneOK'  BY <2>0, <2>1, <2>3 DEF Sound, LaneOK
  <2>8. \A u \in Tasks : pc'[u] = "idle"  BY <2>0, <2>1
  <2> QED BY <2>0, <2>8, <2>4, <2>5, <1>t, QuietIsSound
<1>5. CASE TaskDone
  <2> DEFINE h == Head(queue)
  <2>0. /\ queue # <<>> /\ pc[h] = "done" /\ pc' = AllIdle /\ queue' = Tail(queue) /\ lane = "run"
        /\ \/ worker /\ lane' = "merge" /\ buffer' = <<h>> \o buffer /\ disk' = disk
           \/ ~worker /\ disk' = [disk EXCEPT ![h] = obj[h]] /\ lane' = lane /\ buffer' = buffer
        /\ UNCHANGED <<goal, rows, obj, at, listed, worker, totell, emitted, stopped, minted, calls,
                       missed, torn, passes, reopens, crashes, faults>>
    BY <1>5 DEF TaskDone, bounds
  <2>1. h \in Tasks /\ queue' \in Seq(Tasks)
        /\ \A i \in DOMAIN queue' : \E j \in DOMAIN queue : queue'[i] = queue[j]
    BY <2>0, <1>t, TailOfTasks
  <2> HIDE DEF h
  <2>2. obj[h] \in Records /\ totell = {}  BY <2>0, <2>1 DEF Sound, FramesOK, LaneOK
  <2>3. \A u \in Tasks : pc'[u] = "idle"  BY <2>0 DEF AllIdle
  <2>p. pc' \in [Tasks -> Places]  BY <2>0 DEF AllIdle, Places
  <2>4. disk' \in [Tasks -> Slots]
        /\ \A u \in Tasks : disk[u] \in Records => disk'[u] \in Records
    BY <2>0, <2>1, <2>2, <1>t, SlotIsRecord
  <2>5. buffer' \in Seq(Tasks) /\ \A i \in DOMAIN buffer' : obj[buffer'[i]] \in Records
    <3>1. /\ <<h>> \o buffer \in Seq(Tasks)
          /\ \A i \in DOMAIN (<<h>> \o buffer) :
               (<<h>> \o buffer)[i] = h \/ \E j \in DOMAIN buffer : (<<h>> \o buffer)[i] = buffer[j]
      BY <2>1, <1>t, Prepended
    <3>2. \A j \in DOMAIN buffer : obj[buffer[j]] \in Records  BY DEF Sound, LaneOK
    <3>3. \A i \in DOMAIN (<<h>> \o buffer) : obj[(<<h>> \o buffer)[i]] \in Records
      BY <3>1, <3>2, <2>2
    <3> QED BY <2>0, <1>t, <3>1, <3>2, <3>3
  <2>6. RestOK'  BY <2>0, <2>1, <2>5, <1>t DEF RestOK
  <2>7. LaneOK'  BY <2>0, <2>1, <2>2, <2>3, <2>4, <2>5 DEF Sound, LaneOK
  <2> QED BY <2>0, <2>3, <2>p, <2>4, <2>6, <2>7, QuietIsSound
<1>6. CASE Merge
  <2> DEFINE h == Head(buffer)
  <2>0. /\ buffer # <<>> /\ lane = "merge" /\ disk' = [disk EXCEPT ![h] = Merged(@, obj[h])]
        /\ buffer' = Tail(buffer)
        /\ UNCHANGED <<goal, rows, pc, at, obj, listed, queue, lane, worker, totell, emitted, stopped,
                       minted, calls, missed, torn, passes, reopens, crashes, faults>>
    BY <1>6 DEF Merge, frames, bounds
  <2>1. h \in Tasks /\ buffer' \in Seq(Tasks) /\ obj[h] \in Records
        /\ \A i \in DOMAIN buffer' : \E j \in DOMAIN buffer : buffer'[i] = buffer[j]
    BY <2>0, <1>t, TailOfTasks DEF Sound, LaneOK
  <2> HIDE DEF h
  <2>2. disk[h] \in Records  BY <2>1 DEF Sound, FramesOK
  <2>3. Merged(disk[h], obj[h]) \in Records  BY <2>1, <2>2, RecordChanges
  <2>4. disk' \in [Tasks -> Slots]
        /\ \A u \in Tasks : disk[u] \in Records => disk'[u] \in Records
    BY <2>0, <2>1, <2>3, <1>t, SlotIsRecord
  <2>5. RestOK'  BY <2>0, <2>1, <1>t DEF RestOK
  <2>6. \A u \in Tasks : pc[u] = "idle"  BY <2>0 DEF Sound, LaneOK
  <2>e. totell = {}  BY <2>0 DEF Sound, LaneOK
  <2>7. LaneOK'  BY <2>0, <2>1, <2>4, <2>6, <2>e DEF Sound, LaneOK
  <2>8. \A u \in Tasks : pc'[u] = "idle"  BY <2>0, <2>6
  <2> QED BY <2>0, <2>8, <2>4, <2>5, <2>7, <1>t, QuietIsSound
<1> QED BY <1>1, <1>2, <1>3, <1>4, <1>5, <1>6

LEMMA StepIsSound == Sound /\ [Next]_vars => Sound'
<1> SUFFICES ASSUME Sound, [Next]_vars PROVE Sound'  OBVIOUS
<1>t. TypeOK /\ queue \in Seq(Tasks) /\ listed \in [Tasks -> Slots] /\ disk \in [Tasks -> Slots]
  BY DEF Sound, TypeOK
<1>1. ASSUME NEW t \in Tasks, Frame(t) PROVE Sound'
  <2>1. CASE \/ Resume(t) \/ Bail(t) \/ Count(t) \/ Claim(t) \/ ClaimFails(t) \/ QCFix(t)
             \/ Produced(t) \/ Refuse(t) \/ Commit(t) \/ SkipEmit(t) \/ Emit(t) \/ EmitFails(t)
             \/ Mark(t) \/ Container(t)
    BY <2>1, SeamIsSound
  <2>2. CASE Preserve(t) \/ SettleClaim(t) \/ RunChild(t) \/ ChildDone(t)  BY <2>2, LoopIsSound
  <2> QED BY <1>1, <2>1, <2>2, CreateIsSound, LoadIsSound DEF Frame
<1>2. ASSUME NEW t \in Tasks, Recover(t) PROVE Sound'
  <2>1. disk[t] \in Records /\ disk[t].mint # 0 /\ ~worker
    BY <1>2 DEF Recover, Sound, LaneOK
  <2> QED BY <1>2, <2>1, EnterIsSound DEF Recover, stores, bounds
<1>3. CASE Begin
  <2> DEFINE h == Head(queue)
  <2>1. h \in Tasks /\ h = queue[1] /\ 1 \in DOMAIN queue  BY <1>3, <1>t, TailOfTasks DEF Begin
  <2>2. listed[h] \in Records
    <3>1. listed[h].status = "open"  BY <1>3 DEF Begin
    <3>2. NoRecord.status = "absent"  BY DEF NoRecord
    <3> QED BY <1>t, <2>1, <3>1, <3>2, SlotIsRecord
  <2>3. worker => h = Root  BY <2>1 DEF Sound, LaneOK
  <2>4. disk[h] \in Records  BY <2>1, <2>2 DEF Sound, LaneOK
  <2> QED BY <1>3, <2>1, <2>2, <2>3, <2>4, EnterIsSound DEF Begin, stores, bounds
<1>4. CASE Stop
  <2>1. UNCHANGED <<disk, goal, rows, pc, at, obj, listed, queue, lane, worker, buffer, totell, emitted,
                    minted, calls, missed, torn, passes, reopens, crashes, faults>>
        /\ stopped' = TRUE
    BY <1>4 DEF Stop, stores, frames, bounds
  <2>2. TypeOK'  BY <1>t, <2>1 DEF TypeOK
  <2> QED BY <2>1, <2>2 DEF Sound, FramesOK, LaneOK, Moving
<1>5. CASE UNCHANGED vars
  <2>1. TypeOK'  BY <1>t, <1>5 DEF TypeOK, vars
  <2> QED BY <1>5, <2>1 DEF Sound, FramesOK, LaneOK, Moving, vars
<1> QED BY <1>1, <1>2, <1>3, <1>4, <1>5, LaneIsSound, LaneEndIsSound DEF Next, Work

\* Every state is soundly typed: a frame holds a record, and one frame moves.
THEOREM MintSound == Spec => []Sound
<1> QED BY InitSound, StepIsSound, PTL DEF Spec

\* Each variable keeps its type: in particular a frame never works on a record
\* the store does not have, nor on a child beyond the last
\* (_run_task_with_redo_inner, _run_mint_children).
THEOREM MintTypes == Spec => []TypeOK
<1>1. Sound => TypeOK  BY DEF Sound
<1> QED BY <1>1, MintSound, PTL

-----------------------------------------------------------------------------
(* What is committed stays, and what it is worth. *)

\* Who minted or has its attempt claimed has no budget left.
Full(r) == r.mint # 0 \/ r.claimed => r.spent = Attempts

\* Only the planned task was minted by nobody.
Proper(t, r) == (r.by = 0 <=> t = Root) /\ Full(r)

Backed ==
  \A t \in Tasks :
    /\ disk[t] \in Records => Proper(t, disk[t])
    /\ obj[t] \in Records => Proper(t, obj[t])
    /\ listed[t] \in Records => Proper(t, listed[t])

\* A copy that may be saved in place of the file loses nothing and mints nothing.
Follows(new, old) == Ahead(new, old) /\ new.mint = old.mint

\* While no goal was reopened: no copy in memory is behind its file; who was
\* called has a claim in its file; no child is there without its parent's mint;
\* and the lane has but Root to run.
Ledger ==
  /\ \A t \in Tasks : obj[t] \in Records => Follows(obj[t], disk[t])
  /\ \A t \in Tasks \ {Root} :
       calls[t] <= 1 /\ (calls[t] # 0 => disk[t] \in Records /\ disk[t].claimed)
  /\ \A t \in Tasks \ {Root} : disk[t] \in Records =>
       \E u \in Tasks : t \in KidSet(u) /\ disk[u] \in Records /\ disk[u].mint # 0
  /\ queue = <<>> \/ queue = <<Root>>
  /\ lane # "run" => queue = <<>>
  /\ queue = <<Root>> /\ Quiet => listed[Root] \in Records /\ Follows(listed[Root], disk[Root])

\* A step loses nothing that is in a file.
Kept == \A t \in Tasks : disk[t] \in Records => disk'[t] \in Records /\ Ahead(disk'[t], disk[t])

Sure == Backed /\ (reopens = 0 => Ledger)

LEMMA AheadIsOrder ==
  /\ \A r \in Records : Ahead(r, r) /\ Follows(r, r)
  /\ \A r, q, p \in Records : Ahead(r, q) /\ Ahead(q, p) => Ahead(r, p)
BY SMTT(30), MintAssumption DEF Ahead, Follows, Records

LEMMA InitSure == Init => Sure
<1> USE MintAssumption
<1> SUFFICES ASSUME Init PROVE Sure  OBVIOUS
<1>1. disk[Root] = Fresh(0, 0) /\ \A t \in Tasks \ {Root} : disk[t] \notin Records
  BY SlotIsRecord DEF Init, Nothing
<1>2. \A t \in Tasks : obj[t] \notin Records /\ listed[t] \notin Records
  BY SlotIsRecord DEF Init, Nothing
<1>3. Proper(Root, Fresh(0, 0))  BY DEF Proper, Full, Fresh
<1>4. Backed  BY <1>1, <1>2, <1>3 DEF Backed
<1>5. \A t \in Tasks : calls[t] = 0  BY DEF Init
<1>6. queue = <<>> /\ <<>> # <<Root>>  BY DEF Init
<1>7. Ledger  BY <1>1, <1>2, <1>5, <1>6 DEF Ledger
<1> QED BY <1>4, <1>7 DEF Sure

\* A step changes the object of one task, or nothing, and may save it.
Touches(t, r) ==
  /\ obj[t] \in Records /\ obj' = [obj EXCEPT ![t] = r]
  /\ disk' = disk \/ disk' = [disk EXCEPT ![t] = r]
  /\ r.by = obj[t].by /\ Ahead(r, obj[t]) /\ Full(r)
  /\ r.mint = obj[t].mint \/ disk' = [disk EXCEPT ![t] = r]
  /\ \/ calls' = calls
     \/ /\ calls' = [calls EXCEPT ![t] = @ + 1]
        /\ \/ t = Root
           \/ disk' = [disk EXCEPT ![t] = r] /\ r.claimed /\ ~obj[t].claimed
  /\ UNCHANGED <<listed, reopens>>

LEMMA TouchIsSure ==
  ASSUME Sound, Sure, NEW t \in Tasks, NEW r \in Records, Touches(t, r),
         \/ queue' = queue /\ lane' = lane /\ (~Quiet' \/ lane = "scan")
         \/ queue' = <<>>
  PROVE  Sure' /\ (reopens = 0 => Kept)
<1> USE DEF Touches
<1>t. /\ TypeOK /\ disk[t] \in Records /\ disk \in [Tasks -> Slots] /\ obj \in [Tasks -> Slots]
      /\ calls \in [Tasks -> Nat]
  BY DEF Sound, FramesOK, TypeOK
<1>1. Backed'
  <2>1. Proper(t, r)  BY DEF Sure, Backed, Proper
  <2> QED BY <1>t, <2>1 DEF Sure, Backed
<1>2. ASSUME reopens = 0 PROVE Ledger' /\ Kept
  <2>1. Ledger  BY <1>2 DEF Sure
  <2>2. Ahead(obj[t], disk[t]) /\ obj[t].mint = disk[t].mint  BY <2>1 DEF Ledger, Follows
  <2>3. Ahead(r, disk[t])  BY <1>t, <2>2, AheadIsOrder
  <2>4. Kept  BY <1>t, <2>3, AheadIsOrder DEF Kept
  <2>5. \A u \in Tasks : obj'[u] \in Records => Follows(obj'[u], disk'[u])
    <3>1. Follows(obj'[t], disk'[t])
      <4>1. CASE disk' = disk  BY <1>t, <2>2, <2>3, <4>1 DEF Follows
      <4>2. CASE disk' = [disk EXCEPT ![t] = r]  BY <1>t, <4>2, AheadIsOrder
      <4> QED BY <4>1, <4>2
    <3>2. \A u \in Tasks \ {t} : obj'[u] = obj[u] /\ disk'[u] = disk[u]  BY <1>t
    <3> QED BY <3>1, <3>2, <2>1 DEF Ledger
  <2>6. \A u \in Tasks \ {Root} :
          calls'[u] <= 1 /\ (calls'[u] # 0 => disk'[u] \in Records /\ disk'[u].claimed)
    <3> TAKE u \in Tasks \ {Root}
    <3>1. calls[u] # 0 => disk'[u] \in Records /\ disk'[u].claimed
      BY <2>1, <2>4 DEF Ledger, Kept, Ahead
    <3>2. CASE calls'[u] = calls[u]  BY <3>1, <3>2, <2>1 DEF Ledger
    <3>3. CASE calls'[u] # calls[u]
      <4>1. u = t /\ calls'[u] = calls[u] + 1 /\ disk'[u] = r /\ r.claimed /\ ~obj[u].claimed
        BY <1>t, <3>3
      <4>2. calls[u] = 0  BY <4>1, <2>1, <2>2 DEF Ledger, Ahead
      <4> QED BY <4>1, <4>2
    <3> QED BY <3>2, <3>3
  <2>7. \A u \in Tasks \ {Root} : disk'[u] \in Records =>
          \E v \in Tasks : u \in KidSet(v) /\ disk'[v] \in Records /\ disk'[v].mint # 0
    <3>1. \A u \in Tasks : disk'[u] \in Records => disk[u] \in Records  BY <1>t
    <3>2. \A v \in Tasks : disk[v] \in Records /\ disk[v].mint # 0 => disk'[v].mint # 0
      BY <2>4 DEF Kept, Ahead
    <3> QED BY <3>1, <3>2, <2>1, <2>4 DEF Ledger, Kept
  <2>8. /\ queue' = <<>> \/ queue' = <<Root>>
        /\ lane' # "run" => queue' = <<>>
        /\ ~(queue' = <<Root>> /\ Quiet')
    <3>1. <<>> # <<Root>>  OBVIOUS
    <3> QED BY <2>1, <3>1 DEF Ledger
  <2> QED BY <2>4, <2>5, <2>6, <2>7, <2>8 DEF Ledger, KidSet
<1> QED BY <1>1, <1>2 DEF Sure

\* What the changes of a record are worth.
LEMMA ChangesFollow ==
  ASSUME NEW r \in Records, Full(r)
  PROVE  /\ \A s \in Statuses : LET q == [r EXCEPT !.status = s] IN
              q \in Records /\ q.by = r.by /\ q.mint = r.mint /\ Ahead(q, r) /\ Full(q)
         /\ LET q == [r EXCEPT !.told = TRUE] IN
              q \in Records /\ q.by = r.by /\ q.mint = r.mint /\ Ahead(q, r) /\ Full(q)
         /\ LET q == [r EXCEPT !.laid = TRUE] IN
              q \in Records /\ q.by = r.by /\ q.mint = r.mint /\ Ahead(q, r) /\ Full(q)
         /\ r.mint = 0 /\ r.spent < Attempts => LET q == [r EXCEPT !.spent = @ + 1] IN
              q \in Records /\ q.by = r.by /\ q.mint = r.mint /\ Ahead(q, r) /\ Full(q)
         /\ LET q == Claimed(r) IN
              q \in Records /\ q.by = r.by /\ q.mint = r.mint /\ Ahead(q, r) /\ Full(q) /\ q.claimed
         /\ r.mint = 0 => \A m \in Mints : LET q == Committed(r, m) IN
              q \in Records /\ q.by = r.by /\ q.mint = m /\ Ahead(q, r) /\ Full(q)
         /\ Ahead(r, r)
<1> USE MintAssumption
<1>1. /\ r.spent \in Nat /\ r.spent <= Attempts /\ Ahead(r, r)
  BY AheadIsOrder DEF Records
<1>2. ASSUME NEW s \in Statuses
      PROVE LET q == [r EXCEPT !.status = s] IN
              q \in Records /\ q.by = r.by /\ q.mint = r.mint /\ Ahead(q, r) /\ Full(q)
  <2>1. [r EXCEPT !.status = s] \in Records  BY RecordChanges
  <2> QED BY <1>1, <2>1 DEF Records, Ahead, Full
<1>3. LET q == [r EXCEPT !.told = TRUE] IN
        q \in Records /\ q.by = r.by /\ q.mint = r.mint /\ Ahead(q, r) /\ Full(q)
  <2>1. [r EXCEPT !.told = TRUE] \in Records  BY RecordChanges
  <2> QED BY <1>1, <2>1 DEF Records, Ahead, Full
<1>4. LET q == [r EXCEPT !.laid = TRUE] IN
        q \in Records /\ q.by = r.by /\ q.mint = r.mint /\ Ahead(q, r) /\ Full(q)
  <2>1. [r EXCEPT !.laid = TRUE] \in Records  BY RecordChanges
  <2> QED BY <1>1, <2>1 DEF Records, Ahead, Full
<1>5. ASSUME r.mint = 0, r.spent < Attempts
      PROVE  LET q == [r EXCEPT !.spent = @ + 1] IN
              q \in Records /\ q.by = r.by /\ q.mint = r.mint /\ Ahead(q, r) /\ Full(q)
  <2>1. [r EXCEPT !.spent = @ + 1] \in Records  BY <1>5, RecordChanges
  <2>2. ~r.claimed  BY <1>1, <1>5 DEF Full, Records
  <2>3. [r EXCEPT !.spent = @ + 1].spent >= r.spent  BY <1>1 DEF Records
  <2>4. [r EXCEPT !.spent = @ + 1].by = r.by /\ [r EXCEPT !.spent = @ + 1].mint = r.mint
        /\ [r EXCEPT !.spent = @ + 1].claimed = r.claimed
    BY DEF Records
  <2> QED BY <1>5, <2>1, <2>2, <2>3, <2>4 DEF Ahead, Full
<1>6. LET q == Claimed(r) IN
        q \in Records /\ q.by = r.by /\ q.mint = r.mint /\ Ahead(q, r) /\ Full(q) /\ q.claimed
  <2>1. Claimed(r) \in Records  BY RecordChanges
  <2>2. /\ Claimed(r).by = r.by /\ Claimed(r).mint = r.mint /\ Claimed(r).claimed
        /\ Claimed(r).spent = Attempts
    BY DEF Claimed, Records
  <2> QED BY <1>1, <2>1, <2>2 DEF Ahead, Full
<1>7. ASSUME r.mint = 0, NEW m \in Mints
      PROVE  LET q == Committed(r, m) IN
              q \in Records /\ q.by = r.by /\ q.mint = m /\ Ahead(q, r) /\ Full(q)
  <2>1. Committed(r, m) \in Records  BY RecordChanges
  <2>2. /\ Committed(r, m).by = r.by /\ Committed(r, m).mint = m
        /\ Committed(r, m).claimed = r.claimed /\ Committed(r, m).spent = Attempts
    BY DEF Committed, Records
  <2> QED BY <1>1, <1>7, <2>1, <2>2 DEF Ahead, Full
<1> QED BY <1>1, <1>2, <1>3, <1>4, <1>5, <1>6, <1>7

\* The steps of a frame that change but its own task.
LEMMA SeamIsSure ==
  ASSUME Sound, Sure, NEW t \in Tasks,
         \/ Resume(t) \/ Bail(t) \/ Count(t) \/ Claim(t) \/ ClaimFails(t) \/ QCFix(t)
         \/ Produced(t) \/ Refuse(t) \/ Commit(t) \/ SkipEmit(t) \/ Emit(t) \/ EmitFails(t)
         \/ Mark(t) \/ Container(t)
  PROVE  Sure' /\ (reopens = 0 => Kept)
<1>1. TypeOK /\ obj[t] \in Records /\ obj \in [Tasks -> Slots] /\ pc \in [Tasks -> Places]
  <2>1. pc[t] \in {"enter", "produce", "overflow", "emit", "mark", "loop"}
    BY DEF Resume, Bail, Count, Claim, ClaimFails, QCFix, Produced, Refuse, Commit, SkipEmit,
           Emit, EmitFails, Mark, Container
  <2> QED BY <2>1 DEF Sound, TypeOK, FramesOK
<1>2. obj = [obj EXCEPT ![t] = obj[t]]  BY <1>1
<1>3. Proper(t, obj[t]) /\ Full(obj[t])  BY <1>1 DEF Sure, Backed, Proper
<1>q. \A p \in Places \ {"idle"} : pc' = [pc EXCEPT ![t] = p] => ~Quiet'
  BY <1>1 DEF Quiet, AllIdle
<1>a. ASSUME NEW r \in Records, Touches(t, r), queue' = queue, lane' = lane,
             NEW p \in Places, pc' = [pc EXCEPT ![t] = p], p # "idle" \/ lane = "scan"
      PROVE  Sure' /\ (reopens = 0 => Kept)
  <2>1. ~Quiet' \/ lane = "scan"  BY <1>a, <1>q
  <2> QED BY <1>a, <2>1, TouchIsSure
<1>s. {"completed", "failed"} \subseteq Statuses  BY DEF Statuses
<1>u. /\ \A s \in Statuses : [obj[t] EXCEPT !.status = s] \in Records
      /\ \A s \in Statuses : [obj[t] EXCEPT !.status = s].by = obj[t].by
      /\ \A s \in Statuses : [obj[t] EXCEPT !.status = s].mint = obj[t].mint
      /\ \A s \in Statuses : Ahead([obj[t] EXCEPT !.status = s], obj[t])
      /\ \A s \in Statuses : Full([obj[t] EXCEPT !.status = s])
      /\ Ahead(obj[t], obj[t])
  BY <1>1, <1>3, ChangesFollow
<1>4. CASE Resume(t)
  <2>1. Touches(t, obj[t])  BY <1>1, <1>2, <1>3, <1>4, <1>u DEF Resume, Touches, stores, bounds
  <2> QED BY <1>1, <1>4, <2>1, <1>a DEF Resume, Places
<1>5. CASE Bail(t)
  <2>1. Touches(t, obj[t])  BY <1>1, <1>2, <1>3, <1>5, <1>u DEF Bail, Touches, stores, bounds
  <2> QED BY <1>1, <1>5, <2>1, <1>a DEF Bail, Places
<1>6. CASE Count(t)
  <2> DEFINE r == [obj[t] EXCEPT !.spent = @ + 1]
  <2>1. r \in Records /\ r.by = obj[t].by /\ r.mint = obj[t].mint /\ Ahead(r, obj[t]) /\ Full(r)
    BY <1>1, <1>3, <1>6, ChangesFollow DEF Count
  <2>2. t = Root  BY <1>3, <1>6 DEF Count, Proper
  <2>3. /\ obj' = [obj EXCEPT ![t] = r] /\ pc' = [pc EXCEPT ![t] = "produce"] /\ disk' = disk
        /\ calls' = [calls EXCEPT ![t] = @ + 1] /\ UNCHANGED <<listed, reopens, queue, lane>>
    BY <1>6 DEF Count, Move, stores, bounds
  <2> HIDE DEF r
  <2>c. calls' = [calls EXCEPT ![t] = @ + 1] /\
          (t = Root \/ (disk' = [disk EXCEPT ![t] = r] /\ r.claimed /\ ~obj[t].claimed))
    BY <2>2, <2>3
  <2>m. /\ obj[t] \in Records /\ obj' = [obj EXCEPT ![t] = r]
        /\ disk' = disk \/ disk' = [disk EXCEPT ![t] = r]
        /\ r.by = obj[t].by /\ Ahead(r, obj[t]) /\ Full(r)
        /\ r.mint = obj[t].mint \/ disk' = [disk EXCEPT ![t] = r]
    BY <1>1, <2>1, <2>3, Zenon
  <2>4. Touches(t, r)  BY <2>c, <2>m, <2>3, Zenon DEF Touches
  <2> QED BY <2>1, <2>3, <2>4, <1>a DEF Places
<1>7. CASE Claim(t)
  <2> DEFINE r == Claimed(obj[t])
  <2>1. r \in Records /\ r.by = obj[t].by /\ r.mint = obj[t].mint /\ Ahead(r, obj[t]) /\ Full(r)
        /\ r.claimed
    BY <1>1, <1>3, ChangesFollow
  <2>2. ~obj[t].claimed  BY <1>1, <1>3, <1>7, MintAssumption DEF Claim, Full, Records
  <2>3. /\ obj' = [obj EXCEPT ![t] = r] /\ pc' = [pc EXCEPT ![t] = "produce"]
        /\ disk' = [disk EXCEPT ![t] = r]
        /\ calls' = [calls EXCEPT ![t] = @ + 1] /\ UNCHANGED <<listed, reopens, queue, lane>>
    BY <1>7 DEF Claim, Move, bounds
  <2> HIDE DEF r
  <2>c. calls' = [calls EXCEPT ![t] = @ + 1] /\
          (t = Root \/ (disk' = [disk EXCEPT ![t] = r] /\ r.claimed /\ ~obj[t].claimed))
    BY <2>1, <2>2, <2>3, Zenon
  <2>m. /\ obj[t] \in Records /\ obj' = [obj EXCEPT ![t] = r]
        /\ disk' = disk \/ disk' = [disk EXCEPT ![t] = r]
        /\ r.by = obj[t].by /\ Ahead(r, obj[t]) /\ Full(r)
        /\ r.mint = obj[t].mint \/ disk' = [disk EXCEPT ![t] = r]
    BY <1>1, <2>1, <2>3, Zenon
  <2>4. Touches(t, r)  BY <2>c, <2>m, <2>3, Zenon DEF Touches
  <2> QED BY <2>1, <2>3, <2>4, <1>a DEF Places
<1>8. CASE ClaimFails(t)
  <2> DEFINE q == Claimed(obj[t])
             r == [q EXCEPT !.status = "failed"]
  <2>1. q \in Records /\ q.by = obj[t].by /\ q.mint = obj[t].mint /\ Ahead(q, obj[t]) /\ Full(q)
    BY <1>1, <1>3, ChangesFollow
  <2>d. obj' = [obj EXCEPT ![t] = r]  BY <1>8 DEF ClaimFails, Move
  <2> HIDE DEF q
  <2>2. r \in Records /\ r.by = q.by /\ r.mint = q.mint /\ Ahead(r, q) /\ Full(r)
    BY <2>1, <1>s, ChangesFollow
  <2>3. /\ pc' = [pc EXCEPT ![t] = "done"] /\ disk' = disk
        /\ calls' = calls /\ UNCHANGED <<listed, reopens, queue, lane>>
    BY <1>8 DEF ClaimFails, Move, stores
  <2> HIDE DEF r
  <2>4. Ahead(r, obj[t])  BY <1>1, <2>1, <2>2, AheadIsOrder
  <2>5. Touches(t, r)  BY <1>1, <2>1, <2>2, <2>3, <2>4, <2>d DEF Touches
  <2> QED BY <2>2, <2>3, <2>5, <1>a DEF Places
<1>9. CASE QCFix(t)
  <2>1. \E s \in {"completed", "failed"} :
          Touches(t, obj[t]) \/ Touches(t, [obj[t] EXCEPT !.status = s])
    BY <1>9, <1>1, <1>2, <1>3, <1>s, <1>u DEF QCFix, Settle, Move, Touches, stores, bounds
  <2>2. pc' = [pc EXCEPT ![t] = "done"] /\ UNCHANGED <<queue, lane>>
    BY <1>9 DEF QCFix, Settle, Move
  <2> QED BY <2>1, <2>2, <1>1, <1>s, <1>u, <1>a DEF Places
<1>10. CASE Produced(t)
  <2>1. \/ \E s \in {"completed", "failed"} :
             Touches(t, [obj[t] EXCEPT !.status = s]) /\ pc' = [pc EXCEPT ![t] = "done"]
        \/ \E p \in {"enter", "overflow"} : Touches(t, obj[t]) /\ pc' = [pc EXCEPT ![t] = p]
    BY <1>10, <1>1, <1>2, <1>3, <1>s, <1>u DEF Produced, Settle, Move, Touches, stores, bounds
  <2>2. UNCHANGED <<queue, lane>>  BY <1>10 DEF Produced
  <2> QED BY <2>1, <2>2, <1>1, <1>s, <1>u, <1>a DEF Places
<1>11. CASE Refuse(t)
  <2>1. Touches(t, [obj[t] EXCEPT !.status = "failed"])
    BY <1>11, <1>1, <1>s, <1>u DEF Refuse, Settle, Move, Touches, stores, bounds
  <2>2. pc' = [pc EXCEPT ![t] = "done"] /\ UNCHANGED <<queue, lane>>
    BY <1>11 DEF Refuse, Settle, Move
  <2> QED BY <2>1, <2>2, <1>s, <1>u, <1>a DEF Places
<1>12. CASE Commit(t)
  <2>c. obj[t].mint = 0  BY <1>12 DEF Commit, Sound, FramesOK
  <2> DEFINE r == Committed(obj[t], minted')
  <2>0. minted' \in Mints  BY <1>12, <1>1, MintAssumption DEF Commit, TypeOK, Mints
  <2>1. r \in Records /\ r.by = obj[t].by /\ Ahead(r, obj[t]) /\ Full(r)
    BY <2>0, <2>c, <1>1, <1>3, ChangesFollow
  <2>3. /\ obj' = [obj EXCEPT ![t] = r] /\ pc' = [pc EXCEPT ![t] = "emit"]
        /\ disk' = [disk EXCEPT ![t] = r]
        /\ calls' = calls /\ UNCHANGED <<listed, reopens, queue, lane>>
    BY <1>12 DEF Commit, Move, bounds
  <2> HIDE DEF r
  <2>4. Touches(t, r)  BY <1>1, <2>1, <2>3 DEF Touches
  <2> QED BY <2>1, <2>3, <2>4, <1>a DEF Places
<1>13. CASE SkipEmit(t)
  <2>1. Touches(t, obj[t])  BY <1>1, <1>2, <1>3, <1>13, <1>u DEF SkipEmit, Touches, stores, bounds
  <2> QED BY <1>1, <1>13, <2>1, <1>a DEF SkipEmit, AfterEmit, Places
<1>14. CASE Emit(t)
  <2> DEFINE r == [obj[t] EXCEPT !.told = TRUE]
  <2>1. r \in Records /\ r.by = obj[t].by /\ r.mint = obj[t].mint /\ Ahead(r, obj[t]) /\ Full(r)
    BY <1>1, <1>3, ChangesFollow
  <2>3. /\ obj' = [obj EXCEPT ![t] = r] /\ pc' = [pc EXCEPT ![t] = "mark"]
        /\ disk' = disk /\ calls' = calls /\ UNCHANGED <<listed, reopens, queue, lane>>
    BY <1>14 DEF Emit, Move, bounds
  <2> HIDE DEF r
  <2>4. Touches(t, r)  BY <1>1, <2>1, <2>3 DEF Touches
  <2> QED BY <2>1, <2>3, <2>4, <1>a DEF Places
<1>15. CASE EmitFails(t)
  <2>1. Touches(t, obj[t])  BY <1>1, <1>2, <1>3, <1>15, <1>u DEF EmitFails, Touches, stores
  <2> QED BY <1>1, <1>15, <2>1, <1>a DEF EmitFails, AfterEmit, Places
<1>16. CASE Mark(t)
  <2>1. Touches(t, obj[t])  BY <1>1, <1>2, <1>3, <1>16, <1>u DEF Mark, Touches
  <2> QED BY <1>1, <1>16, <2>1, <1>a DEF Mark, AfterEmit, Places
<1>17. CASE Container(t)
  <2>0. Outcome(t) \in Statuses  BY DEF Outcome, Statuses
  <2>1. Touches(t, [obj[t] EXCEPT !.status = Outcome(t)])
    BY <1>17, <1>1, <2>0, <1>u DEF Container, Settle, Move, Touches, stores, bounds
  <2>2. pc' = [pc EXCEPT ![t] = "done"] /\ UNCHANGED <<queue, lane>>
    BY <1>17 DEF Container, Settle, Move
  <2> QED BY <2>0, <2>1, <2>2, <1>u, <1>a DEF Places
<1> QED BY <1>4, <1>5, <1>6, <1>7, <1>8, <1>9, <1>10, <1>11, <1>12, <1>13, <1>14, <1>15,
           <1>16, <1>17

\* The loop's own steps.
LEMMA LoopIsSure ==
  ASSUME Sound, Sure, NEW t \in Tasks,
         Preserve(t) \/ SettleClaim(t) \/ RunChild(t) \/ ChildDone(t)
  PROVE  Sure' /\ (reopens = 0 => Kept)
<1>1. /\ TypeOK /\ pc[t] \in {"loop", "waiting"} /\ at[t] \in Nat \ {0} /\ at[t] <= Len(Kids[t])
      /\ pc \in [Tasks -> Places] /\ obj \in [Tasks -> Slots]
  BY DEF Preserve, SettleClaim, RunChild, ChildDone, InLoop, Sound, TypeOK, FramesOK
<1> DEFINE k == ChildAt(t)
<1>2. k \in KidSet(t) /\ k \in Tasks  BY <1>1, KidsAreTasks DEF ChildAt
<1>3. obj[k] \in Records  BY <1>1, <1>2 DEF Sound, FramesOK
<1>4. obj = [obj EXCEPT ![k] = obj[k]]  BY <1>1 DEF TypeOK
<1>5. Full(obj[k]) /\ Ahead(obj[k], obj[k])
  BY <1>2, <1>3, AheadIsOrder DEF Sure, Backed, Proper
<1>6. CASE SettleClaim(t)
  <2>1. PICK s \in {"completed", "failed"} :
          obj' = [obj EXCEPT ![k].status = s] /\ Persist(k, [obj[k] EXCEPT !.status = s])
    BY <1>6 DEF SettleClaim
  <2> DEFINE r == [obj[k] EXCEPT !.status = s]
  <2>2. r \in Records /\ r.by = obj[k].by /\ r.mint = obj[k].mint /\ Ahead(r, obj[k]) /\ Full(r)
    <3>1. s \in Statuses  BY DEF Statuses
    <3> QED BY <3>1, <1>3, <1>5, ChangesFollow
  <2>3. /\ obj' = [obj EXCEPT ![k] = r]
        /\ disk' = disk \/ disk' = [disk EXCEPT ![k] = r]
        /\ calls' = calls /\ UNCHANGED <<listed, reopens, queue, lane, pc>> /\ pc[t] = "loop"
    BY <1>6, <2>1 DEF SettleClaim, Persist, InLoop, bounds
  <2> HIDE DEF r
  <2>m. r.mint = obj[k].mint \/ disk' = [disk EXCEPT ![k] = r]  BY <2>2
  <2>4. Touches(k, r)  BY <1>3, <2>2, <2>3, <2>m, Zenon DEF Touches
  <2>5. ~Quiet'  BY <2>3 DEF Quiet, AllIdle
  <2> QED BY <1>2, <2>2, <2>3, <2>4, <2>5, TouchIsSure
<1>7. CASE Preserve(t) \/ RunChild(t) \/ ChildDone(t)
  <2>1. /\ disk' = disk \/ disk' = [disk EXCEPT ![k] = obj[k]]
        /\ obj' = obj /\ calls' = calls /\ UNCHANGED <<listed, reopens, queue, lane>>
    BY <1>7 DEF Preserve, RunChild, ChildDone, Persist, stores, bounds
  <2>2. Touches(k, obj[k])  BY <1>3, <1>4, <1>5, <2>1 DEF Touches
  <2>3. ~Quiet'
    <3>1. CASE Preserve(t)  BY <3>1 DEF Preserve, InLoop, Quiet, AllIdle
    <3>2. CASE RunChild(t)
      <4>1. pc' = [pc EXCEPT ![t] = "waiting", ![k] = "enter"]  BY <3>2 DEF RunChild
      <4>2. pc'[k] = "enter"  BY <4>1, <1>1, <1>2
      <4> QED BY <4>2, <1>2 DEF Quiet, AllIdle
    <3>3. CASE ChildDone(t)
      <4>1. pc' = [pc EXCEPT ![t] = "loop", ![k] = "idle"] /\ pc[t] = "waiting" /\ pc[k] = "done"
        BY <3>3 DEF ChildDone
      <4>2. pc'[t] = "loop"  BY <4>1, <1>1
      <4> QED BY <4>2 DEF Quiet, AllIdle
    <3> QED BY <1>7, <3>1, <3>2, <3>3
  <2> QED BY <1>2, <1>3, <2>1, <2>2, <2>3, TouchIsSure
<1> QED BY <1>6, <1>7

\* A child is laid out with its parent's mint, which is in the parent's file.
LEMMA CreateIsSure ==
  ASSUME Sound, Sure, NEW t \in Tasks, Create(t)
  PROVE  Sure' /\ (reopens = 0 => Kept)
<1> USE MintAssumption
<1>1. PICK i \in DOMAIN Kids[t] :
        disk' = [disk EXCEPT ![Kids[t][i]] = Fresh(obj[t].mint, Attempts - 1)]
        /\ ~Present(Kids[t][i])
  BY DEF Create
<1> DEFINE k == Kids[t][i]
           f == Fresh(obj[t].mint, Attempts - 1)
<1>2. k \in Tasks \ {Root} /\ k \in KidSet(t)  BY DEF KidSet
<1>3. obj[t] \in Records /\ disk[t] \in Records /\ obj[t].mint # 0
      /\ pc[t] # "idle" /\ disk \in [Tasks -> Slots]
  BY DEF Create, Sound, FramesOK, TypeOK
<1>4. f \in Records /\ f.by = obj[t].mint /\ f.mint = 0 /\ ~f.claimed
  <2>1. obj[t].mint \in 0..MaxMints
    <3>1. obj[t] \in Records  BY <1>3
    <3> QED BY <3>1 DEF Records
  <2>2. Attempts - 1 \in 0..Attempts  OBVIOUS
  <2> QED BY <2>1, <2>2, FreshIsRecord DEF Fresh
<1>5. disk[k] \notin Records  BY <1>1, SlotIsRecord DEF Present
<1>6. UNCHANGED <<obj, pc, listed, queue, lane, calls, reopens>>  BY DEF Create, frames, bounds
<1> HIDE DEF k, f
<1>7. disk' = [disk EXCEPT ![k] = f]  BY <1>1 DEF k, f
<1>8. \A u \in Tasks \ {k} : disk'[u] = disk[u]  BY <1>7, <1>3
<1>9. disk'[k] = f  BY <1>7, <1>3, <1>2
<1>10. Proper(k, f)  BY <1>2, <1>3, <1>4 DEF Proper, Full
<1>11. Backed'  BY <1>6, <1>8, <1>9, <1>10 DEF Sure, Backed
<1>12. ASSUME reopens = 0 PROVE Ledger' /\ Kept
  <2>1. Ledger  BY <1>12 DEF Sure
  <2>2. Kept  BY <1>5, <1>8, AheadIsOrder DEF Kept
  <2>3. \A u \in Tasks : obj'[u] \in Records => Follows(obj'[u], disk'[u])
    BY <2>1, <1>5, <1>6, <1>8 DEF Ledger, Sound, FramesOK
  <2>4. \A u \in Tasks \ {Root} :
          calls'[u] <= 1 /\ (calls'[u] # 0 => disk'[u] \in Records /\ disk'[u].claimed)
    BY <2>1, <1>5, <1>6, <1>8 DEF Ledger
  <2>5. \A u \in Tasks \ {Root} : disk'[u] \in Records =>
          \E v \in Tasks : u \in KidSet(v) /\ disk'[v] \in Records /\ disk'[v].mint # 0
    <3>1. disk'[t] = disk[t] /\ disk[t].mint # 0
      BY <2>1, <1>3, <1>5, <1>8 DEF Ledger, Follows
    <3>2. \A v \in Tasks : disk[v] \in Records => disk'[v] = disk[v]  BY <1>5, <1>8
    <3> QED BY ZenonT(60), <2>1, <3>1, <3>2, <1>2, <1>3, <1>8 DEF Ledger
  <2>6. ~Quiet'  BY <1>3, <1>6 DEF Quiet, AllIdle
  <2> QED BY <2>1, <2>2, <2>3, <2>4, <2>5, <2>6, <1>6 DEF Ledger, KidSet
<1> QED BY <1>11, <1>12, <1>6 DEF Sure

\* The loop's copies are those of the store, and the parent's only gains.
LEMMA LoadIsSure ==
  ASSUME Sound, Sure, NEW t \in Tasks, Load(t)
  PROVE  Sure' /\ (reopens = 0 => Kept)
<1> DEFINE p == [obj[t] EXCEPT !.laid = TRUE]
<1>1. obj[t] \in Records /\ disk[t] \in Records /\ disk \in [Tasks -> Slots]
      /\ obj \in [Tasks -> Slots] /\ pc \in [Tasks -> Places]
  BY DEF Load, Sound, FramesOK, TypeOK
<1>2. p \in Records /\ p.by = obj[t].by /\ p.mint = obj[t].mint /\ Ahead(p, obj[t]) /\ Full(p)
  BY <1>1, ChangesFollow DEF Sure, Backed, Proper
<1>4. /\ obj' = [u \in Tasks |-> IF u = t THEN p ELSE IF u \in KidSet(t) THEN disk[u] ELSE obj[u]]
      /\ pc' = [pc EXCEPT ![t] = "loop"]
      /\ disk' = disk \/ disk' = [disk EXCEPT ![t] = p]
      /\ UNCHANGED <<listed, queue, lane, calls, reopens>>
  BY DEF Load, Fault
<1> HIDE DEF p
<1>5. Proper(t, p)  BY <1>1, <1>2 DEF Sure, Backed, Proper
<1>6. \A u \in Tasks \ {t} : disk'[u] = disk[u] /\ (obj'[u] = disk[u] \/ obj'[u] = obj[u])
  BY <1>1, <1>4
<1>7. obj'[t] = p /\ (disk'[t] = disk[t] \/ disk'[t] = p)  BY <1>1, <1>4
<1>8. Backed'  BY <1>4, <1>5, <1>6, <1>7 DEF Sure, Backed
<1>9. ASSUME reopens = 0 PROVE Ledger' /\ Kept
  <2>1. Ledger  BY <1>9 DEF Sure
  <2>2. Ahead(obj[t], disk[t]) /\ obj[t].mint = disk[t].mint  BY <1>1, <2>1 DEF Ledger, Follows
  <2>3. Follows(p, disk[t])  BY <1>1, <1>2, <2>2, AheadIsOrder DEF Follows
  <2>4. Kept
    <3>1. Ahead(p, disk[t])  BY <2>3 DEF Follows
    <3> QED BY <1>2, <1>6, <1>7, <3>1, AheadIsOrder DEF Kept
  <2>5. \A u \in Tasks : obj'[u] \in Records => Follows(obj'[u], disk'[u])
    <3>1. Follows(p, disk'[t])  BY <1>2, <1>7, <2>3, AheadIsOrder
    <3>2. \A u \in Tasks \ {t} : obj'[u] \in Records => Follows(obj'[u], disk'[u])
      BY <1>6, <2>1, AheadIsOrder DEF Ledger
    <3> QED BY <1>7, <3>1, <3>2
  <2>6. \A u \in Tasks \ {Root} :
          calls'[u] <= 1 /\ (calls'[u] # 0 => disk'[u] \in Records /\ disk'[u].claimed)
    BY <2>1, <2>4, <1>4 DEF Ledger, Kept, Ahead
  <2>7. \A u \in Tasks \ {Root} : disk'[u] \in Records =>
          \E v \in Tasks : u \in KidSet(v) /\ disk'[v] \in Records /\ disk'[v].mint # 0
    <3>1. \A u \in Tasks : disk'[u] \in Records => disk[u] \in Records  BY <1>1, <1>6
    <3>2. \A v \in Tasks : disk[v] \in Records /\ disk[v].mint # 0 => disk'[v].mint # 0
      BY <2>4 DEF Kept, Ahead
    <3> QED BY <3>1, <3>2, <2>1, <2>4 DEF Ledger, Kept
  <2>8. ~Quiet'  BY <1>1, <1>4 DEF Quiet, AllIdle
  <2> QED BY <2>1, <2>4, <2>5, <2>6, <2>7, <2>8, <1>4 DEF Ledger, KidSet
<1> QED BY <1>8, <1>9, <1>4 DEF Sure

\* A run that lets go of everything: what is in the files loses nothing, and no
\* file comes about.
LEMMA ForgetIsSure ==
  ASSUME Sound, Sure, Forget, Kept, UNCHANGED <<calls, reopens>>,
         \A t \in Tasks : disk'[t] \in Records => disk[t] \in Records /\ Proper(t, disk'[t])
  PROVE  Sure'
<1>1. \A t \in Tasks : obj'[t] \notin Records /\ listed'[t] \notin Records
  BY SlotIsRecord DEF Forget, Nothing
<1>2. queue' = <<>> /\ <<>> # <<Root>>  BY DEF Forget
<1>3. Backed'  BY <1>1 DEF Backed
<1>4. ASSUME reopens = 0 PROVE Ledger'
  <2>1. Ledger  BY <1>4 DEF Sure
  <2>2. \A t \in Tasks \ {Root} :
          calls'[t] <= 1 /\ (calls'[t] # 0 => disk'[t] \in Records /\ disk'[t].claimed)
    BY <2>1 DEF Ledger, Kept, Ahead
  <2>3. \A t \in Tasks : disk[t] \in Records /\ disk[t].mint # 0
                           => disk'[t] \in Records /\ disk'[t].mint # 0
    BY DEF Kept, Ahead
  <2>4. \A t \in Tasks \ {Root} : disk'[t] \in Records =>
          \E u \in Tasks : t \in KidSet(u) /\ disk'[u] \in Records /\ disk'[u].mint # 0
    BY <2>1, <2>3 DEF Ledger
  <2> QED BY <1>1, <1>2, <2>2, <2>4 DEF Ledger, KidSet
<1> QED BY <1>3, <1>4 DEF Sure

\* Files that stay as they are lose nothing.
LEMMA SameIsKept ==
  ASSUME Sure, disk' = disk
  PROVE  /\ Kept
         /\ \A t \in Tasks : disk'[t] \in Records => disk[t] \in Records /\ Proper(t, disk'[t])
<1>1. Kept  BY AheadIsOrder DEF Kept
<1> QED BY <1>1 DEF Sure, Backed

LEMMA EscapeIsSure ==
  ASSUME Sound, Sure, Escape, disk' = disk, UNCHANGED <<calls, reopens>>,
         \E t \in Tasks : pc[t] # "idle"
  PROVE  Sure' /\ (reopens = 0 => Kept)
<1>1. CASE ~worker
  <2>1. Forget  BY <1>1 DEF Escape, SettleOnFatal
  <2> QED BY <2>1, SameIsKept, ForgetIsSure
<1>2. CASE worker
  <2>1. obj[Root] \in Records /\ Root \in Tasks  BY <1>2, MintAssumption DEF Sound, LaneOK
  <2> DEFINE r == [obj[Root] EXCEPT !.status = "failed"]
  <2>2. Full(obj[Root])  BY <2>1 DEF Sure, Backed, Proper
  <2>3. r \in Records /\ r.by = obj[Root].by /\ r.mint = obj[Root].mint /\ Ahead(r, obj[Root])
        /\ Full(r)
    <3>1. "failed" \in Statuses  BY DEF Statuses
    <3> QED BY <3>1, <2>1, <2>2, ChangesFollow
  <2>4. obj' = [obj EXCEPT ![Root] = r] /\ queue' = <<>> /\ listed' = listed
    BY <1>2 DEF Escape
  <2> HIDE DEF r
  <2>5. Touches(Root, r)  BY <2>1, <2>3, <2>4 DEF Touches
  <2> QED BY <2>1, <2>3, <2>4, <2>5, TouchIsSure
<1> QED BY <1>1, <1>2

\* The files stay as they are, and so do the objects but one, taken from its file
\* or from a list that is not behind it.
LEMMA EnterIsSure ==
  ASSUME Sound, Sure, NEW t \in Tasks, NEW r \in Records, disk[t] \in Records, Proper(t, r),
         reopens = 0 => Follows(r, disk[t]),
         obj' = [obj EXCEPT ![t] = r], ~Quiet',
         UNCHANGED <<disk, listed, queue, lane, calls, reopens>>
  PROVE  Sure' /\ (reopens = 0 => Kept)
<1>1. obj \in [Tasks -> Slots]  BY DEF Sound, TypeOK
<1>2. obj'[t] = r /\ \A u \in Tasks \ {t} : obj'[u] = obj[u]  BY <1>1
<1>3. Backed'  BY <1>2 DEF Sure, Backed
<1>4. reopens = 0 => Ledger'  BY <1>2 DEF Sure, Ledger, KidSet
<1>5. Kept  BY AheadIsOrder DEF Kept
<1> QED BY <1>3, <1>4, <1>5 DEF Sure

LEMMA MergedFollows ==
  ASSUME NEW cur \in Records, NEW new \in Records, Full(cur), Full(new)
  PROVE  LET q == Merged(cur, new) IN
           /\ q \in Records /\ q.by \in {cur.by, new.by} /\ Ahead(q, cur) /\ Full(q)
           /\ Follows(new, cur) => Follows(new, q)
<1> USE MintAssumption
<1>1. Merged(cur, new) \in Records  BY RecordChanges
<1>2. /\ cur.spent \in Nat /\ cur.spent <= Attempts /\ new.spent \in Nat /\ new.spent <= Attempts
      /\ cur.claimed \in BOOLEAN /\ new.claimed \in BOOLEAN
  BY DEF Records
<1>3. CASE Terminal(cur) /\ ~Terminal(new)
  <2>1. Merged(cur, new) = cur  BY <1>3 DEF Merged
  <2> QED BY <1>1, <2>1, AheadIsOrder
<1>4. CASE ~(Terminal(cur) /\ ~Terminal(new))
  <2> DEFINE q == Merged(cur, new)
  <2>1. /\ q.by = new.by /\ q.claimed = (new.claimed \/ cur.claimed)
        /\ q.spent = (IF cur.spent > new.spent THEN cur.spent ELSE new.spent)
        /\ q.mint = (IF cur.mint # 0 THEN cur.mint ELSE new.mint)
    BY <1>4 DEF Merged, Records
  <2> HIDE DEF q
  <2>2. Ahead(q, cur)  BY <1>2, <2>1 DEF Ahead
  <2>3. Full(q)  BY <1>2, <2>1 DEF Full
  <2>4. ASSUME Follows(new, cur) PROVE Follows(new, q)
    <3>1. new.mint = cur.mint /\ (cur.claimed => new.claimed) /\ new.spent >= cur.spent
      BY <2>4 DEF Follows, Ahead
    <3>2. q.mint = new.mint /\ q.spent = new.spent /\ (q.claimed => new.claimed)
      BY <3>1, <1>2, <2>1
    <3> QED BY <3>2, <1>2 DEF Follows, Ahead
  <2> QED BY <1>1, <2>1, <2>2, <2>3, <2>4 DEF q
<1> QED BY <1>3, <1>4

\* The file of one task is replaced by one that lost nothing of it, and of which
\* the objects lost nothing.
LEMMA SaveIsSure ==
  ASSUME Sound, Sure, NEW t \in Tasks, NEW q \in Records, disk[t] \in Records,
         disk' = [disk EXCEPT ![t] = q], obj' = obj, UNCHANGED <<calls, reopens>>,
         Proper(t, q), Ahead(q, disk[t]),
         obj[t] \in Records => (Follows(obj[t], disk[t]) => Follows(obj[t], q)),
         \A u \in Tasks : listed'[u] \in Records => Proper(u, listed'[u]),
         reopens = 0 =>
           /\ queue' = <<>> \/ queue' = <<Root>>
           /\ lane' # "run" => queue' = <<>>
           /\ queue' = <<Root>> /\ Quiet' => listed'[Root] \in Records
                                            /\ Follows(listed'[Root], disk'[Root])
  PROVE  Sure' /\ (reopens = 0 => Kept)
<1>1. disk \in [Tasks -> Slots]  BY DEF Sound, TypeOK
<1>2. disk'[t] = q /\ \A u \in Tasks \ {t} : disk'[u] = disk[u]  BY <1>1
<1>3. Backed'  BY <1>2 DEF Sure, Backed
<1>4. Kept  BY <1>2, AheadIsOrder DEF Kept
<1>5. ASSUME reopens = 0 PROVE Ledger'
  <2>1. Ledger  BY <1>5 DEF Sure
  <2>2. \A u \in Tasks : obj'[u] \in Records => Follows(obj'[u], disk'[u])
    BY <1>2, <2>1 DEF Ledger
  <2>3. \A u \in Tasks \ {Root} :
          calls'[u] <= 1 /\ (calls'[u] # 0 => disk'[u] \in Records /\ disk'[u].claimed)
    BY <2>1, <1>4 DEF Ledger, Kept, Ahead
  <2>4. \A u \in Tasks \ {Root} : disk'[u] \in Records =>
          \E v \in Tasks : u \in KidSet(v) /\ disk'[v] \in Records /\ disk'[v].mint # 0
    <3>1. \A u \in Tasks : disk'[u] \in Records => disk[u] \in Records  BY <1>2
    <3>2. \A v \in Tasks : disk[v] \in Records /\ disk[v].mint # 0 => disk'[v].mint # 0
      BY <1>4 DEF Kept, Ahead
    <3> QED BY <3>1, <3>2, <2>1, <1>4 DEF Ledger, Kept
  <2> QED BY <1>5, <2>2, <2>3, <2>4 DEF Ledger, KidSet
<1> QED BY <1>3, <1>4, <1>5 DEF Sure

\* None of what the invariant is about changes but the list of what is to run,
\* which becomes empty or stays.
LEMMA StillIsSure ==
  ASSUME Sure, UNCHANGED <<disk, obj, listed, calls, reopens>>,
         reopens = 0 => \/ queue' = queue /\ lane' = lane /\ pc' = pc
                        \/ queue' = <<>>
                        \/ queue' = queue /\ lane # "run"
  PROVE  Sure' /\ (reopens = 0 => Kept)
<1>1. Backed'  BY DEF Sure, Backed
<1>2. <<>> # <<Root>>  OBVIOUS
<1>3. reopens = 0 => Ledger'
  <2>1. pc' = pc => (Quiet' <=> Quiet)  BY DEF Quiet, AllIdle
  <2> QED BY <1>2, <2>1 DEF Sure, Ledger, KidSet
<1>4. Kept  BY AheadIsOrder DEF Kept
<1> QED BY <1>1, <1>3, <1>4 DEF Sure

LEMMA ResetFollows ==
  ASSUME NEW r \in Records
  PROVE  /\ Reset(r) \in Records /\ Follows(Reset(r), r) /\ Follows(r, Reset(r))
         /\ \A t \in Tasks : Proper(t, r) => Proper(t, Reset(r))
<1>1. Reset(r) \in Records  BY RecordChanges
<1>2. /\ Reset(r).by = r.by /\ Reset(r).mint = r.mint /\ Reset(r).claimed = r.claimed
      /\ Reset(r).spent = r.spent
  BY DEF Reset, Records
<1>3. r.spent \in Nat  BY MintAssumption DEF Records
<1> QED BY <1>1, <1>2, <1>3 DEF Follows, Ahead, Proper, Full

LEMMA FollowsIsOrder ==
  \A r, q, p \in Records : Follows(r, q) /\ Follows(q, p) => Follows(r, p)
BY AheadIsOrder DEF Follows

LEMMA TailOfOne == Tail(<<Root>>) = <<>> /\ Head(<<Root>>) = Root
OBVIOUS

\* The steps of the lanes, but those that end one.
LEMMA LaneIsSure ==
  ASSUME Sound, Sure,
         \/ Kickoff \/ Dispatch \/ Reopen \/ Begin \/ Skip \/ TaskDone \/ Merge \/ Stop
         \/ \E t \in Tasks : Recover(t)
  PROVE  Sure' /\ (reopens' = 0 => Kept)
<1>t. /\ Root \in Tasks /\ disk[Root] \in Records /\ disk \in [Tasks -> Slots]
      /\ listed \in [Tasks -> Slots] /\ pc \in [Tasks -> Places] /\ obj \in [Tasks -> Slots]
      /\ queue \in Seq(Tasks) /\ buffer \in Seq(Tasks) /\ reopens \in Nat
  BY MintAssumption DEF Sound, TypeOK, FramesOK
<1>z. reopens' = 0 /\ ~Reopen => reopens = 0
  BY DEF Kickoff, Dispatch, Begin, Skip, TaskDone, Merge, Stop, Recover, bounds
<1>b. /\ \A t \in Tasks : disk[t] \in Records => Proper(t, disk[t])
      /\ \A t \in Tasks : obj[t] \in Records => Proper(t, obj[t])
      /\ \A t \in Tasks : listed[t] \in Records => Proper(t, listed[t])
  BY DEF Sure, Backed
<1>p. \A t \in Tasks, r \in Records : Proper(t, r) => Full(r)  BY DEF Proper
<1>1. CASE Kickoff
  <2>1. UNCHANGED <<disk, obj, listed, calls, reopens, queue>> /\ lane = "idle"
    BY <1>1 DEF Kickoff, stores, frames
  <2> QED BY <2>1, <1>z, StillIsSure
<1>2. CASE \E t \in Tasks : Recover(t)
  <2>1. PICK t \in Tasks : Recover(t)  BY <1>2
  <2>2. disk[t] \in Records  BY <2>1 DEF Recover, Sound, LaneOK
  <2>3. /\ obj' = [obj EXCEPT ![t] = disk[t]] /\ pc' = [pc EXCEPT ![t] = "emit"]
        /\ UNCHANGED <<disk, listed, queue, lane, calls, reopens>>
    BY <2>1 DEF Recover, Move, stores, bounds
  <2>4. ~Quiet'  BY <1>t, <2>3 DEF Quiet, AllIdle
  <2>5. Follows(disk[t], disk[t])  BY <2>2, AheadIsOrder
  <2> QED BY <2>2, <2>3, <2>4, <2>5, <1>b, EnterIsSure
<1>3. CASE Dispatch
  <2>1. /\ disk' = [disk EXCEPT ![Root] = Reset(disk[Root])] /\ queue' = <<Root>> /\ lane' = "run"
        /\ listed' = [Nothing EXCEPT ![Root] = Reset(disk[Root])]
        /\ UNCHANGED <<obj, calls, reopens>>
    BY <1>3 DEF Dispatch, frames, bounds
  <2> DEFINE q == Reset(disk[Root])
  <2>2. /\ q \in Records /\ Proper(Root, q) /\ Follows(q, disk[Root]) /\ Follows(disk[Root], q)
        /\ Ahead(q, disk[Root]) /\ Follows(q, q)
    BY <1>t, <1>b, ResetFollows, AheadIsOrder DEF Follows
  <2> HIDE DEF q
  <2>3. /\ listed' = [Nothing EXCEPT ![Root] = q] /\ disk' = [disk EXCEPT ![Root] = q]
    BY <2>1 DEF q
  <2>4. listed'[Root] = q /\ disk'[Root] = q  BY <1>t, <2>3 DEF Nothing
  <2>5. \A u \in Tasks : listed'[u] \in Records => Proper(u, listed'[u])
    BY <1>t, <2>2, <2>3, SlotIsRecord DEF Nothing
  <2>6. obj[Root] \in Records => (Follows(obj[Root], disk[Root]) => Follows(obj[Root], q))
    BY <1>t, <2>2, FollowsIsOrder
  <2> QED BY <1>t, <1>z, <2>1, <2>2, <2>3, <2>4, <2>5, <2>6, SaveIsSure
<1>4. CASE Reopen
  <2>1. PICK S \in SUBSET Ticketed :
          disk' = [t \in Tasks |-> IF t \in S THEN Reset(disk[t]) ELSE disk[t]]
    BY <1>4 DEF Reopen
  <2>2. \A t \in Tasks : t \in S => disk[t] \in Records
    BY <1>t, SlotIsRecord DEF Present, Ticketed
  <2>3. obj' = obj /\ listed' = disk' /\ reopens' = reopens + 1  BY <1>4 DEF Reopen, frames
  <2>4. reopens' # 0  BY <1>t, <2>3
  <2>5. \A t \in Tasks : disk'[t] \in Records => Proper(t, disk'[t])
    BY <1>b, <2>1, <2>2, ResetFollows
  <2>6. Backed'  BY <1>b, <2>3, <2>5 DEF Backed
  <2> QED BY <2>4, <2>6 DEF Sure
<1>5. CASE Begin
  <2> DEFINE h == Head(queue)
  <2>1. /\ h \in Tasks /\ queue # <<>> /\ Quiet
    BY <1>5, <1>t, TailOfTasks DEF Begin
  <2>2. listed[h] \in Records
    <3>1. listed[h].status = "open"  BY <1>5 DEF Begin
    <3>2. NoRecord.status = "absent"  BY DEF NoRecord
    <3> QED BY <1>t, <2>1, <3>1, <3>2, SlotIsRecord
  <2>3. disk[h] \in Records  BY <2>1, <2>2 DEF Sound, LaneOK
  <2>4. reopens = 0 => Follows(listed[h], disk[h])
    <3>1. reopens = 0 => queue = <<Root>>  BY <2>1 DEF Sure, Ledger
    <3> QED BY <2>1, <3>1, TailOfOne DEF Sure, Ledger
  <2>5. /\ obj' = [obj EXCEPT ![h] = listed[h]] /\ pc' = [pc EXCEPT ![h] = "enter"]
        /\ UNCHANGED <<disk, listed, queue, lane, calls, reopens>>
    BY <1>5 DEF Begin, Move, stores, bounds
  <2> HIDE DEF h
  <2>6. ~Quiet'  BY <1>t, <2>1, <2>5 DEF Quiet, AllIdle
  <2> QED BY <2>1, <2>2, <2>3, <2>4, <2>5, <2>6, <1>b, EnterIsSure
<1>6. CASE Skip
  <2>1. /\ queue # <<>> /\ queue' \in {<<>>, Tail(queue)}
        /\ UNCHANGED <<disk, obj, listed, calls, reopens>>
    BY <1>6 DEF Skip, stores, frames, bounds
  <2>2. reopens = 0 => queue' = <<>>  BY <2>1, TailOfOne DEF Sure, Ledger
  <2> QED BY <1>z, <2>1, <2>2, StillIsSure
<1>7. CASE TaskDone
  <2> DEFINE h == Head(queue)
  <2>1. /\ queue # <<>> /\ pc[h] = "done" /\ queue' = Tail(queue)
        /\ disk' = disk \/ disk' = [disk EXCEPT ![h] = obj[h]]
        /\ UNCHANGED <<obj, listed, calls, reopens>>
    BY <1>7 DEF TaskDone, bounds
  <2>2. h \in Tasks /\ (reopens = 0 => queue' = <<>> /\ <<>> # <<Root>>)
    BY <1>t, <2>1, TailOfTasks, TailOfOne DEF Sure, Ledger
  <2> HIDE DEF h
  <2>3. obj[h] \in Records /\ disk[h] \in Records  BY <2>1, <2>2 DEF Sound, FramesOK
  <2>4. CASE disk' = disk  BY <1>z, <2>1, <2>2, <2>4, StillIsSure
  <2>5. CASE disk' = [disk EXCEPT ![h] = obj[h]] /\ reopens = 0
    <3>1. Ahead(obj[h], disk[h])  BY <2>2, <2>3, <2>5 DEF Sure, Ledger, Follows
    <3>2. Follows(obj[h], obj[h])  BY <2>3, AheadIsOrder
    <3>3. Proper(h, obj[h])  BY <1>b, <2>2, <2>3
    <3>4. \A u \in Tasks : listed'[u] \in Records => Proper(u, listed'[u])  BY <1>b, <2>1
    <3> QED BY <2>1, <2>2, <2>3, <2>5, <3>1, <3>2, <3>3, <3>4, SaveIsSure
  <2>6. CASE disk' = [disk EXCEPT ![h] = obj[h]] /\ reopens # 0
    <3>1. Backed'  BY <1>b, <1>t, <2>1, <2>2, <2>6 DEF Backed
    <3> QED BY <2>1, <2>6, <3>1 DEF Sure
  <2> QED BY <2>1, <2>4, <2>5, <2>6
<1>8. CASE Merge
  <2> DEFINE h == Head(buffer)
  <2>1. /\ buffer # <<>> /\ disk' = [disk EXCEPT ![h] = Merged(disk[h], obj[h])] /\ lane = "merge"
        /\ UNCHANGED <<obj, listed, queue, lane, pc, calls, reopens>>
    BY <1>8 DEF Merge, frames, bounds
  <2>2. h \in Tasks /\ obj[h] \in Records
    BY <2>1, <1>t, TailOfTasks DEF Sound, LaneOK
  <2> HIDE DEF h
  <2>3. disk[h] \in Records  BY <2>2 DEF Sound, FramesOK
  <2> DEFINE q == Merged(disk[h], obj[h])
  <2>4. Proper(h, disk[h]) /\ Proper(h, obj[h])  BY <1>b, <2>2, <2>3
  <2>5. /\ q \in Records /\ q.by \in {disk[h].by, obj[h].by} /\ Ahead(q, disk[h]) /\ Full(q)
        /\ Follows(obj[h], disk[h]) => Follows(obj[h], q)
    BY <2>2, <2>3, <2>4, <1>p, MergedFollows
  <2>6. disk' = [disk EXCEPT ![h] = q]  BY <2>1
  <2> HIDE DEF q
  <2>7. Proper(h, q)  BY <2>4, <2>5 DEF Proper
  <2>8. \A u \in Tasks : listed'[u] \in Records => Proper(u, listed'[u])  BY <1>b, <2>1
  <2>9. reopens = 0 => queue' = <<>> /\ <<>> # <<Root>>  BY <2>1 DEF Sure, Ledger
  <2> QED BY <2>1, <2>2, <2>3, <2>5, <2>6, <2>7, <2>8, <2>9, SaveIsSure
<1>9. CASE Stop
  <2>1. UNCHANGED <<disk, obj, listed, calls, reopens, queue, lane, pc>>
    BY <1>9 DEF Stop, stores, frames, bounds
  <2> QED BY <1>z, <2>1, StillIsSure
<1> QED BY <1>1, <1>2, <1>3, <1>4, <1>5, <1>6, <1>7, <1>8, <1>9

\* A teardown takes nothing back.
LEMMA TeardownIsKept ==
  ASSUME Sound, Sure, Teardown
  PROVE  /\ Kept
         /\ \A t \in Tasks : disk'[t] \in Records => disk[t] \in Records /\ Proper(t, disk'[t])
<1>1. PICK S \in SUBSET Tasks :
        /\ \A t \in S : disk[t] \in Records
        /\ disk' = [t \in Tasks |-> IF t \in S THEN [disk[t] EXCEPT !.status = "abandoned"]
                                    ELSE disk[t]]
  BY TeardownWrites
<1>2. \A t \in Tasks : disk[t] \in Records => Proper(t, disk[t])  BY DEF Sure, Backed
<1>3. ASSUME NEW t \in S
      PROVE  disk'[t] \in Records /\ Ahead(disk'[t], disk[t]) /\ Proper(t, disk'[t])
  <2> DEFINE q == [disk[t] EXCEPT !.status = "abandoned"]
  <2>1. t \in Tasks /\ disk[t] \in Records /\ Proper(t, disk[t]) /\ Full(disk[t])
    BY <1>1, <1>2 DEF Proper
  <2>2. q \in Records /\ q.by = disk[t].by /\ Ahead(q, disk[t]) /\ Full(q)
    <3>1. "abandoned" \in Statuses  BY DEF Statuses
    <3> QED BY <3>1, <2>1, ChangesFollow
  <2>3. disk'[t] = q  BY <1>1
  <2> HIDE DEF q
  <2> QED BY <2>1, <2>2, <2>3 DEF Proper
<1>4. \A t \in Tasks \ S : disk'[t] = disk[t]  BY <1>1
<1> QED BY <1>1, <1>2, <1>3, <1>4, AheadIsOrder DEF Kept

LEMMA StepIsSure == Sound /\ Sure /\ [Next]_vars => Sure' /\ (reopens' = 0 => Kept)
<1> SUFFICES ASSUME Sound, Sure, [Next]_vars PROVE Sure' /\ (reopens' = 0 => Kept)
  OBVIOUS
<1>1. ASSUME NEW t \in Tasks, Frame(t) PROVE Sure' /\ (reopens' = 0 => Kept)
  <2>1. reopens' = reopens
    BY <1>1 DEF Frame, Resume, Bail, Count, Claim, ClaimFails, QCFix, Produced, Refuse, Commit,
                SkipEmit, Emit, EmitFails, Mark, Create, Load, Preserve, SettleClaim, RunChild,
                ChildDone, Container, bounds
  <2>2. CASE \/ Resume(t) \/ Bail(t) \/ Count(t) \/ Claim(t) \/ ClaimFails(t) \/ QCFix(t)
             \/ Produced(t) \/ Refuse(t) \/ Commit(t) \/ SkipEmit(t) \/ Emit(t) \/ EmitFails(t)
             \/ Mark(t) \/ Container(t)
    BY <2>1, <2>2, SeamIsSure
  <2>3. CASE Preserve(t) \/ SettleClaim(t) \/ RunChild(t) \/ ChildDone(t)
    BY <2>1, <2>3, LoopIsSure
  <2> QED BY <1>1, <2>1, <2>2, <2>3, CreateIsSure, LoadIsSure DEF Frame
<1>2. CASE LaneEnds \/ Crash
  <2>1. Forget /\ disk' = disk /\ UNCHANGED <<calls, reopens>>
    BY <1>2 DEF LaneEnds, Crash, stores, bounds
  <2> QED BY <2>1, SameIsKept, ForgetIsSure
<1>3. CASE Teardown
  <2>1. Forget /\ UNCHANGED <<calls, reopens>>  BY <1>3 DEF Teardown
  <2>2. Kept /\ \A t \in Tasks : disk'[t] \in Records => disk[t] \in Records /\ Proper(t, disk'[t])
    BY <1>3, TeardownIsKept
  <2> QED BY <2>1, <2>2, ForgetIsSure
<1>4. CASE Foreign \/ Raise
  <2>1. Escape /\ disk' = disk /\ UNCHANGED <<calls, reopens>> /\ \E t \in Tasks : pc[t] # "idle"
    BY <1>4 DEF Foreign, Raise, stores, bounds
  <2> QED BY <2>1, EscapeIsSure
<1>5. CASE UNCHANGED vars
  <2>1. UNCHANGED <<disk, obj, listed, calls, reopens, queue, lane, pc>>  BY <1>5 DEF vars
  <2> QED BY <2>1, StillIsSure
<1> QED BY <1>1, <1>2, <1>3, <1>4, <1>5, LaneIsSure DEF Next, Work

\* The two invariants together.
THEOREM MintSure == Spec => [](Sound /\ Sure)
<1>1. Init => Sound /\ Sure  BY InitSound, InitSure
<1>2. Sound /\ Sure /\ [Next]_vars => (Sound /\ Sure)'  BY StepIsSound, StepIsSure
<1> QED BY <1>1, <1>2, PTL DEF Spec

\* As long as no lane that lists a whole goal has run, a minted child has its
\* producer called at most once, over any number of crashes, failed saves and
\* replays (_claim_and_count, _run_mint_children, save_task_monotonic).
THEOREM AttemptOnce == Spec => []ReplayAttemptsOnce
<1>1. Sure => ReplayAttemptsOnce
  BY DEF Sure, Ledger, ReplayAttemptsOnce, AttemptedOnce
<1> QED BY <1>1, MintSure, PTL

\* Any task file that says it minted says that its budget is spent, and without a
\* reopened goal no child's file is there before its parent's record
\* (_commit_decompose_mint, _materialize_mint_children).
THEOREM MintBudget == Spec => []MintIsSpent
<1>1. Sound /\ Sure => MintIsSpent
  <2> SUFFICES ASSUME Sound, Sure, NEW t \in Tasks, Present(t)
               PROVE  /\ disk[t].mint # 0 => disk[t].spent = Attempts
                      /\ reopens = 0 /\ disk[t].by # 0 =>
                           \E u \in Tasks : Present(u) /\ t \in KidSet(u) /\ disk[u].mint # 0
    BY DEF MintIsSpent
  <2>1. disk[t] \in Records  BY SlotIsRecord DEF Sound, TypeOK, Present
  <2>2. Proper(t, disk[t])  BY <2>1 DEF Sure, Backed
  <2>3. disk[t].mint # 0 => disk[t].spent = Attempts  BY <2>2 DEF Proper, Full
  <2>4. ASSUME reopens = 0, disk[t].by # 0
        PROVE  \E u \in Tasks : Present(u) /\ t \in KidSet(u) /\ disk[u].mint # 0
    <3>1. t # Root  BY <2>2, <2>4 DEF Proper
    <3>2. PICK u \in Tasks : t \in KidSet(u) /\ disk[u] \in Records /\ disk[u].mint # 0
      BY <2>1, <2>4, <3>1 DEF Sure, Ledger
    <3>3. Present(u)  BY <3>2, SlotIsRecord DEF Present
    <3> QED BY <3>2, <3>3
  <2> QED BY <2>3, <2>4
<1> QED BY <1>1, MintSure, PTL

\* No step takes a mint, a claim or spent budget back from a task file, unless a
\* goal was reopened (the barriers and save_task_monotonic).
THEOREM MintIsKept == Spec => NothingIsTakenBack
<1>1. Sound /\ Sure /\ [Next]_vars =>
        [reopens' = 0 => \A t \in {u \in Tasks : Present(u)} : Ahead(disk'[t], disk[t])]_vars
  <2> SUFFICES ASSUME Sound, Sure, [Next]_vars, reopens' = 0,
                      NEW t \in Tasks, Present(t)
               PROVE  Ahead(disk'[t], disk[t])
    OBVIOUS
  <2>1. disk[t] \in Records  BY SlotIsRecord DEF Sound, TypeOK, Present
  <2> QED BY <2>1, StepIsSure DEF Kept
<1> QED BY <1>1, MintSure, PTL DEF Spec, NothingIsTakenBack
=============================================================================
