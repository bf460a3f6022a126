-------------------- MODULE DecomposeMintOutcome_proofs --------------------
(* What a mint comes to, for any tree of tasks and any bounds: it has its row *)
(* in the audit file, and its container follows its children. *)
EXTENDS DecomposeMint_proofs

-----------------------------------------------------------------------------
(* Copies of one record. *)

\* A copy names the same parent mint as the other, and its own mint if it has one.
Same(r, s) == r.by = s.by /\ (r.mint # 0 => s.mint = r.mint)

\* The object of a task and the record a lane listed are copies of its file; a
\* run that is over holds nothing, and a scan none but what minted.
Linked ==
  \A t \in Tasks :
    /\ obj[t] \in Records => Same(obj[t], disk[t])
    /\ listed[t] \in Records => Same(listed[t], disk[t])
    /\ listed[t] \in Records /\ obj[t] \in Records => Same(listed[t], obj[t])
    /\ lane = "idle" => obj[t] \notin Records
    /\ lane = "scan" /\ obj[t] \in Records => obj[t].mint # 0

\* A record that says its mint was disclosed is right.
HasRow(r) == r.mint # 0 /\ r.told => rows[r.mint] = 1

\* A mint in a file has its row, or its disclosure is under way, has failed in
\* this run or is on the scan's list.
Owes(t) ==
  disk[t] \in Records /\ disk[t].mint # 0 =>
    \/ rows[disk[t].mint] = 1 \/ pc[t] = "emit" \/ disk[t].mint \in missed \/ t \in totell

OneRow == /\ \A m \in Mints : rows[m] <= 1
          /\ \A m \in emitted : rows[m] = 1

Recorded ==
  /\ OneRow
  /\ \A t \in Tasks : /\ disk[t] \in Records => HasRow(disk[t])
                      /\ obj[t] \in Records => HasRow(obj[t])
                      /\ listed[t] \in Records => HasRow(listed[t])
  /\ lane # "idle" => \A t \in Tasks : Owes(t)

LEMMA InitRecorded == Init => Linked /\ Recorded
<1> SUFFICES ASSUME Init PROVE Linked /\ Recorded  OBVIOUS
<1>1. \A t \in Tasks : obj[t] \notin Records /\ listed[t] \notin Records
  BY SlotIsRecord DEF Init, Nothing
<1>2. \A t \in Tasks : disk[t] \in Records => ~disk[t].told
  BY SlotIsRecord DEF Init, Nothing, Fresh
<1>3. OneRow /\ lane = "idle"  BY DEF Init, OneRow
<1>4. Linked  BY <1>1, <1>3 DEF Linked, Init
<1> QED BY <1>1, <1>2, <1>3, <1>4 DEF Recorded, HasRow, Init

\* The object of one task is replaced by a copy of it, and may be saved.
Replaces(t, r) ==
  /\ obj' = [obj EXCEPT ![t] = r] /\ obj[t] \in Records
  /\ disk' = disk \/ disk' = [disk EXCEPT ![t] = r]
  /\ r.by = obj[t].by /\ (obj[t].mint # 0 => r.mint = obj[t].mint)
  /\ r.mint = obj[t].mint \/ disk' = [disk EXCEPT ![t] = r]
  /\ listed' = listed /\ lane # "idle" /\ lane' \in {lane, "merge"}

LEMMA ReplaceIsLinked ==
  ASSUME Sound, Linked, NEW t \in Tasks, NEW r \in Records, Replaces(t, r)
  PROVE  Linked'
<1> USE DEF Replaces
<1>1. disk \in [Tasks -> Slots] /\ obj \in [Tasks -> Slots]  BY DEF Sound, TypeOK
<1>2. /\ obj'[t] = r /\ disk'[t] \in {disk[t], r}
      /\ \A u \in Tasks \ {t} : obj'[u] = obj[u] /\ disk'[u] = disk[u]
  BY <1>1
<1>3. Same(r, disk'[t])
  BY <1>1, <1>2 DEF Linked, Same
<1>4. listed[t] \in Records => Same(listed[t], r) /\ Same(listed[t], disk'[t])
  BY <1>2, <1>3 DEF Linked, Same
<1>5. lane = "scan" => r.mint # 0  BY DEF Linked
<1> QED BY <1>2, <1>3, <1>4, <1>5 DEF Linked

\* ... and the rows of the file only grow, one by one.
LEMMA ReplaceIsRecorded ==
  ASSUME Sound, Linked, Recorded, NEW t \in Tasks, NEW r \in Records, Replaces(t, r),
         OneRow', \A m \in Mints : rows[m] = 1 => rows'[m] = 1,
         HasRow(r)', Owes(t)', missed \subseteq missed', totell' = totell,
         \A u \in Tasks \ {t} : pc[u] = "emit" => pc'[u] = "emit"
  PROVE  Recorded'
<1> USE DEF Replaces
<1>1. disk \in [Tasks -> Slots] /\ obj \in [Tasks -> Slots]  BY DEF Sound, TypeOK
<1>2. /\ obj'[t] = r /\ disk'[t] \in {disk[t], r}
      /\ \A u \in Tasks \ {t} : obj'[u] = obj[u] /\ disk'[u] = disk[u]
  BY <1>1
<1>3. \A q \in Records : q.mint # 0 => q.mint \in Mints  BY MintAssumption DEF Records, Mints
<1>4. \A q \in Records : HasRow(q) => HasRow(q)'  BY <1>3 DEF HasRow
<1>5. (\A u \in Tasks : /\ disk[u] \in Records => HasRow(disk[u])
                        /\ obj[u] \in Records => HasRow(obj[u])
                        /\ listed[u] \in Records => HasRow(listed[u]))'
  <2>1. \A u \in Tasks : disk'[u] \in Records =>
          disk[u] \in Records /\ (disk'[u] = disk[u] \/ (u = t /\ disk'[u] = r))
    <3>1. disk[t] \in Records  BY DEF Sound, FramesOK
    <3>2. \A u \in Tasks \ {t} : disk'[u] = disk[u]  BY <1>2
    <3>3. disk'[t] = disk[t] \/ disk'[t] = r  BY <1>2
    <3> HIDE DEF Replaces
    <3> QED BY <3>1, <3>2, <3>3
  <2>2. \A u \in Tasks : (disk[u] \in Records => HasRow(disk[u]))'
    BY <1>2, <1>4, <2>1 DEF Recorded, HasRow
  <2>3. \A u \in Tasks : (obj[u] \in Records => HasRow(obj[u]))'
    BY <1>2, <1>4 DEF Recorded, HasRow
  <2>4. \A u \in Tasks : (listed[u] \in Records => HasRow(listed[u]))'
    BY <1>4 DEF Recorded, HasRow
  <2> QED BY <2>2, <2>3, <2>4
<1>6. \A u \in Tasks \ {t} : Owes(u) => Owes(u)'  BY <1>2, <1>3 DEF Owes
<1>7. \A u \in Tasks : Owes(u)'  BY <1>6 DEF Recorded
<1> QED BY <1>5, <1>7 DEF Recorded

-----------------------------------------------------------------------------
(* What a step of a frame does to its own object. *)

\* The frame of t goes to `place` with its object r, saved or not: r is as it was
\* but for a status, which the last step alone gives it; or it has a new number;
\* or it has its row.
Moves(t, r, place) ==
  /\ obj' = [obj EXCEPT ![t] = r] /\ pc' = [pc EXCEPT ![t] = place]
  /\ disk' = disk \/ (disk' = [disk EXCEPT ![t] = r] /\ place # "done")
  /\ place \notin {"loop", "waiting"} /\ (lane = "run" => place # "idle")
  /\ pc[t] # "done" /\ (pc[t] \in {"emit", "mark"} => place # "done")
  /\ UNCHANGED <<at, listed, queue, lane, worker, buffer, totell, torn, reopens>>
  /\ r.by = obj[t].by /\ (place # "done" => r.status = obj[t].status)
  /\ \/ /\ r.mint = obj[t].mint /\ r.told = obj[t].told
        /\ UNCHANGED <<minted, rows, emitted>> /\ missed \subseteq missed'
        /\ place # "emit" => pc[t] # "emit" \/ Told(t) \/ obj[t].mint \in missed'
        /\ place = "done" /\ r.mint # 0 => /\ pc[t] = "loop" /\ at[t] > Len(Kids[t])
                                           /\ r.status = Outcome(t)
     \/ /\ obj[t].mint = 0 /\ r.mint \in Mints /\ ~r.told
        /\ minted' = minted + 1 /\ r.mint = minted'
        /\ place = "emit" /\ disk' = [disk EXCEPT ![t] = r]
        /\ UNCHANGED <<rows, emitted, missed>>
     \/ /\ r.mint = obj[t].mint /\ pc[t] = "emit" /\ place = "mark"
        /\ rows' = Appended(obj[t].mint) /\ emitted' = emitted \cup {obj[t].mint}
        /\ UNCHANGED <<minted, missed>>

\* The fields of a record after a change of another.
LEMMA Fields ==
  ASSUME NEW r \in Records
  PROVE  /\ \A s \in Statuses : LET q == [r EXCEPT !.status = s] IN
              q.by = r.by /\ q.mint = r.mint /\ q.told = r.told /\ q.status = s
         /\ LET q == [r EXCEPT !.told = TRUE] IN
              q.by = r.by /\ q.mint = r.mint /\ q.told /\ q.status = r.status
         /\ LET q == [r EXCEPT !.laid = TRUE] IN
              q.by = r.by /\ q.mint = r.mint /\ q.told = r.told /\ q.status = r.status
         /\ LET q == [r EXCEPT !.spent = @ + 1] IN
              q.by = r.by /\ q.mint = r.mint /\ q.told = r.told /\ q.status = r.status
         /\ LET q == Claimed(r) IN
              q.by = r.by /\ q.mint = r.mint /\ q.told = r.told /\ q.status = r.status
         /\ \A m \in Mints : LET q == Committed(r, m) IN
              q.by = r.by /\ q.mint = m /\ ~q.told /\ q.status = r.status
BY DEF Records, Claimed, Committed

\* Every step of a frame but those of its children's loop moves it so.
LEMMA SeamMoves ==
  ASSUME Sound, NEW t \in Tasks,
         \/ Resume(t) \/ Bail(t) \/ Count(t) \/ Claim(t) \/ ClaimFails(t) \/ QCFix(t)
         \/ Produced(t) \/ Refuse(t) \/ Commit(t) \/ SkipEmit(t) \/ Emit(t) \/ EmitFails(t)
         \/ Mark(t) \/ Container(t)
  PROVE  Moving(t) /\ obj[t] \in Records /\ \E r \in Records, place \in Places : Moves(t, r, place)
<1>0. pc[t] \in {"enter", "produce", "overflow", "emit", "mark", "loop"}
  BY DEF Resume, Bail, Count, Claim, ClaimFails, QCFix, Produced, Refuse, Commit, SkipEmit,
         Emit, EmitFails, Mark, Container
<1>1. obj \in [Tasks -> Slots] /\ obj[t] \in Records /\ Moving(t)
  BY <1>0 DEF Sound, TypeOK, FramesOK, Moving
<1>2. obj = [obj EXCEPT ![t] = obj[t]]  BY <1>1
<1>m. pc[t] \in {"produce", "overflow"} => obj[t].mint = 0  BY DEF Sound, FramesOK
<1>s. {"completed", "failed"} \subseteq Statuses  BY DEF Statuses
<1>u. \A s \in Statuses : /\ [obj[t] EXCEPT !.status = s] \in Records
                          /\ [obj[t] EXCEPT !.status = s].by = obj[t].by
                          /\ [obj[t] EXCEPT !.status = s].mint = obj[t].mint
                          /\ [obj[t] EXCEPT !.status = s].told = obj[t].told
                          /\ [obj[t] EXCEPT !.status = s].status = s
  <2>1. \A s \in Statuses : [obj[t] EXCEPT !.status = s] \in Records  BY <1>1, RecordChanges
  <2> QED BY <1>1, <2>1, Fields
<1>p. {"enter", "produce", "overflow", "emit", "mark", "kids", "done", "idle"} \subseteq Places
  BY DEF Places
<1>a. AfterEmit \in {"idle", "kids"} /\ (lane = "run" => AfterEmit # "idle")  BY DEF AfterEmit
<1>3. CASE Resume(t)
  <2>1. Moves(t, obj[t], "emit")  BY <1>2, <1>3 DEF Resume, Moves, stores, bounds
  <2> QED BY <2>1, <1>1, <1>p
<1>4. CASE Bail(t)
  <2>1. Moves(t, obj[t], "done")  BY <1>2, <1>4 DEF Bail, Moves, stores, bounds
  <2> QED BY <2>1, <1>1, <1>p
<1>5. CASE Count(t)
  <2> DEFINE r == [obj[t] EXCEPT !.spent = @ + 1]
  <2>1. r \in Records /\ r.by = obj[t].by /\ r.mint = obj[t].mint /\ r.told = obj[t].told
        /\ r.status = obj[t].status
    BY <1>1, <1>5, RecordChanges, Fields DEF Count
  <2>2. obj' = [obj EXCEPT ![t] = r]  BY <1>5 DEF Count, Move
  <2> HIDE DEF r
  <2>3. Moves(t, r, "produce")  BY <1>5, <2>1, <2>2 DEF Count, Move, Moves, stores, bounds
  <2> QED BY <2>1, <2>3, <1>1, <1>p
<1>6. CASE Claim(t)
  <2> DEFINE r == Claimed(obj[t])
  <2>1. r \in Records /\ r.by = obj[t].by /\ r.mint = obj[t].mint /\ r.told = obj[t].told
        /\ r.status = obj[t].status
    BY <1>1, RecordChanges, Fields
  <2>3. Moves(t, r, "produce")  BY <1>6, <2>1 DEF Claim, Move, Moves, bounds
  <2> QED BY <2>1, <2>3, <1>1, <1>p
<1>7. CASE ClaimFails(t)
  <2> DEFINE q == Claimed(obj[t])
             r == [q EXCEPT !.status = "failed"]
  <2>1. q \in Records /\ q.by = obj[t].by /\ q.mint = obj[t].mint /\ q.told = obj[t].told
    BY <1>1, RecordChanges, Fields
  <2>2. obj' = [obj EXCEPT ![t] = r]  BY <1>7 DEF ClaimFails, Move
  <2> HIDE DEF q
  <2>s. "failed" \in Statuses  BY <1>s
  <2>r. r \in Records  BY <2>1, <2>s, RecordChanges
  <2>f. r.by = q.by /\ r.mint = q.mint /\ r.told = q.told  BY <2>1, <2>s, Fields
  <2>3. r \in Records /\ r.by = obj[t].by /\ r.mint = obj[t].mint /\ r.told = obj[t].told
    BY <2>1, <2>r, <2>f
  <2> HIDE DEF r
  <2>4. Moves(t, r, "done")
    BY <1>7, <2>2, <2>3 DEF ClaimFails, Move, Moves, stores, bounds
  <2> QED BY <2>3, <2>4, <1>1, <1>p
<1>8. CASE QCFix(t)
  <2>1. \E s \in {"completed", "failed"} :
          Moves(t, obj[t], "done") \/ Moves(t, [obj[t] EXCEPT !.status = s], "done")
    BY <1>8, <1>2, <1>s, <1>u DEF QCFix, Settle, Move, Moves, stores, bounds
  <2> QED BY <2>1, <1>1, <1>s, <1>u, <1>p
<1>9. CASE Produced(t)
  <2>1. \/ \E s \in {"completed", "failed"} : Moves(t, [obj[t] EXCEPT !.status = s], "done")
        \/ \E p \in {"enter", "overflow"} : Moves(t, obj[t], p)
    BY <1>9, <1>2, <1>m, <1>s, <1>u DEF Produced, Settle, Move, Moves, stores, bounds
  <2> QED BY <2>1, <1>1, <1>s, <1>u, <1>p
<1>10. CASE Refuse(t)
  <2>1. Moves(t, [obj[t] EXCEPT !.status = "failed"], "done")
    BY <1>10, <1>m, <1>s, <1>u DEF Refuse, Settle, Move, Moves, stores, bounds
  <2> QED BY <2>1, <1>1, <1>s, <1>u, <1>p
<1>11. CASE Commit(t)
  <2> DEFINE r == Committed(obj[t], minted')
  <2>0. minted' \in Mints  BY <1>11, MintAssumption DEF Commit, Sound, TypeOK, Mints
  <2>1. r \in Records /\ r.by = obj[t].by /\ r.mint = minted' /\ ~r.told
        /\ r.status = obj[t].status
    <3>1. r \in Records  BY <2>0, <1>1, RecordChanges
    <3> QED BY <2>0, <1>1, <3>1, Fields
  <2>2. Moves(t, r, "emit")  BY <1>11, <1>m, <2>0, <2>1 DEF Commit, Move, Moves, bounds
  <2> QED BY <2>1, <2>2, <1>1, <1>p
<1>12. CASE SkipEmit(t)
  <2>1. Moves(t, obj[t], AfterEmit)  BY <1>2, <1>a, <1>12 DEF SkipEmit, Moves, stores, bounds
  <2> QED BY <2>1, <1>1, <1>a, <1>p
<1>13. CASE Emit(t)
  <2> DEFINE r == [obj[t] EXCEPT !.told = TRUE]
  <2>1. r \in Records /\ r.by = obj[t].by /\ r.mint = obj[t].mint /\ r.status = obj[t].status
    BY <1>1, RecordChanges, Fields
  <2>2. Moves(t, r, "mark")  BY <1>13, <2>1 DEF Emit, Move, Moves, bounds
  <2> QED BY <2>1, <2>2, <1>1, <1>p
<1>14. CASE EmitFails(t)
  <2>1. Moves(t, obj[t], AfterEmit)  BY <1>2, <1>a, <1>14 DEF EmitFails, Moves, stores
  <2> QED BY <2>1, <1>1, <1>a, <1>p
<1>15. CASE Mark(t)
  <2>1. Moves(t, obj[t], AfterEmit)  BY <1>2, <1>a, <1>15 DEF Mark, Moves
  <2> QED BY <2>1, <1>1, <1>a, <1>p
<1>16. CASE Container(t)
  <2>0. Outcome(t) \in Statuses  BY DEF Outcome, Statuses
  <2>1. Moves(t, [obj[t] EXCEPT !.status = Outcome(t)], "done")
    BY <1>16, <2>0, <1>u DEF Container, Settle, Move, Moves, stores, bounds
  <2> QED BY <2>0, <2>1, <1>1, <1>u, <1>p
<1> QED BY <1>3, <1>4, <1>5, <1>6, <1>7, <1>8, <1>9, <1>10, <1>11, <1>12, <1>13, <1>14,
           <1>15, <1>16

\* An append that finds its own row adds at most one.
LEMMA AppendIsOneRow ==
  ASSUME TypeOK, OneRow, NEW m \in Mints, rows' = Appended(m), emitted' = emitted \cup {m}
  PROVE  OneRow' /\ rows'[m] = 1 /\ \A n \in Mints : rows[n] = 1 => rows'[n] = 1
<1>1. rows \in [Mints -> Nat] /\ rows[m] \in Nat /\ rows[m] <= 1 /\ emitted \subseteq Mints
  BY DEF TypeOK, OneRow
<1>2. CASE rows[m] > 0
  <2>1. rows' = rows /\ rows[m] = 1  BY <1>1, <1>2 DEF Appended
  <2> QED BY <2>1 DEF OneRow
<1>3. CASE ~(rows[m] > 0)
  <2>1. rows' = [rows EXCEPT ![m] = 1]  BY <1>3 DEF Appended
  <2>2. rows'[m] = 1 /\ \A n \in Mints \ {m} : rows'[n] = rows[n]  BY <1>1, <2>1
  <2> QED BY <1>1, <2>2 DEF OneRow
<1> QED BY <1>2, <1>3

LEMMA MoveIsRecorded ==
  ASSUME Sound, Linked, Recorded, NEW t \in Tasks, NEW r \in Records, NEW place \in Places,
         Moving(t), obj[t] \in Records, Moves(t, r, place)
  PROVE  Linked' /\ Recorded'
<1>t. TypeOK /\ pc \in [Tasks -> Places] /\ disk \in [Tasks -> Slots] /\ disk[t] \in Records
  BY DEF Sound, TypeOK, FramesOK
<1>i. lane # "idle"  BY DEF Sound, LaneOK, Moving
<1>1. Replaces(t, r)  BY <1>i DEF Moves, Replaces
<1>2. Linked'  BY <1>1, ReplaceIsLinked
<1>3. /\ pc'[t] = place /\ \A u \in Tasks \ {t} : pc'[u] = pc[u]
      /\ totell' = totell /\ (disk'[t] = disk[t] \/ disk'[t] = r)
  BY <1>t DEF Moves
<1>4. Same(obj[t], disk[t]) /\ HasRow(obj[t]) /\ Owes(t) /\ OneRow
  BY <1>i DEF Linked, Recorded
<1>5. obj[t].mint # 0 => obj[t].mint \in Mints  BY MintAssumption DEF Records, Mints
<1>6. pc[t] = "emit" => obj[t].mint # 0  BY DEF Sound, FramesOK
<1>7. CASE /\ r.mint = obj[t].mint /\ r.told = obj[t].told
           /\ UNCHANGED <<minted, rows, emitted>> /\ missed \subseteq missed'
           /\ place # "emit" => pc[t] # "emit" \/ Told(t) \/ obj[t].mint \in missed'
  <2>1. HasRow(r)'  BY <1>4, <1>7 DEF HasRow
  <2>2. OneRow'  BY <1>4, <1>7 DEF OneRow
  <2>3. Owes(t)'
    <3>1. pc[t] = "emit" /\ place # "emit" =>
            rows[disk[t].mint] = 1 \/ disk[t].mint \in missed'
      BY <1>4, <1>6, <1>7 DEF Told, HasRow, Same, OneRow
    <3>2. disk'[t].mint # 0 => disk'[t].mint = disk[t].mint  BY <1>3, <1>4, <1>7 DEF Same
    <3> QED BY <1>t, <1>3, <1>4, <1>7, <3>1, <3>2 DEF Owes
  <2> QED BY <1>1, <1>2, <1>3, <1>7, <2>1, <2>2, <2>3, ReplaceIsRecorded
<1>8. CASE ~r.told /\ place = "emit" /\ UNCHANGED <<rows, emitted, missed>>
  <2>1. HasRow(r)' /\ OneRow' /\ Owes(t)'  BY <1>3, <1>4, <1>8 DEF HasRow, OneRow, Owes
  <2> QED BY <1>1, <1>2, <1>3, <1>8, <2>1, ReplaceIsRecorded
<1>9. CASE /\ r.mint = obj[t].mint /\ pc[t] = "emit" /\ missed' = missed
           /\ rows' = Appended(obj[t].mint) /\ emitted' = emitted \cup {obj[t].mint}
  <2>1. /\ OneRow' /\ rows'[r.mint] = 1 /\ \A n \in Mints : rows[n] = 1 => rows'[n] = 1
    BY <1>t, <1>4, <1>5, <1>6, <1>9, AppendIsOneRow
  <2>2. HasRow(r)' /\ Owes(t)'  BY <1>3, <1>4, <1>6, <1>9, <2>1 DEF HasRow, Owes, Same
  <2> QED BY <1>1, <1>2, <1>3, <1>9, <2>1, <2>2, ReplaceIsRecorded
<1> QED BY <1>7, <1>8, <1>9 DEF Moves

-----------------------------------------------------------------------------
(* What a step of the children's loop of t does to the child k it is at. *)

Turned(t, k, r) ==
  /\ obj' = [obj EXCEPT ![k] = r]
  /\ r.by = obj[k].by /\ r.mint = obj[k].mint /\ r.told = obj[k].told
  /\ \/ r = obj[k] /\ UNCHANGED <<disk, buffer>>
     \/ Persist(k, r)
  /\ \/ pc' = pc /\ pc[t] = "loop"
     \/ pc[t] = "loop" /\ pc' = [pc EXCEPT ![t] = "waiting", ![k] = "enter"]
        /\ r = obj[k] /\ Runs(r) /\ at' = at /\ UNCHANGED <<disk, buffer>>
     \/ pc[t] = "waiting" /\ pc[k] = "done" /\ pc' = [pc EXCEPT ![t] = "loop", ![k] = "idle"]
        /\ Persist(k, r)
  /\ at' = at \/ (pc'[t] = "loop" /\ NextChild(t))
  /\ UNCHANGED <<listed, queue, lane, worker, totell, rows, emitted, minted, missed, torn, reopens>>

LEMMA LoopTurns ==
  ASSUME Sound, NEW t \in Tasks,
         Preserve(t) \/ SettleClaim(t) \/ RunChild(t) \/ ChildDone(t)
  PROVE  LET k == ChildAt(t) IN
           /\ k \in KidSet(t) /\ k \in Tasks /\ obj[k] \in Records
           /\ \E r \in Records : Turned(t, k, r)
<1> DEFINE k == ChildAt(t)
<1>1. /\ pc[t] \in {"loop", "waiting"} /\ at[t] \in Nat \ {0} /\ at[t] <= Len(Kids[t])
      /\ pc \in [Tasks -> Places] /\ obj \in [Tasks -> Slots]
  BY DEF Preserve, SettleClaim, RunChild, ChildDone, InLoop, Sound, TypeOK, FramesOK
<1>2. k \in KidSet(t) /\ k \in Tasks  BY <1>1, KidsAreTasks DEF ChildAt
<1>3. obj[k] \in Records  BY <1>1, <1>2 DEF Sound, FramesOK
<1>4. obj = [obj EXCEPT ![k] = obj[k]]  BY <1>1
<1>5. CASE Preserve(t)
  <2>1. Turned(t, k, obj[k])  BY <1>4, <1>5 DEF Preserve, Turned, InLoop, stores, bounds
  <2> QED BY <1>2, <1>3, <2>1
<1>6. CASE SettleClaim(t)
  <2>1. PICK s \in {"completed", "failed"} :
          obj' = [obj EXCEPT ![k].status = s] /\ Persist(k, [obj[k] EXCEPT !.status = s])
    BY <1>6 DEF SettleClaim
  <2>2. s \in Statuses  BY DEF Statuses
  <2> DEFINE r == [obj[k] EXCEPT !.status = s]
  <2>3. r \in Records  BY <1>3, <2>2, RecordChanges
  <2>4. r.by = obj[k].by /\ r.mint = obj[k].mint /\ r.told = obj[k].told
    BY <1>3, <2>2, Fields
  <2>5. obj' = [obj EXCEPT ![k] = r] /\ Persist(k, r)  BY <2>1
  <2> HIDE DEF r
  <2>6. Turned(t, k, r)  BY <1>6, <2>4, <2>5 DEF SettleClaim, Turned, InLoop, bounds
  <2> QED BY <1>2, <1>3, <2>3, <2>6
<1>7. CASE RunChild(t)
  <2>1. Turned(t, k, obj[k])  BY <1>4, <1>7 DEF RunChild, Turned, InLoop, stores, bounds
  <2> QED BY <1>2, <1>3, <2>1
<1>8. CASE ChildDone(t)
  <2>1. pc[t] = "waiting" /\ pc[k] = "done" /\ pc' = [pc EXCEPT ![t] = "loop", ![k] = "idle"]
    BY <1>8 DEF ChildDone
  <2>2. pc'[t] = "loop"  BY <2>1, <1>1
  <2>3. Turned(t, k, obj[k])  BY <1>4, <1>8, <2>1, <2>2 DEF ChildDone, Turned, bounds
  <2> QED BY <1>2, <1>3, <2>3
<1> QED BY <1>5, <1>6, <1>7, <1>8

LEMMA TurnIsRecorded ==
  ASSUME Sound, Linked, Recorded, NEW t \in Tasks, NEW k \in KidSet(t), k \in Tasks,
         NEW r \in Records, obj[k] \in Records, Turned(t, k, r)
  PROVE  Linked' /\ Recorded'
<1>t. pc \in [Tasks -> Places] /\ disk \in [Tasks -> Slots] /\ disk[k] \in Records
  BY DEF Sound, TypeOK, FramesOK
<1>1. lane # "idle" /\ (disk' = disk \/ disk' = [disk EXCEPT ![k] = r])
  BY DEF Turned, Persist, Sound, LaneOK
<1>2. Replaces(k, r)  BY <1>1 DEF Turned, Replaces
<1>3. Linked'  BY <1>2, ReplaceIsLinked
<1>4. \A u \in Tasks : pc[u] = "emit" => pc'[u] = "emit"
  <2>1. pc[t] = "loop" \/ pc[k] = "done"  BY DEF Turned
  <2>2. pc[t] = "loop" => pc[k] # "emit"  BY DEF Sound, FramesOK, Moving
  <2>3. pc[t] \in {"loop", "waiting"}  BY DEF Turned
  <2>4. /\ pc' = pc \/ pc' = [pc EXCEPT ![t] = "waiting", ![k] = "enter"]
                    \/ pc' = [pc EXCEPT ![t] = "loop", ![k] = "idle"]
    BY DEF Turned
  <2> QED BY <1>t, <2>1, <2>2, <2>3, <2>4
<1>5. OneRow' /\ HasRow(r)' /\ totell' = totell /\ missed' = missed /\ rows' = rows
  BY DEF Turned, Recorded, OneRow, HasRow
<1>6. Owes(k)'
  <2>1. Owes(k) /\ Same(obj[k], disk[k])  BY <1>1 DEF Recorded, Linked
  <2>2. disk'[k].mint # 0 => disk'[k].mint = disk[k].mint
    <3>1. disk'[k] = disk[k] \/ disk'[k] = r  BY <1>t, <1>1
    <3> QED BY <3>1, <2>1 DEF Turned, Same
  <2> QED BY <1>t, <1>4, <1>5, <2>1, <2>2 DEF Owes
<1> QED BY <1>2, <1>3, <1>4, <1>5, <1>6, ReplaceIsRecorded

-----------------------------------------------------------------------------
(* The other steps: the layout of the children, and the lanes. *)

\* The child a mint lays out: new in the store, and nobody has a copy of it.
LEMMA CreateLaysOut ==
  ASSUME Sound, NEW t \in Tasks, Create(t)
  PROVE  \E k \in KidSet(t) : \E f \in Records :
           /\ k \in Tasks \ {Root} /\ disk[k] \notin Records /\ disk' = [disk EXCEPT ![k] = f]
           /\ f.by = obj[t].mint /\ f.mint = 0 /\ f.status = "open"
           /\ obj[k] \notin Records /\ listed[k] \notin Records
<1> USE MintAssumption
<1>1. PICK i \in DOMAIN Kids[t] :
        disk' = [disk EXCEPT ![Kids[t][i]] = Fresh(obj[t].mint, Attempts - 1)]
        /\ ~Present(Kids[t][i])
  BY DEF Create
<1> DEFINE k == Kids[t][i]
           f == Fresh(obj[t].mint, Attempts - 1)
<1>2. k \in Tasks \ {Root} /\ k \in KidSet(t)  BY DEF KidSet
<1>3. obj[t] \in Records  BY DEF Create, Sound, FramesOK
<1>4. f \in Records /\ f.by = obj[t].mint /\ f.mint = 0 /\ f.status = "open"
  <2>1. obj[t].mint \in 0..MaxMints /\ Attempts - 1 \in 0..Attempts  BY <1>3 DEF Records
  <2> QED BY <2>1, FreshIsRecord DEF Fresh
<1>5. disk[k] \notin Records  BY <1>1, SlotIsRecord DEF Present
<1>6. obj[k] \notin Records /\ listed[k] \notin Records
  BY <1>2, <1>5 DEF Sound, FramesOK, LaneOK
<1> QED BY <1>1, <1>2, <1>4, <1>5, <1>6

LEMMA CreateIsRecorded ==
  ASSUME Sound, Linked, Recorded, NEW t \in Tasks, Create(t)
  PROVE  Linked' /\ Recorded'
<1>1. PICK k \in KidSet(t) : \E f \in Records :
           /\ k \in Tasks \ {Root} /\ disk[k] \notin Records /\ disk' = [disk EXCEPT ![k] = f]
           /\ f.by = obj[t].mint /\ f.mint = 0 /\ f.status = "open"
           /\ obj[k] \notin Records /\ listed[k] \notin Records
  BY CreateLaysOut
<1>2. disk \in [Tasks -> Slots]  BY DEF Sound, TypeOK
<1>3. disk'[k].mint = 0 /\ \A u \in Tasks \ {k} : disk'[u] = disk[u]  BY <1>1, <1>2
<1>4. UNCHANGED <<obj, listed, lane, pc, totell, rows, emitted, missed>>
  BY DEF Create, frames, bounds
<1>5. Linked'  BY <1>1, <1>3, <1>4 DEF Linked
<1>6. \A u \in Tasks : /\ (disk[u] \in Records => HasRow(disk[u]))'
                       /\ lane # "idle" => Owes(u)'
  BY <1>3, <1>4 DEF Recorded, HasRow, Owes
<1>7. \A u \in Tasks : (obj[u] \in Records => HasRow(obj[u]))'
                       /\ (listed[u] \in Records => HasRow(listed[u]))'
  BY <1>4 DEF Recorded, HasRow
<1> QED BY <1>4, <1>5, <1>6, <1>7 DEF Recorded, OneRow

\* The loop takes its children's files.
LEMMA LoadTakes ==
  ASSUME Sound, NEW t \in Tasks, Load(t)
  PROVE  \E p \in Records :
           /\ p.by = obj[t].by /\ p.mint = obj[t].mint /\ p.told = obj[t].told
           /\ p.status = obj[t].status
           /\ obj'[t] = p /\ (disk'[t] = disk[t] \/ disk'[t] = p)
           /\ \A u \in Tasks \ {t} : /\ disk'[u] = disk[u]
                                     /\ obj'[u] = IF u \in KidSet(t) THEN disk[u] ELSE obj[u]
           /\ pc' = [pc EXCEPT ![t] = "loop"] /\ pc[t] = "kids" /\ at' = [at EXCEPT ![t] = 1]
           /\ obj[t] \in Records /\ disk[t] \in Records
           /\ \A k \in KidSet(t) : disk[k] \in Records /\ disk[k].by = obj[t].mint
           /\ UNCHANGED <<rows, listed, queue, lane, worker, buffer, totell, emitted, minted,
                          missed, torn, reopens>>
<1> DEFINE p == [obj[t] EXCEPT !.laid = TRUE]
<1>1. obj[t] \in Records /\ disk[t] \in Records /\ disk \in [Tasks -> Slots]
  BY DEF Load, Sound, FramesOK, TypeOK
<1>2. p \in Records  BY <1>1, RecordChanges
<1>3. p.by = obj[t].by /\ p.mint = obj[t].mint /\ p.told = obj[t].told /\ p.status = obj[t].status
  BY <1>1, Fields
<1>4. /\ obj' = [u \in Tasks |-> IF u = t THEN p ELSE IF u \in KidSet(t) THEN disk[u] ELSE obj[u]]
      /\ pc' = [pc EXCEPT ![t] = "loop"] /\ pc[t] = "kids" /\ at' = [at EXCEPT ![t] = 1]
      /\ disk' = disk \/ disk' = [disk EXCEPT ![t] = p]
      /\ ~Conflict(t) /\ \A k \in KidSet(t) : Present(k)
      /\ UNCHANGED <<rows, listed, queue, lane, worker, buffer, totell, emitted, minted,
                     missed, torn, reopens>>
  BY DEF Load, Fault
<1>5. \A k \in KidSet(t) : disk[k] \in Records /\ disk[k].by = obj[t].mint
  BY <1>1, <1>4, SlotIsRecord, KidsAreTasks DEF Present, Conflict
<1> HIDE DEF p
<1>6. obj'[t] = p /\ (disk'[t] = disk[t] \/ disk'[t] = p)  BY <1>1, <1>4
<1>7. \A u \in Tasks \ {t} : disk'[u] = disk[u]
                             /\ obj'[u] = IF u \in KidSet(t) THEN disk[u] ELSE obj[u]
  BY <1>1, <1>4
<1> QED BY <1>1, <1>2, <1>3, <1>4, <1>5, <1>6, <1>7

LEMMA LoadIsRecorded ==
  ASSUME Sound, Linked, Recorded, NEW t \in Tasks, Load(t)
  PROVE  Linked' /\ Recorded'
<1>1. PICK p \in Records :
           /\ p.by = obj[t].by /\ p.mint = obj[t].mint /\ p.told = obj[t].told
           /\ obj'[t] = p /\ (disk'[t] = disk[t] \/ disk'[t] = p)
           /\ \A u \in Tasks \ {t} : /\ disk'[u] = disk[u]
                                     /\ obj'[u] = IF u \in KidSet(t) THEN disk[u] ELSE obj[u]
           /\ pc' = [pc EXCEPT ![t] = "loop"] /\ pc[t] = "kids"
           /\ obj[t] \in Records /\ disk[t] \in Records
           /\ UNCHANGED <<rows, listed, lane, totell, emitted, missed>>
  BY LoadTakes
<1>2. lane \notin {"idle", "scan"}  BY <1>1 DEF Sound, LaneOK
<1>3. \A u \in Tasks : pc[u] = "emit" => pc'[u] = "emit"  BY <1>1 DEF Sound, TypeOK
<1>4. Linked'
  <2>1. Same(p, disk[t]) /\ Same(p, p) /\ (listed[t] \in Records => Same(listed[t], p))
    BY <1>1 DEF Linked, Same
  <2>2. \A u \in Tasks : disk[u] \in Records => Same(disk[u], disk[u])  BY DEF Same
  <2>3. \A u \in Tasks : (obj[u] \in Records => Same(obj[u], disk[u]))'
    BY <1>1, <2>1, <2>2 DEF Linked, Same
  <2>4. \A u \in Tasks : (listed[u] \in Records => Same(listed[u], disk[u]))'
    BY <1>1, <2>1 DEF Linked, Same
  <2>5. \A u \in Tasks : (listed[u] \in Records /\ obj[u] \in Records => Same(listed[u], obj[u]))'
    BY <1>1, <2>1 DEF Linked, Same
  <2> QED BY <1>1, <1>2, <2>3, <2>4, <2>5 DEF Linked
<1>5. HasRow(obj[t]) => HasRow(p)  BY <1>1 DEF HasRow
<1>6. \A u \in Tasks : (disk[u] \in Records => HasRow(disk[u]))'
  BY <1>1, <1>5 DEF Recorded, HasRow
<1>7. \A u \in Tasks : (obj[u] \in Records => HasRow(obj[u]))'
  BY <1>1, <1>5 DEF Recorded, HasRow
<1>8. \A u \in Tasks : (listed[u] \in Records => HasRow(listed[u]))'
  BY <1>1 DEF Recorded, HasRow
<1>9. \A u \in Tasks : Owes(u)'
  <2>1. p.mint # 0 => disk[t].mint = p.mint  BY <1>1 DEF Linked, Same
  <2>2. \A u \in Tasks : disk'[u] \in Records /\ disk'[u].mint # 0 =>
          disk[u] \in Records /\ disk'[u].mint = disk[u].mint
    BY <1>1, <2>1
  <2> QED BY <1>1, <1>2, <1>3, <2>2 DEF Recorded, Owes
<1> QED BY <1>1, <1>4, <1>6, <1>7, <1>8, <1>9 DEF Recorded, OneRow

\* Files are replaced by others of the same mint, or of none, while no disclosure
\* is under way; the list of the lane may be made anew from them.
LEMMA SaveIsRecorded ==
  ASSUME Sound, Linked, Recorded, UNCHANGED <<obj, rows, emitted, missed, totell>>,
         lane # "idle", lane' \in {"run", "merge"}, \A u \in Tasks : pc[u] # "emit",
         \A u \in Tasks : disk[u] \in Records => disk'[u] \in Records,
         \A u \in Tasks : disk'[u] \in Records =>
           /\ disk[u] \in Records /\ HasRow(disk'[u]) /\ disk'[u].mint \in {0, disk[u].mint}
           /\ obj[u] \in Records => Same(obj[u], disk'[u])
           /\ listed'[u] \in Records => Same(listed'[u], disk'[u]),
         \A u \in Tasks : listed'[u] \in Records =>
           /\ HasRow(listed'[u]) /\ disk[u] \in Records
           /\ obj[u] \in Records => Same(listed'[u], obj[u])
  PROVE  Linked' /\ Recorded'
<1>1. \A u \in Tasks : obj[u] \in Records => disk[u] \in Records  BY DEF Sound, FramesOK
<1>2. Linked'  BY <1>1 DEF Linked
<1>3. \A u \in Tasks : /\ (disk[u] \in Records => HasRow(disk[u]))'
                       /\ (obj[u] \in Records => HasRow(obj[u]))'
                       /\ (listed[u] \in Records => HasRow(listed[u]))'
  BY DEF Recorded, HasRow
<1>4. \A u \in Tasks : Owes(u)'
  <2>1. \A u \in Tasks : Owes(u)  BY DEF Recorded
  <2> QED BY <2>1 DEF Owes
<1> QED BY <1>2, <1>3, <1>4 DEF Recorded, OneRow

\* Every copy of it is empty once a run lets go; its files keep their rows.
LEMMA ForgetIsRecorded ==
  ASSUME Sound, Linked, Recorded, Forget, rows' = rows, emitted' \subseteq emitted,
         \A u \in Tasks : disk'[u] \in Records =>
           disk[u] \in Records /\ disk'[u].mint = disk[u].mint /\ disk'[u].told = disk[u].told
  PROVE  Linked' /\ Recorded'
<1>1. \A t \in Tasks : obj'[t] \notin Records /\ listed'[t] \notin Records
  BY SlotIsRecord DEF Forget, Nothing
<1>2. lane' = "idle"  BY DEF Forget
<1>3. Linked'  BY <1>1 DEF Linked
<1>4. \A u \in Tasks : (disk[u] \in Records => HasRow(disk[u]))'  BY DEF Recorded, HasRow
<1> QED BY <1>1, <1>2, <1>3, <1>4 DEF Recorded, OneRow

\* A teardown changes no mint and no row, and completes nothing.
LEMMA TeardownFields ==
  ASSUME Sound, Teardown
  PROVE  /\ Forget /\ UNCHANGED <<rows, emitted, minted, torn>>
         /\ \A u \in Tasks : disk'[u] \in Records =>
              /\ disk[u] \in Records /\ disk'[u].mint = disk[u].mint
              /\ disk'[u].told = disk[u].told
              /\ disk'[u].status = "completed" => disk'[u] = disk[u]
         /\ \A u \in Tasks : disk[u] \in Records /\ disk[u].status = "completed"
                             => disk'[u] = disk[u]
<1>1. PICK S \in SUBSET Tasks :
        /\ \A t \in S : disk[t] \in Records /\ disk[t].status # "completed"
        /\ disk' = [t \in Tasks |-> IF t \in S THEN [disk[t] EXCEPT !.status = "abandoned"]
                                    ELSE disk[t]]
  BY TeardownWrites
<1>2. ASSUME NEW u \in S
      PROVE  /\ disk[u] \in Records /\ disk'[u].mint = disk[u].mint
             /\ disk'[u].told = disk[u].told /\ disk'[u].status = "abandoned"
  <2> DEFINE q == [disk[u] EXCEPT !.status = "abandoned"]
  <2>1. u \in Tasks /\ disk[u] \in Records  BY <1>1
  <2>2. q.mint = disk[u].mint /\ q.told = disk[u].told /\ q.status = "abandoned"
    <3>1. "abandoned" \in Statuses  BY DEF Statuses
    <3> QED BY <3>1, <2>1, Fields
  <2>3. disk'[u] = q  BY <1>1, <2>1
  <2> HIDE DEF q
  <2> QED BY <2>1, <2>2, <2>3
<1>3. \A u \in Tasks \ S : disk'[u] = disk[u]  BY <1>1
<1>4. Forget /\ UNCHANGED <<rows, emitted, minted, torn>>  BY DEF Teardown
<1> QED BY <1>1, <1>2, <1>3, <1>4

LEMMA EscapeIsRecorded ==
  ASSUME Sound, Linked, Recorded, Escape, UNCHANGED <<disk, rows, emitted, missed>>,
         \A u \in Tasks : pc[u] # "emit", \E u \in Tasks : pc[u] # "idle"
  PROVE  Linked' /\ Recorded'
<1>1. CASE ~worker
  <2>1. Forget /\ rows' = rows /\ emitted' \subseteq emitted /\ disk' = disk
    BY <1>1 DEF Escape, SettleOnFatal
  <2> QED BY <2>1, ForgetIsRecorded
<1>2. CASE worker
  <2>1. obj[Root] \in Records /\ Root \in Tasks /\ lane \notin {"idle", "scan"}
    BY <1>2, MintAssumption DEF Sound, LaneOK
  <2>2. PICK r \in Records :
          /\ r.by = obj[Root].by /\ r.mint = obj[Root].mint /\ r.told = obj[Root].told
          /\ obj' = [obj EXCEPT ![Root] = r]
    <3> DEFINE r == [obj[Root] EXCEPT !.status = "failed"]
    <3>1. "failed" \in Statuses  BY DEF Statuses
    <3>2. r \in Records  BY <3>1, <2>1, RecordChanges
    <3>3. r.by = obj[Root].by /\ r.mint = obj[Root].mint /\ r.told = obj[Root].told
      BY <3>1, <2>1, Fields
    <3> QED BY <1>2, <3>2, <3>3 DEF Escape
  <2>3. /\ lane' = "merge" /\ listed' = listed /\ totell' = totell /\ rows' = rows
        /\ disk' = disk /\ emitted' = emitted /\ missed' = missed
    BY <1>2 DEF Escape
  <2>4. Replaces(Root, r)  BY <2>1, <2>2, <2>3 DEF Replaces
  <2>5. Linked'  BY <2>1, <2>2, <2>4, ReplaceIsLinked
  <2>6. HasRow(r)' /\ OneRow' /\ Owes(Root)'
    <3>1. HasRow(obj[Root]) /\ Owes(Root) /\ OneRow  BY <2>1 DEF Recorded
    <3>2. HasRow(r)'  BY <2>2, <2>3, <3>1 DEF HasRow
    <3>3. OneRow'  BY <2>3, <3>1 DEF OneRow
    <3>4. Owes(Root)'  BY <2>1, <2>3, <3>1 DEF Owes
    <3> QED BY <3>2, <3>3, <3>4
  <2>7. missed \subseteq missed' /\ \A m \in Mints : rows[m] = 1 => rows'[m] = 1  BY <2>3
  <2> QED BY <2>1, <2>2, <2>3, <2>4, <2>5, <2>6, <2>7, ReplaceIsRecorded
<1> QED BY <1>1, <1>2

\* A merged record has its mint, and its row, from one of the two.
LEMMA MergedFields ==
  ASSUME NEW cur \in Records, NEW new \in Records
  PROVE  LET q == Merged(cur, new) IN
           /\ q \in Records
           /\ q.by \in {cur.by, new.by}
           /\ q.mint = IF cur.mint = 0 /\ ~(Terminal(cur) /\ ~Terminal(new)) THEN new.mint ELSE cur.mint
           /\ (q.mint = cur.mint /\ q.told = cur.told) \/ (q.mint = new.mint /\ q.told = new.told)
           /\ q.status = IF Terminal(cur) /\ ~Terminal(new) THEN cur.status ELSE new.status
<1>1. Merged(cur, new) \in Records  BY RecordChanges
<1>2. CASE Terminal(cur) /\ ~Terminal(new)
  <2>1. Merged(cur, new) = cur  BY <1>2 DEF Merged
  <2> QED BY <1>1, <1>2, <2>1
<1>3. CASE ~(Terminal(cur) /\ ~Terminal(new))
  <2> DEFINE q == Merged(cur, new)
  <2>1. /\ q.by = new.by /\ q.mint = (IF cur.mint # 0 THEN cur.mint ELSE new.mint)
        /\ q.told = (IF cur.mint # 0 THEN cur.told ELSE new.told) /\ q.status = new.status
    BY <1>3 DEF Merged, Records
  <2> HIDE DEF q
  <2> QED BY <1>1, <1>3, <2>1 DEF q
<1> QED BY <1>2, <1>3

LEMMA ResetFields ==
  ASSUME NEW r \in Records
  PROVE  /\ Reset(r) \in Records /\ Reset(r).by = r.by /\ Reset(r).mint = r.mint
         /\ Reset(r).told = r.told /\ (r.status # "abandoned" => Reset(r).status = "open")
<1>1. Reset(r) \in Records  BY RecordChanges
<1>2. Reset(r).by = r.by /\ Reset(r).mint = r.mint /\ Reset(r).told = r.told
  BY DEF Reset, Records
<1>3. r.status # "abandoned" => Reset(r).status = "open"  BY DEF Reset, Records
<1> QED BY <1>1, <1>2, <1>3

LEMMA LaneIsRecorded ==
  ASSUME Sound, Linked, Recorded,
         \/ Kickoff \/ Dispatch \/ Reopen \/ Begin \/ Skip \/ TaskDone \/ Merge \/ Stop
         \/ \E t \in Tasks : Recover(t)
  PROVE  Linked' /\ Recorded'
<1>t. /\ Root \in Tasks /\ disk[Root] \in Records /\ disk \in [Tasks -> Slots]
      /\ listed \in [Tasks -> Slots] /\ pc \in [Tasks -> Places] /\ obj \in [Tasks -> Slots]
      /\ queue \in Seq(Tasks) /\ buffer \in Seq(Tasks)
  BY MintAssumption DEF Sound, TypeOK, FramesOK
<1>q. Quiet => \A u \in Tasks : pc[u] = "idle"  BY DEF Quiet, AllIdle
<1>h. /\ \A u \in Tasks : disk[u] \in Records => HasRow(disk[u])
      /\ \A u \in Tasks : obj[u] \in Records => HasRow(obj[u])
      /\ \A u \in Tasks : listed[u] \in Records => HasRow(listed[u])
      /\ OneRow /\ (lane # "idle" => \A u \in Tasks : Owes(u))
  BY DEF Recorded
<1>s. \A u \in Tasks : obj[u] \in Records \/ listed[u] \in Records => disk[u] \in Records
  BY DEF Sound, FramesOK, LaneOK
<1>1. CASE Kickoff
  <2>1. /\ UNCHANGED <<disk, obj, listed, rows, emitted>> /\ lane = "idle" /\ lane' = "scan"
        /\ totell' = {t \in Tasks : Present(t) /\ disk[t].mint # 0 /\ ~disk[t].told}
    BY <1>1 DEF Kickoff, stores, frames
  <2>2. Linked'  BY <2>1 DEF Linked
  <2>3. \A u \in Tasks : Owes(u)'
    <3>1. \A u \in Tasks : disk[u] \in Records => Present(u)  BY SlotIsRecord DEF Present
    <3> QED BY <2>1, <3>1, <1>h DEF Owes, HasRow
  <2> QED BY <2>1, <2>2, <2>3, <1>h DEF Recorded, HasRow, OneRow
<1>2. CASE \E t \in Tasks : Recover(t)
  <2>1. PICK t \in Tasks : Recover(t)  BY <1>2
  <2>2. disk[t] \in Records /\ disk[t].mint # 0  BY <2>1 DEF Recover, Sound, LaneOK
  <2>3. /\ obj' = [obj EXCEPT ![t] = disk[t]] /\ pc' = [pc EXCEPT ![t] = "emit"]
        /\ totell' = totell \ {t} /\ lane = "scan"
        /\ UNCHANGED <<disk, listed, lane, rows, emitted, missed>>
    BY <2>1 DEF Recover, Move, stores, bounds
  <2>4. obj'[t] = disk[t] /\ \A u \in Tasks \ {t} : obj'[u] = obj[u]  BY <1>t, <2>3
  <2>5. pc'[t] = "emit" /\ \A u \in Tasks \ {t} : pc'[u] = pc[u]  BY <1>t, <2>3
  <2>6. Linked'  BY <2>2, <2>3, <2>4 DEF Linked, Same
  <2>7. \A u \in Tasks : Owes(u)'  BY <1>h, <2>3, <2>5 DEF Owes
  <2>8. \A u \in Tasks : (obj[u] \in Records => HasRow(obj[u]))'
    BY <1>h, <2>3, <2>4 DEF HasRow
  <2> QED BY <1>h, <2>3, <2>6, <2>7, <2>8 DEF Recorded, HasRow, OneRow
<1>d. ASSUME NEW S \in SUBSET Tasks, \A u \in S : disk[u] \in Records, Scanned,
             disk' = [u \in Tasks |-> IF u \in S THEN Reset(disk[u]) ELSE disk[u]],
             \A u \in Tasks : listed'[u] \in Records => listed'[u] = disk'[u],
             UNCHANGED <<obj, rows, emitted, missed, totell>>, lane' = "run"
      PROVE  Linked' /\ Recorded'
  <2>1. \A u \in Tasks : disk[u] \in Records =>
          /\ disk'[u] \in Records /\ disk'[u].by = disk[u].by /\ disk'[u].mint = disk[u].mint
          /\ disk'[u].told = disk[u].told
    BY <1>d, ResetFields
  <2>2. \A u \in Tasks : disk'[u] \in Records => disk[u] \in Records  BY <1>d
  <2>3. lane = "scan" /\ \A u \in Tasks : pc[u] # "emit"  BY <1>d, <1>q DEF Scanned
  <2>4. \A u \in Tasks : obj[u] \in Records => Same(obj[u], disk[u]) /\ obj[u].mint # 0
    BY <2>3 DEF Linked
  <2>5. \A u \in Tasks : disk'[u] \in Records =>
           /\ disk[u] \in Records /\ HasRow(disk'[u]) /\ disk'[u].mint \in {0, disk[u].mint}
           /\ obj[u] \in Records => Same(obj[u], disk'[u])
           /\ listed'[u] \in Records => Same(listed'[u], disk'[u])
    BY <1>d, <1>h, <2>1, <2>2, <2>4 DEF HasRow, Same
  <2>6. \A u \in Tasks : listed'[u] \in Records =>
           /\ HasRow(listed'[u]) /\ disk[u] \in Records
           /\ obj[u] \in Records => Same(listed'[u], obj[u])
    BY <1>d, <2>1, <2>2, <2>4, <2>5 DEF Same
  <2> QED BY <1>d, <2>1, <2>3, <2>5, <2>6, SaveIsRecorded
<1>3. CASE Dispatch
  <2>1. /\ Scanned /\ disk' = [disk EXCEPT ![Root] = Reset(disk[Root])]
        /\ listed' = [Nothing EXCEPT ![Root] = Reset(disk[Root])] /\ lane' = "run"
        /\ UNCHANGED <<obj, rows, emitted, missed, totell>>
    BY <1>3 DEF Dispatch, frames, bounds
  <2>2. disk' = [u \in Tasks |-> IF u \in {Root} THEN Reset(disk[u]) ELSE disk[u]]
    BY <1>t, <2>1
  <2>3. \A u \in Tasks : listed'[u] \in Records => listed'[u] = disk'[u]
    BY <1>t, <2>1, SlotIsRecord DEF Nothing
  <2> QED BY <1>t, <2>1, <2>2, <2>3, <1>d
<1>4. CASE Reopen
  <2>1. PICK S \in SUBSET Ticketed :
          disk' = [t \in Tasks |-> IF t \in S THEN Reset(disk[t]) ELSE disk[t]]
    BY <1>4 DEF Reopen
  <2>2. S \in SUBSET Tasks /\ \A u \in S : disk[u] \in Records
    BY <1>t, SlotIsRecord DEF Present, Ticketed
  <2>3. /\ Scanned /\ lane' = "run" /\ listed' = disk'
        /\ UNCHANGED <<obj, rows, emitted, missed, totell>>
    BY <1>4 DEF Reopen, frames
  <2> QED BY <2>1, <2>2, <2>3, <1>d
<1>5. CASE Begin
  <2> DEFINE h == Head(queue)
  <2>1. h \in Tasks /\ queue # <<>> /\ Quiet /\ lane = "run"
    BY <1>5, <1>t, TailOfTasks DEF Begin
  <2>2. listed[h] \in Records
    <3>1. listed[h].status = "open"  BY <1>5 DEF Begin
    <3>2. NoRecord.status = "absent"  BY DEF NoRecord
    <3> QED BY <1>t, <2>1, <3>1, <3>2, SlotIsRecord
  <2>3. /\ obj' = [obj EXCEPT ![h] = listed[h]] /\ pc' = [pc EXCEPT ![h] = "enter"]
        /\ UNCHANGED <<disk, listed, lane, totell, rows, emitted, missed>>
    BY <1>5 DEF Begin, Move, stores, bounds
  <2> HIDE DEF h
  <2>4. obj'[h] = listed[h] /\ \A u \in Tasks \ {h} : obj'[u] = obj[u]  BY <1>t, <2>1, <2>3
  <2>5. \A u \in Tasks : pc[u] # "emit"  BY <1>q, <2>1
  <2>6. Linked'  BY <2>1, <2>2, <2>3, <2>4 DEF Linked, Same
  <2>7. \A u \in Tasks : Owes(u)'  BY <1>h, <2>1, <2>3, <2>5 DEF Owes
  <2>8. \A u \in Tasks : (obj[u] \in Records => HasRow(obj[u]))'
    BY <1>h, <2>2, <2>3, <2>4 DEF HasRow
  <2> QED BY <1>h, <2>3, <2>6, <2>7, <2>8 DEF Recorded, HasRow, OneRow
<1>6. CASE Skip \/ Stop
  <2>1. UNCHANGED <<disk, obj, listed, lane, pc, totell, rows, emitted, missed>>
    BY <1>6 DEF Skip, Stop, stores, frames, bounds
  <2> QED BY <2>1 DEF Linked, Recorded, HasRow, OneRow, Owes
<1>7. CASE TaskDone
  <2> DEFINE h == Head(queue)
  <2>1. /\ queue # <<>> /\ pc[h] = "done" /\ lane = "run" /\ lane' \in {"run", "merge"}
        /\ disk' = disk \/ disk' = [disk EXCEPT ![h] = obj[h]]
        /\ UNCHANGED <<obj, listed, rows, emitted, missed, totell>>
    BY <1>7 DEF TaskDone, bounds
  <2>2. h \in Tasks  BY <1>t, <2>1, TailOfTasks
  <2> HIDE DEF h
  <2>3. obj[h] \in Records /\ disk[h] \in Records  BY <2>1, <2>2 DEF Sound, FramesOK
  <2>4. \A u \in Tasks : pc[u] # "emit"  BY <2>1, <2>2 DEF Sound, FramesOK, Moving
  <2>5. /\ disk'[h] = disk[h] \/ disk'[h] = obj[h]
        /\ \A u \in Tasks \ {h} : disk'[u] = disk[u]
    BY <1>t, <2>1
  <2>6. obj[h].mint \in {0, disk[h].mint}  BY <2>2, <2>3 DEF Linked, Same
  <2>7. \A u \in Tasks : disk'[u] \in Records =>
           /\ disk[u] \in Records /\ HasRow(disk'[u]) /\ disk'[u].mint \in {0, disk[u].mint}
           /\ obj[u] \in Records => Same(obj[u], disk'[u])
           /\ listed[u] \in Records => Same(listed[u], disk'[u])
    BY <1>h, <2>2, <2>3, <2>5, <2>6 DEF Linked, Same
  <2>8. \A u \in Tasks : disk[u] \in Records => disk'[u] \in Records  BY <2>3, <2>5
  <2>9. \A u \in Tasks : listed[u] \in Records =>
           /\ HasRow(listed[u]) /\ disk[u] \in Records
           /\ obj[u] \in Records => Same(listed[u], obj[u])
    BY <1>h, <1>s DEF Linked
  <2> QED BY <2>1, <2>4, <2>7, <2>8, <2>9, SaveIsRecorded
<1>8. CASE Merge
  <2> DEFINE h == Head(buffer)
  <2>1. /\ buffer # <<>> /\ disk' = [disk EXCEPT ![h] = Merged(disk[h], obj[h])] /\ lane = "merge"
        /\ UNCHANGED <<obj, listed, lane, rows, emitted, missed, totell>>
    BY <1>8 DEF Merge, frames, bounds
  <2>2. h \in Tasks /\ obj[h] \in Records
    BY <2>1, <1>t, TailOfTasks DEF Sound, LaneOK
  <2> HIDE DEF h
  <2>3. disk[h] \in Records  BY <2>2 DEF Sound, FramesOK
  <2>4. \A u \in Tasks : pc[u] # "emit"  BY <2>1 DEF Sound, LaneOK
  <2>5. Same(obj[h], disk[h]) /\ HasRow(obj[h]) /\ HasRow(disk[h])
    BY <1>h, <2>2, <2>3 DEF Linked
  <2> DEFINE q == Merged(disk[h], obj[h])
  <2>6. q \in Records /\ q.by = disk[h].by /\ q.mint = disk[h].mint /\ HasRow(q)
    BY <2>2, <2>3, <2>5, MergedFields DEF Same, HasRow
  <2>7. disk'[h] = q /\ \A u \in Tasks \ {h} : disk'[u] = disk[u]  BY <1>t, <2>1, <2>2
  <2> HIDE DEF q
  <2>8. \A u \in Tasks : disk'[u] \in Records =>
           /\ disk[u] \in Records /\ HasRow(disk'[u]) /\ disk'[u].mint \in {0, disk[u].mint}
           /\ obj[u] \in Records => Same(obj[u], disk'[u])
           /\ listed[u] \in Records => Same(listed[u], disk'[u])
    BY <1>h, <2>3, <2>6, <2>7 DEF Linked, Same
  <2>9. \A u \in Tasks : disk[u] \in Records => disk'[u] \in Records  BY <2>6, <2>7
  <2>10. \A u \in Tasks : listed[u] \in Records =>
           /\ HasRow(listed[u]) /\ disk[u] \in Records
           /\ obj[u] \in Records => Same(listed[u], obj[u])
    BY <1>h, <1>s DEF Linked
  <2> QED BY <2>1, <2>4, <2>8, <2>9, <2>10, SaveIsRecorded
<1> QED BY <1>1, <1>2, <1>3, <1>4, <1>5, <1>6, <1>7, <1>8

\* Where an exception leaves the redo path no disclosure is under way.
LEMMA RaisedFrom ==
  ASSUME Sound, Foreign \/ Raise
  PROVE  \E t \in Tasks : pc[t] # "idle" /\ \A u \in Tasks : pc[u] # "emit"
<1>1. PICK t \in Tasks : pc[t] = "kids" \/ (pc[t] = "waiting" /\ pc[ChildAt(t)] = "done")
  BY DEF Foreign, Raise
<1>2. pc[t] = "waiting" => ChildAt(t) \in Tasks
  <2>1. pc[t] = "waiting" => at[t] \in Nat \ {0} /\ at[t] <= Len(Kids[t])
    BY DEF Sound, FramesOK, TypeOK
  <2> QED BY <2>1, KidsAreTasks DEF ChildAt
<1> QED BY <1>1, <1>2 DEF Sound, FramesOK, Moving

LEMMA StepIsRecorded ==
  Sound /\ Linked /\ Recorded /\ [Next]_vars => Linked' /\ Recorded'
<1> SUFFICES ASSUME Sound, Linked, Recorded, [Next]_vars PROVE Linked' /\ Recorded'
  OBVIOUS
<1>1. ASSUME NEW t \in Tasks, Frame(t) PROVE Linked' /\ Recorded'
  <2>1. CASE \/ Resume(t) \/ Bail(t) \/ Count(t) \/ Claim(t) \/ ClaimFails(t) \/ QCFix(t)
             \/ Produced(t) \/ Refuse(t) \/ Commit(t) \/ SkipEmit(t) \/ Emit(t) \/ EmitFails(t)
             \/ Mark(t) \/ Container(t)
    <3>1. /\ Moving(t) /\ obj[t] \in Records
          /\ \E r \in Records, place \in Places : Moves(t, r, place)
      BY <2>1, SeamMoves
    <3> QED BY <3>1, MoveIsRecorded
  <2>2. CASE Preserve(t) \/ SettleClaim(t) \/ RunChild(t) \/ ChildDone(t)
    <3> DEFINE k == ChildAt(t)
    <3>1. k \in KidSet(t) /\ k \in Tasks /\ obj[k] \in Records /\ \E r \in Records : Turned(t, k, r)
      BY <2>2, LoopTurns
    <3> HIDE DEF k
    <3> QED BY <3>1, TurnIsRecorded
  <2> QED BY <1>1, <2>1, <2>2, CreateIsRecorded, LoadIsRecorded DEF Frame
<1>2. CASE LaneEnds \/ Crash
  <2>1. Forget /\ UNCHANGED <<disk, rows>> /\ emitted' \subseteq emitted
    BY <1>2 DEF LaneEnds, Crash, stores, bounds
  <2> QED BY <2>1, ForgetIsRecorded
<1>3. CASE Teardown
  <2>1. /\ Forget /\ rows' = rows /\ emitted' \subseteq emitted
        /\ \A u \in Tasks : disk'[u] \in Records =>
             disk[u] \in Records /\ disk'[u].mint = disk[u].mint /\ disk'[u].told = disk[u].told
    BY <1>3, TeardownFields
  <2> QED BY <2>1, ForgetIsRecorded
<1>4. CASE Foreign \/ Raise
  <2>1. Escape /\ UNCHANGED <<disk, rows, emitted, missed>>
    BY <1>4 DEF Foreign, Raise, stores, bounds
  <2> QED BY <1>4, <2>1, RaisedFrom, EscapeIsRecorded
<1>5. CASE UNCHANGED vars
  <2>1. UNCHANGED <<disk, obj, listed, lane, pc, totell, rows, emitted, missed>>
    BY <1>5 DEF vars
  <2> QED BY <2>1 DEF Linked, Recorded, HasRow, OneRow, Owes
<1> QED BY <1>1, <1>2, <1>3, <1>4, <1>5, LaneIsRecorded DEF Next, Work

\* A mint has one row in the audit file at most, over any number of crashes, lost
\* saves and failed appends, and while a lane runs every mint in a file has its row
\* but the one being disclosed and those whose append failed in this run
\* (_emit_decompose_mint, _recover_pending_mint_disclosures).
THEOREM MintDisclosed == Spec => []Disclosed
<1>1. Sound /\ Recorded => Disclosed
  <2> SUFFICES ASSUME Sound, Recorded PROVE Disclosed  OBVIOUS
  <2>1. \A t \in Tasks : Present(t) => disk[t] \in Records
    BY SlotIsRecord DEF Sound, TypeOK, Present
  <2>2. lane # "scan" => totell = {}  BY DEF Sound, LaneOK
  <2> QED BY <2>1, <2>2 DEF Recorded, OneRow, Owes, Disclosed
<1>2. Sound /\ Linked /\ Recorded /\ [Next]_vars => (Sound /\ Linked /\ Recorded)'
  BY StepIsSound, StepIsRecorded
<1> QED BY <1>1, <1>2, InitSound, InitRecorded, PTL DEF Spec

-----------------------------------------------------------------------------
(* The tree of the mints: who is whose child. *)

\* A mint is of one task.
Numbered ==
  /\ \A t \in Tasks : disk[t] \in Records => disk[t].mint <= minted
  /\ \A t, u \in Tasks : disk[t] \in Records /\ disk[u] \in Records
                         /\ disk[t].mint # 0 /\ disk[t].mint = disk[u].mint => t = u

\* While a lane runs, the children of a loop are its mint's, and a frame other than
\* the planned task's is that of the child a waiting one is at.
Chained ==
  /\ \A t \in Tasks : pc[t] \in {"loop", "waiting"} =>
       \A k \in KidSet(t) : disk[k] \in Records /\ disk[k].by = obj[t].mint
  /\ \A t \in Tasks \ {Root} : pc[t] # "idle" =>
       \E p \in Tasks : pc[p] = "waiting" /\ ChildAt(p) = t

\* The files' mints stay, or go: none is drawn.
LEMMA StaysNumbered ==
  ASSUME Sound, Numbered, minted' = minted,
         \A u \in Tasks : disk'[u] \in Records /\ disk'[u].mint # 0 =>
           disk[u] \in Records /\ disk'[u].mint = disk[u].mint
  PROVE  Numbered'
<1>1. minted \in Nat  BY MintAssumption DEF Sound, TypeOK
<1>2. \A u \in Tasks : disk'[u] \in Records => disk'[u].mint <= minted'
  BY <1>1 DEF Numbered
<1>3. \A t, u \in Tasks : disk'[t] \in Records /\ disk'[u] \in Records
                         /\ disk'[t].mint # 0 /\ disk'[t].mint = disk'[u].mint => t = u
  BY DEF Numbered
<1> QED BY <1>2, <1>3 DEF Numbered

LEMMA MoveIsNumbered ==
  ASSUME Sound, Linked, Numbered, NEW t \in Tasks, NEW r \in Records, NEW place \in Places,
         obj[t] \in Records, Moves(t, r, place)
  PROVE  Numbered'
<1>1. disk \in [Tasks -> Slots] /\ disk[t] \in Records /\ minted \in Nat
  BY MintAssumption DEF Sound, TypeOK, FramesOK
<1>2. disk'[t] \in {disk[t], r} /\ \A u \in Tasks \ {t} : disk'[u] = disk[u]
  BY <1>1 DEF Moves
<1>3. CASE r.mint = obj[t].mint /\ minted' = minted
  <2>1. r.mint # 0 => r.mint = disk[t].mint  BY <1>1, <1>3 DEF Linked, Same
  <2> QED BY <1>1, <1>2, <1>3, <2>1, StaysNumbered
<1>4. CASE minted' = minted + 1 /\ r.mint = minted' /\ disk' = [disk EXCEPT ![t] = r]
  <2>1. disk'[t] = r  BY <1>1, <1>4
  <2>2. \A u \in Tasks \ {t} : disk'[u] \in Records => disk'[u].mint <= minted
    BY <1>2 DEF Numbered
  <2>3. \A u \in Tasks : disk'[u] \in Records => disk'[u].mint \in Nat
    BY MintAssumption DEF Records
  <2>4. \A u \in Tasks : disk'[u] \in Records => disk'[u].mint <= minted'
    BY <1>1, <1>4, <2>1, <2>2, <2>3
  <2>5. \A u \in Tasks \ {t} : disk'[u] \in Records => disk'[u].mint # r.mint
    BY <1>1, <1>4, <2>2, <2>3
  <2>6. \A u, v \in Tasks : disk'[u] \in Records /\ disk'[v] \in Records
                         /\ disk'[u].mint # 0 /\ disk'[u].mint = disk'[v].mint => u = v
    BY <1>2, <2>1, <2>5 DEF Numbered
  <2> QED BY <2>4, <2>6 DEF Numbered
<1> QED BY <1>3, <1>4 DEF Moves

LEMMA StepIsNumbered == Sound /\ Linked /\ Numbered /\ [Next]_vars => Numbered'
<1> SUFFICES ASSUME Sound, Linked, Numbered, [Next]_vars PROVE Numbered'
  OBVIOUS
<1>t. /\ Root \in Tasks /\ disk[Root] \in Records /\ disk \in [Tasks -> Slots]
      /\ pc \in [Tasks -> Places] /\ obj \in [Tasks -> Slots]
      /\ queue \in Seq(Tasks) /\ buffer \in Seq(Tasks)
  BY MintAssumption DEF Sound, TypeOK, FramesOK
<1>a. ASSUME NEW t \in Tasks, NEW q, q.mint # 0 => disk[t].mint = q.mint, disk[t] \in Records,
             minted' = minted, disk' = disk \/ disk' = [disk EXCEPT ![t] = q]
      PROVE  Numbered'
  <2>1. disk'[t] \in {disk[t], q} /\ \A u \in Tasks \ {t} : disk'[u] = disk[u]
    BY <1>t, <1>a
  <2> QED BY <1>a, <2>1, StaysNumbered
<1>b. \A t \in Tasks : obj[t] \in Records =>
        disk[t] \in Records /\ (obj[t].mint # 0 => disk[t].mint = obj[t].mint)
  BY DEF Linked, Same, Sound, FramesOK
<1>1. ASSUME NEW t \in Tasks, Frame(t) PROVE Numbered'
  <2>1. CASE \/ Resume(t) \/ Bail(t) \/ Count(t) \/ Claim(t) \/ ClaimFails(t) \/ QCFix(t)
             \/ Produced(t) \/ Refuse(t) \/ Commit(t) \/ SkipEmit(t) \/ Emit(t) \/ EmitFails(t)
             \/ Mark(t) \/ Container(t)
    <3>1. /\ obj[t] \in Records
          /\ \E r \in Records, place \in Places : Moves(t, r, place)
      BY <2>1, SeamMoves
    <3> QED BY <3>1, MoveIsNumbered
  <2>2. CASE Preserve(t) \/ SettleClaim(t) \/ RunChild(t) \/ ChildDone(t)
    <3> DEFINE k == ChildAt(t)
    <3>1. k \in KidSet(t) /\ k \in Tasks /\ obj[k] \in Records /\ \E r \in Records : Turned(t, k, r)
      BY <2>2, LoopTurns
    <3> HIDE DEF k
    <3>2. PICK r \in Records : Turned(t, k, r)  BY <3>1
    <3>3. r.mint = obj[k].mint /\ minted' = minted
          /\ (disk' = disk \/ disk' = [disk EXCEPT ![k] = r])
      BY <3>2 DEF Turned, Persist
    <3> QED BY <3>1, <3>3, <1>a, <1>b
  <2>3. CASE Create(t)
    <3>1. PICK k \in KidSet(t) : \E f \in Records :
             k \in Tasks \ {Root} /\ disk' = [disk EXCEPT ![k] = f] /\ f.mint = 0
      BY <2>3, CreateLaysOut
    <3>2. \A u \in Tasks : disk'[u] = disk[u] \/ disk'[u].mint = 0  BY <1>t, <3>1
    <3>3. minted' = minted  BY <2>3 DEF Create
    <3> QED BY <3>2, <3>3, StaysNumbered
  <2>4. CASE Load(t)
    <3>1. PICK p \in Records :
             /\ p.mint = obj[t].mint /\ (disk'[t] = disk[t] \/ disk'[t] = p)
             /\ \A u \in Tasks \ {t} : disk'[u] = disk[u]
             /\ obj[t] \in Records /\ disk[t] \in Records /\ minted' = minted
      BY <2>4, LoadTakes
    <3>2. p.mint # 0 => disk[t].mint = p.mint  BY <3>1, <1>b
    <3> QED BY <3>1, <3>2, StaysNumbered
  <2> QED BY <1>1, <2>1, <2>2, <2>3, <2>4 DEF Frame
<1>2. CASE LaneEnds \/ Crash \/ Foreign \/ Raise
  <2>1. disk' = disk /\ minted' = minted
    BY <1>2 DEF LaneEnds, Crash, Foreign, Raise, stores, bounds
  <2> QED BY <2>1, StaysNumbered
<1>3. CASE Kickoff \/ Begin \/ Skip \/ Stop \/ \E t \in Tasks : Recover(t)
  <2>1. disk' = disk /\ minted' = minted
    BY <1>3 DEF Kickoff, Begin, Skip, Stop, Recover, stores, bounds
  <2> QED BY <2>1, StaysNumbered
<1>4. CASE Dispatch
  <2>1. disk' = [disk EXCEPT ![Root] = Reset(disk[Root])] /\ minted' = minted
    BY <1>4 DEF Dispatch
  <2>2. Reset(disk[Root]).mint = disk[Root].mint  BY <1>t, ResetFields
  <2> QED BY <1>t, <2>1, <2>2, <1>a
<1>5. CASE Reopen
  <2>1. PICK S \in SUBSET Ticketed :
          disk' = [t \in Tasks |-> IF t \in S THEN Reset(disk[t]) ELSE disk[t]]
    BY <1>5 DEF Reopen
  <2>2. \A u \in S : disk[u] \in Records  BY <1>t, <2>1, SlotIsRecord DEF Present, Ticketed
  <2>3. \A u \in Tasks : disk'[u] \in Records => disk[u] \in Records /\ disk'[u].mint = disk[u].mint
    BY <2>1, <2>2, ResetFields
  <2>4. minted' = minted  BY <1>5 DEF Reopen
  <2> QED BY <2>3, <2>4, StaysNumbered
<1>6. CASE TaskDone
  <2> DEFINE h == Head(queue)
  <2>1. /\ queue # <<>> /\ pc[h] = "done" /\ minted' = minted
        /\ disk' = disk \/ disk' = [disk EXCEPT ![h] = obj[h]]
    BY <1>6 DEF TaskDone
  <2>2. h \in Tasks  BY <1>t, <2>1, TailOfTasks
  <2> HIDE DEF h
  <2>3. obj[h] \in Records  BY <2>1, <2>2 DEF Sound, FramesOK
  <2> QED BY <2>1, <2>2, <2>3, <1>a, <1>b
<1>7. CASE Merge
  <2> DEFINE h == Head(buffer)
  <2>1. /\ buffer # <<>> /\ disk' = [disk EXCEPT ![h] = Merged(disk[h], obj[h])]
        /\ minted' = minted
    BY <1>7 DEF Merge
  <2>2. h \in Tasks /\ obj[h] \in Records
    BY <2>1, <1>t, TailOfTasks DEF Sound, LaneOK
  <2> HIDE DEF h
  <2> DEFINE q == Merged(disk[h], obj[h])
  <2>3. q.mint # 0 => disk[h].mint = q.mint  BY <1>b, <2>2, MergedFields
  <2>4. disk' = [disk EXCEPT ![h] = q]  BY <2>1
  <2> HIDE DEF q
  <2> QED BY <2>1, <2>2, <2>3, <2>4, <1>a, <1>b
<1>8. CASE UNCHANGED vars
  <2>1. disk' = disk /\ minted' = minted  BY <1>8 DEF vars
  <2> QED BY <2>1, StaysNumbered
<1>9. CASE Teardown
  <2>1. /\ minted' = minted
        /\ \A u \in Tasks : disk'[u] \in Records => disk[u] \in Records /\ disk'[u].mint = disk[u].mint
    BY <1>9, TeardownFields
  <2> QED BY <2>1, StaysNumbered
<1> QED BY <1>1, <1>2, <1>3, <1>4, <1>5, <1>6, <1>7, <1>8, <1>9 DEF Next, Work

\* A child of two tasks, one of them in its loop, is of one mint, and so are they.
LEMMA OneParent ==
  ASSUME Sound, Sure, Linked, Numbered, Chained,
         NEW p \in Tasks, NEW t \in Tasks, NEW k \in KidSet(t), k \in KidSet(p),
         pc[p] \in {"loop", "waiting"}, obj[t] \in Records, disk[k].by = obj[t].mint
  PROVE  p = t
<1>1. k \in Tasks \ {Root} /\ disk[k] \in Records /\ disk[k].by = obj[p].mint
  BY KidsAreTasks DEF Chained
<1>2. obj[t].mint # 0  BY <1>1 DEF Sure, Backed, Proper
<1>3. obj[p] \in Records /\ disk[p] \in Records /\ disk[t] \in Records
  BY DEF Sound, FramesOK
<1>4. disk[p].mint = obj[p].mint /\ disk[t].mint = obj[t].mint
  BY <1>1, <1>2, <1>3 DEF Linked, Same
<1> QED BY <1>1, <1>2, <1>3, <1>4 DEF Numbered

\* Of the children of a loop none has a frame but the one it waits for.
LEMMA KidsRest ==
  ASSUME Sound, Sure, Linked, Numbered, Chained,
         NEW t \in Tasks, NEW k \in KidSet(t), pc[k] # "idle", pc[t] \in {"loop", "waiting"}
  PROVE  pc[t] = "waiting" /\ k = ChildAt(t)
<1>1. k \in Tasks \ {Root} /\ disk[k].by = obj[t].mint  BY KidsAreTasks DEF Chained
<1>2. PICK p \in Tasks : pc[p] = "waiting" /\ ChildAt(p) = k  BY <1>1 DEF Chained
<1>3. k \in KidSet(p)
  <2>1. at[p] \in Nat \ {0} /\ at[p] <= Len(Kids[p])  BY <1>2 DEF Sound, FramesOK, TypeOK
  <2> QED BY <1>2, <2>1, KidsAreTasks DEF ChildAt
<1>4. obj[t] \in Records  BY DEF Sound, FramesOK
<1>5. p = t  BY <1>1, <1>2, <1>3, <1>4, OneParent
<1> QED BY <1>2, <1>5

-----------------------------------------------------------------------------
(* What the planned task's file says of its children's. *)

\* What the object of k came to is in its file, or left to the merge.
Saved(k) == disk[k].status = obj[k].status \/ (worker /\ \E i \in DOMAIN buffer : buffer[i] = k)

\* Every child of the planned task is completed: in memory and saved, or in its file.
Whole == \A k \in KidSet(Root) : obj[k] \in Records /\ obj[k].status = "completed" /\ Saved(k)
Ended == \A k \in KidSet(Root) : disk[k] \in Records /\ disk[k].status = "completed"

\* While a lane runs, the planned task's file is open until the task is done; and a
\* child without a frame is saved as it is.
Running ==
  /\ Chained
  /\ pc[Root] \notin {"idle", "done"} => obj[Root].status = "open"
  /\ disk[Root].status = "open" \/ (Quiet /\ queue = <<>>)
  /\ pc[Root] \in {"loop", "waiting"} => \A k \in KidSet(Root) : pc[k] = "idle" => Saved(k)
  /\ pc[Root] = "done" /\ obj[Root].mint # 0 /\ obj[Root].status = "completed" => Whole

Merging ==
  /\ disk[Root].mint # 0
  /\ disk[Root].status = "completed" \/ (obj[Root] \in Records /\ obj[Root].status = "completed")
  => Whole

Scanning == \A t \in Tasks : pc[t] # "idle" => obj[t].status = disk[t].status

Followed == ~torn /\ disk[Root].mint # 0 /\ disk[Root].status = "completed" => Ended

Settled ==
  reopens = 0 =>
    /\ lane = "run" => Running
    /\ lane = "merge" => Merging
    /\ lane = "scan" => Scanning
    /\ lane # "merge" => Followed

\* All that is known of a mint, from its commit to the end of its run.
Held == Sound /\ Sure /\ Linked /\ Numbered /\ Settled

\* An open file of the planned task promises nothing.
LEMMA OpenIsFollowed == disk[Root].status = "open" => Followed
BY DEF Followed

\* A frame that moves leaves the tree as it is.
LEMMA MoveIsChained ==
  ASSUME Sound, Linked, Chained, NEW t \in Tasks, NEW r \in Records, NEW place \in Places,
         Moving(t), obj[t] \in Records, Moves(t, r, place), r.mint = obj[t].mint \/ place = "emit"
  PROVE  Chained'
<1>1. /\ disk \in [Tasks -> Slots] /\ obj \in [Tasks -> Slots] /\ pc \in [Tasks -> Places]
      /\ disk[t] \in Records
  BY DEF Sound, TypeOK, FramesOK
<1>2. /\ pc'[t] = place /\ \A u \in Tasks \ {t} : pc'[u] = pc[u] /\ obj'[u] = obj[u]
      /\ disk'[t] \in {disk[t], r} /\ \A u \in Tasks \ {t} : disk'[u] = disk[u]
      /\ at' = at /\ place \notin {"loop", "waiting"}
  BY <1>1 DEF Moves
<1>3. r.by = disk[t].by  BY DEF Moves, Linked, Same
<1>4. pc[t] # "waiting" /\ pc[t] # "idle"  BY DEF Moving
<1>5. \A u \in Tasks : pc'[u] \in {"loop", "waiting"} =>
        \A k \in KidSet(u) : disk'[k] \in Records /\ disk'[k].by = obj'[u].mint
  BY <1>2, <1>3, KidsAreTasks DEF Chained
<1>6. \A u \in Tasks \ {Root} : pc'[u] # "idle" =>
        \E p \in Tasks : pc'[p] = "waiting" /\ ChildAt(p)' = u
  <2>1. \A p \in Tasks : pc[p] = "waiting" => pc'[p] = "waiting" /\ ChildAt(p)' = ChildAt(p)
    BY <1>2, <1>4 DEF ChildAt
  <2> QED BY <1>2, <1>4, <2>1 DEF Chained
<1> QED BY <1>5, <1>6 DEF Chained, KidSet

LEMMA MoveIsSettled ==
  ASSUME Held, reopens = 0, NEW t \in Tasks, NEW r \in Records, NEW place \in Places,
         Moving(t), obj[t] \in Records, Moves(t, r, place)
  PROVE  Settled'
<1>t. /\ disk \in [Tasks -> Slots] /\ obj \in [Tasks -> Slots] /\ pc \in [Tasks -> Places]
      /\ disk[t] \in Records /\ Root \in Tasks /\ Sound /\ Sure /\ Linked /\ Numbered
  BY MintAssumption DEF Held, Sound, TypeOK, FramesOK
<1>1. /\ pc'[t] = place /\ \A u \in Tasks \ {t} : pc'[u] = pc[u] /\ obj'[u] = obj[u]
      /\ obj'[t] = r /\ \A u \in Tasks \ {t} : disk'[u] = disk[u]
      /\ disk'[t] = disk[t] \/ (disk'[t] = r /\ place # "done")
      /\ place = "done" => disk' = disk
      /\ UNCHANGED <<at, lane, queue, worker, buffer, torn, reopens>>
      /\ place \notin {"loop", "waiting"} /\ (lane = "run" => place # "idle") /\ pc[t] # "done"
      /\ place # "done" => r.status = obj[t].status
  BY <1>t DEF Moves
<1>2. lane \in {"run", "scan"}
  BY <1>t DEF Sound, TypeOK, LaneOK, Moving
<1>q. ~Quiet  BY DEF Quiet, AllIdle, Moving
<1>3. CASE lane = "scan"
  <2>1. pc[t] \in {"emit", "mark"} /\ obj[t].mint # 0
    BY <1>t, <1>3 DEF Sound, LaneOK, FramesOK, Moving
  <2>2. Scanning /\ Followed /\ obj[t].status = disk[t].status
    BY <1>3, <2>1 DEF Held, Settled, Scanning
  <2>3. r.status = disk[t].status /\ r.mint = disk[t].mint
    BY <1>t, <2>1, <2>2 DEF Moves, Linked, Same
  <2>4. \A u \in Tasks : disk'[u].status = disk[u].status /\ disk'[u].mint = disk[u].mint
                         /\ (disk[u] \in Records => disk'[u] \in Records)
    BY <1>1, <2>3
  <2>5. Scanning'  BY <1>1, <2>2, <2>3, <2>4 DEF Scanning
  <2>6. Followed'  BY <1>t, <1>1, <2>2, <2>4, KidsAreTasks DEF Followed, Ended, KidSet
  <2> QED BY <1>1, <1>3, <2>5, <2>6 DEF Settled
<1>4. CASE lane = "run"
  <2>1. Running  BY <1>4 DEF Held, Settled
  <2>2. Chained'
    <3>1. r.mint = obj[t].mint \/ place = "emit"  BY DEF Moves
    <3> QED BY <1>t, <2>1, <3>1, MoveIsChained DEF Running
  <2>3. t = Root => obj[Root].status = "open"  BY <1>1, <2>1 DEF Running, Moving
  <2>4. disk'[Root].status = "open"  BY <1>t, <1>q, <1>1, <2>1, <2>3 DEF Running
  <2>5. pc'[Root] \notin {"idle", "done"} => obj'[Root].status = "open"
    BY <1>t, <1>1, <2>1, <2>3 DEF Running
  <2>k. KidSet(Root) \subseteq Tasks \ {Root}  BY <1>t, KidsAreTasks
  <2>6. pc'[Root] \in {"loop", "waiting"} => \A k \in KidSet(Root) : pc'[k] = "idle" => Saved(k)'
    <3> SUFFICES ASSUME pc'[Root] \in {"loop", "waiting"}, NEW k \in KidSet(Root), pc'[k] = "idle"
                 PROVE  Saved(k)'
      OBVIOUS
    <3>1. k # t /\ k \in Tasks /\ Root # t  BY <1>1, <1>4, <2>k
    <3>2. Saved(k)  BY <1>t, <1>1, <2>1, <3>1 DEF Running
    <3> QED BY <1>1, <3>1, <3>2 DEF Saved
  <2>7. pc'[Root] = "done" /\ obj'[Root].mint # 0 /\ obj'[Root].status = "completed" => Whole'
    <3> SUFFICES ASSUME pc'[Root] = "done", obj'[Root].mint # 0, obj'[Root].status = "completed"
                 PROVE  Whole'
      OBVIOUS
    <3>1. t = Root
      <4>1. t # Root => Moving(Root)  BY <1>t, <1>1 DEF Moving
      <4> QED BY <1>t, <4>1 DEF Sound, FramesOK
    <3>2. place = "done" /\ r.mint # 0 /\ r.status = "completed"  BY <1>1, <3>1
    <3>3. pc[Root] = "loop" /\ Outcome(Root) = "completed"
      BY <3>1, <3>2 DEF Moves
    <3>4. \A k \in KidSet(Root) : obj[k].status = "completed"  BY <3>3 DEF Outcome
    <3>5. \A k \in KidSet(Root) : obj[k] \in Records  BY <1>t, <3>3 DEF Sound, FramesOK
    <3>6. \A k \in KidSet(Root) : pc[k] = "idle"
      BY <1>t, <2>1, <3>3, KidsRest DEF Running
    <3>7. \A k \in KidSet(Root) : Saved(k)  BY <2>1, <3>3, <3>6 DEF Running
    <3>8. \A k \in KidSet(Root) : Saved(k)'
      BY <1>1, <2>k, <3>1, <3>2, <3>7 DEF Saved
    <3> QED BY <1>1, <2>k, <3>1, <3>4, <3>5, <3>8 DEF Whole, KidSet
  <2>8. Running'  BY <2>2, <2>4, <2>5, <2>6, <2>7 DEF Running, KidSet
  <2> QED BY <1>1, <1>4, <2>4, <2>8, OpenIsFollowed DEF Settled, Followed
<1> QED BY <1>2, <1>3, <1>4

\* A child that is saved, or left to the merge, is; and what is left stays so.
LEMMA PersistSaves ==
  ASSUME Sound, NEW k \in Tasks, NEW r, Persist(k, r) \/ UNCHANGED <<disk, buffer>>, worker' = worker
  PROVE  /\ \A i \in DOMAIN buffer : \E j \in DOMAIN buffer' : buffer'[j] = buffer[i]
         /\ \A u \in Tasks \ {k} : disk'[u] = disk[u]
         /\ disk'[k] \in {disk[k], r}
         /\ Persist(k, r) => disk'[k] = r \/ (worker' /\ \E i \in DOMAIN buffer' : buffer'[i] = k)
<1>1. buffer \in Seq(Tasks) /\ disk \in [Tasks -> Slots]  BY DEF Sound, TypeOK
<1>2. \A i \in DOMAIN buffer : i \in DOMAIN Append(buffer, k) /\ Append(buffer, k)[i] = buffer[i]
  BY <1>1
<1>3. Len(buffer) + 1 \in DOMAIN Append(buffer, k) /\ Append(buffer, k)[Len(buffer) + 1] = k
  BY <1>1
<1>4. CASE Persist(k, r) /\ worker
  <2>1. disk' = disk /\ buffer' \in {buffer, Append(buffer, k)}  BY <1>4 DEF Persist
  <2>2. \E i \in DOMAIN buffer' : buffer'[i] = k  BY <1>3, <1>4 DEF Persist
  <2> QED BY <1>2, <1>4, <2>1, <2>2
<1>5. CASE Persist(k, r) /\ ~worker
  <2>1. disk' = [disk EXCEPT ![k] = r] /\ buffer' = buffer  BY <1>5 DEF Persist
  <2> QED BY <1>1, <2>1
<1>6. CASE ~Persist(k, r)  BY <1>6
<1> QED BY <1>4, <1>5, <1>6

LEMMA TurnIsSettled ==
  ASSUME Held, reopens = 0, NEW t \in Tasks, NEW k \in KidSet(t), k \in Tasks, k = ChildAt(t),
         NEW r \in Records, obj[k] \in Records, Turned(t, k, r)
  PROVE  Settled'
<1>t. /\ disk \in [Tasks -> Slots] /\ obj \in [Tasks -> Slots] /\ pc \in [Tasks -> Places]
      /\ disk[k] \in Records /\ Root \in Tasks /\ Sound /\ Sure /\ Linked /\ Numbered
      /\ at \in [Tasks -> Nat \ {0}]
  BY MintAssumption DEF Held, Sound, TypeOK, FramesOK
<1>1. pc[t] \in {"loop", "waiting"}  BY DEF Turned
<1>2. lane = "run"  BY <1>t, <1>1 DEF Sound, TypeOK, LaneOK
<1>3. Running /\ k # Root /\ Chained
  BY <1>2, KidsAreTasks DEF Held, Settled, Running
<1>4. /\ UNCHANGED <<lane, queue, worker, torn, reopens>> /\ r.by = obj[k].by
      /\ r.mint = obj[k].mint
  BY DEF Turned
<1>5. obj'[k] = r /\ \A u \in Tasks \ {k} : obj'[u] = obj[u]  BY <1>t DEF Turned
<1>6. /\ \A i \in DOMAIN buffer : \E j \in DOMAIN buffer' : buffer'[j] = buffer[i]
      /\ \A u \in Tasks \ {k} : disk'[u] = disk[u]
      /\ disk'[k] \in {disk[k], r}
      /\ Persist(k, r) => disk'[k] = r \/ (worker' /\ \E i \in DOMAIN buffer' : buffer'[i] = k)
  BY <1>t, <1>4, PersistSaves DEF Turned
<1>7. \/ pc' = pc /\ pc[t] = "loop"
      \/ pc[t] = "loop" /\ pc' = [pc EXCEPT ![t] = "waiting", ![k] = "enter"] /\ at' = at
      \/ pc[t] = "waiting" /\ pc[k] = "done" /\ pc' = [pc EXCEPT ![t] = "loop", ![k] = "idle"]
  BY DEF Turned
<1>8. \A u \in Tasks \ {t} : at'[u] = at[u]  BY <1>t DEF Turned, NextChild
<1>9. pc[t] = "loop" => pc[k] = "idle"  BY <1>t, <1>1, <1>3, KidsRest
<1>10. k # t  BY <1>7, <1>9
<1>11. \A u \in Tasks \ {t, k} : pc'[u] = pc[u]  BY <1>t, <1>7
<1>12. /\ pc'[t] \in {"loop", "waiting"} /\ pc'[k] \in {pc[k], "enter", "idle"}
       /\ pc'[t] = "waiting" => pc[t] = "loop" /\ at' = at /\ pc'[k] = "enter"
       /\ pc'[t] = "loop" /\ pc[t] = "waiting" => pc'[k] = "idle"
       /\ pc[t] = "loop" /\ pc'[t] = "loop" => pc'[k] = pc[k]
  BY <1>t, <1>7, <1>10
<1>13. Chained'
  <2>1. r.by = disk[k].by  BY <1>t, <1>4 DEF Linked, Same
  <2>2. \A u \in Tasks : pc'[u] \in {"loop", "waiting"} => pc[u] \in {"loop", "waiting"}
    BY <1>1, <1>9, <1>11, <1>12
  <2>3. \A u \in Tasks : pc'[u] \in {"loop", "waiting"} =>
          \A j \in KidSet(u) : disk'[j] \in Records /\ disk'[j].by = obj'[u].mint
    BY <1>3, <1>4, <1>5, <1>6, <2>1, <2>2, KidsAreTasks DEF Chained
  <2>4. \A u \in Tasks \ {Root} : pc'[u] # "idle" =>
          \E p \in Tasks : pc'[p] = "waiting" /\ ChildAt(p)' = u
    <3> TAKE u \in Tasks \ {Root}
    <3> HAVE pc'[u] # "idle"
    <3>1. CASE u = k /\ pc'[t] = "waiting"
      <4>1. ChildAt(t)' = k  BY <3>1, <1>12 DEF ChildAt
      <4> QED BY <3>1, <4>1
    <3>2. CASE ~(u = k /\ pc'[t] = "waiting")
      <4>1. pc[u] # "idle" /\ u # k
        BY <1>1, <1>9, <1>11, <1>12, <3>2
      <4>2. PICK p \in Tasks : pc[p] = "waiting" /\ ChildAt(p) = u  BY <1>3, <4>1 DEF Chained
      <4>3. p # t  BY <4>1, <4>2
      <4>4. p # k  BY <1>7, <1>9, <4>2
      <4>5. pc'[p] = "waiting" /\ ChildAt(p)' = u
        BY <1>8, <1>11, <4>2, <4>3, <4>4 DEF ChildAt
      <4> QED BY <4>5
    <3> QED BY <3>1, <3>2
  <2> QED BY <2>3, <2>4 DEF Chained, KidSet
<1>14. disk'[Root].status = "open"
  <2>1. ~Quiet  BY <1>1 DEF Quiet, AllIdle
  <2> QED BY <1>t, <1>3, <1>6, <2>1 DEF Running
<1>15. pc'[Root] \in {"loop", "waiting"} => pc[Root] \in {"loop", "waiting"}
  BY <1>t, <1>1, <1>3, <1>11
<1>16. pc'[Root] \notin {"idle", "done"} => obj'[Root].status = "open"
  <2>1. pc'[Root] \notin {"idle", "done"} => pc[Root] \notin {"idle", "done"}
    BY <1>t, <1>1, <1>3, <1>11
  <2> QED BY <1>t, <1>3, <1>5, <2>1 DEF Running
<1>17. pc'[Root] \in {"loop", "waiting"} => \A j \in KidSet(Root) : pc'[j] = "idle" => Saved(j)'
  <2> SUFFICES ASSUME pc'[Root] \in {"loop", "waiting"}, NEW j \in KidSet(Root), pc'[j] = "idle"
               PROVE  Saved(j)'
    OBVIOUS
  <2>1. j \in Tasks /\ j # t /\ (pc[j] = "idle" => Saved(j))
    BY <1>t, <1>3, <1>12, <1>15, KidsAreTasks DEF Running
  <2>2. CASE j # k
    <3>1. Saved(j)  BY <1>11, <2>1, <2>2
    <3>2. disk'[j] = disk[j] /\ obj'[j] = obj[j]  BY <1>5, <1>6, <2>1, <2>2
    <3> QED BY <1>4, <1>6, <3>1, <3>2 DEF Saved
  <2>3. CASE j = k /\ Persist(k, r)
    <3>1. obj'[k] = r  BY <1>5
    <3> QED BY <1>6, <2>3, <3>1 DEF Saved
  <2>4. CASE j = k /\ ~Persist(k, r)
    <3>1. r = obj[k] /\ UNCHANGED <<disk, buffer>>  BY <2>4 DEF Turned
    <3>2. pc[k] = "idle"  BY <1>7, <1>9, <2>4 DEF Turned
    <3> QED BY <1>4, <1>5, <2>1, <2>4, <3>1, <3>2 DEF Saved
  <2> QED BY <2>2, <2>3, <2>4
<1>18. pc'[Root] # "done"
  <2>1. CASE Root = t  BY <1>12, <2>1
  <2>2. CASE Root # t
    <3>1. pc'[Root] = pc[Root]  BY <1>t, <1>3, <1>11, <2>2
    <3>2. Moving(t) \/ Moving(k)  BY <1>7 DEF Moving
    <3>3. pc[Root] = "done" => Moving(Root)  BY DEF Moving
    <3> QED BY <1>t, <1>3, <2>2, <3>1, <3>2, <3>3 DEF Sound, FramesOK
  <2> QED BY <2>1, <2>2
<1>19. Running'  BY <1>13, <1>14, <1>16, <1>17, <1>18 DEF Running, KidSet
<1> QED BY <1>2, <1>4, <1>14, <1>19 DEF Settled, Followed

LEMMA CreateIsSettled ==
  ASSUME Held, reopens = 0, NEW t \in Tasks, Create(t)
  PROVE  Settled'
<1>t. /\ disk \in [Tasks -> Slots] /\ Root \in Tasks /\ Sound
      /\ pc[t] = "kids" /\ UNCHANGED <<obj, pc, at, lane, queue, worker, buffer, torn, reopens>>
  BY MintAssumption DEF Held, Sound, TypeOK, Create, frames, bounds
<1>1. PICK k \in KidSet(t) : \E f \in Records :
         k \in Tasks \ {Root} /\ disk[k] \notin Records /\ disk' = [disk EXCEPT ![k] = f]
  BY <1>t, CreateLaysOut
<1>2. \A u \in Tasks : u = k \/ disk'[u] = disk[u]  BY <1>t, <1>1
<1>3. lane = "run"  BY <1>t DEF Sound, TypeOK, LaneOK
<1>4. Running /\ ~Quiet  BY <1>t, <1>3 DEF Held, Settled, Quiet, AllIdle
<1>5. \A u \in Tasks : pc[u] \in {"loop", "waiting"} => k \notin KidSet(u)
  BY <1>1, <1>4 DEF Running, Chained
<1>6. Chained'
  <2>1. \A u \in Tasks : pc'[u] \in {"loop", "waiting"} =>
          \A j \in KidSet(u) : disk'[j] \in Records /\ disk'[j].by = obj'[u].mint
    BY <1>t, <1>2, <1>4, <1>5, KidsAreTasks DEF Running, Chained
  <2>2. \A u \in Tasks \ {Root} : pc'[u] # "idle" =>
          \E p \in Tasks : pc'[p] = "waiting" /\ ChildAt(p)' = u
    BY <1>t, <1>4 DEF Running, Chained, ChildAt
  <2> QED BY <2>1, <2>2 DEF Chained, KidSet
<1>7. disk'[Root].status = "open"  BY <1>t, <1>1, <1>2, <1>4 DEF Running
<1>8. pc[Root] \in {"loop", "waiting"} => \A j \in KidSet(Root) : pc[j] = "idle" => Saved(j)'
  <2> SUFFICES ASSUME pc[Root] \in {"loop", "waiting"}, NEW j \in KidSet(Root), pc[j] = "idle"
               PROVE  Saved(j)'
    OBVIOUS
  <2>1. j # k /\ j \in Tasks /\ Saved(j)  BY <1>t, <1>4, <1>5, KidsAreTasks DEF Running
  <2> QED BY <1>t, <1>2, <2>1 DEF Saved
<1>9. pc[Root] # "done"  BY <1>t DEF Sound, FramesOK, Moving
<1>10. Running'  BY <1>t, <1>4, <1>6, <1>7, <1>8, <1>9 DEF Running, KidSet
<1> QED BY <1>t, <1>3, <1>7, <1>10 DEF Settled, Followed

LEMMA LoadIsSettled ==
  ASSUME Held, reopens = 0, NEW t \in Tasks, Load(t)
  PROVE  Settled'
<1>t. /\ disk \in [Tasks -> Slots] /\ Root \in Tasks /\ Sound /\ pc \in [Tasks -> Places] /\ Linked
      /\ at \in [Tasks -> Nat \ {0}] /\ Sure
  BY MintAssumption DEF Held, Sound, TypeOK
<1>1. PICK p \in Records :
           /\ p.by = obj[t].by /\ p.mint = obj[t].mint /\ p.status = obj[t].status
           /\ obj'[t] = p /\ (disk'[t] = disk[t] \/ disk'[t] = p)
           /\ \A u \in Tasks \ {t} : /\ disk'[u] = disk[u]
                                     /\ obj'[u] = IF u \in KidSet(t) THEN disk[u] ELSE obj[u]
           /\ pc' = [pc EXCEPT ![t] = "loop"] /\ pc[t] = "kids" /\ at' = [at EXCEPT ![t] = 1]
           /\ obj[t] \in Records /\ disk[t] \in Records
           /\ \A k \in KidSet(t) : disk[k] \in Records /\ disk[k].by = obj[t].mint
           /\ UNCHANGED <<lane, queue, worker, buffer, torn, reopens>>
  BY <1>t, LoadTakes
<1>2. lane = "run"  BY <1>t, <1>1 DEF Sound, TypeOK, LaneOK
<1>3. Running /\ ~Quiet  BY <1>1, <1>2 DEF Held, Settled, Quiet, AllIdle
<1>4. pc'[t] = "loop" /\ \A u \in Tasks \ {t} : pc'[u] = pc[u] /\ at'[u] = at[u]
  BY <1>t, <1>1
<1>5. Chained'
  <2>0. p.by = disk[t].by  BY <1>t, <1>1 DEF Linked, Same
  <2>1. \A u \in Tasks : disk[u] \in Records => disk'[u] \in Records /\ disk'[u].by = disk[u].by
    BY <1>1, <2>0
  <2>2. \A u \in Tasks \ {t} : pc[u] \in {"loop", "waiting"} => obj'[u].mint = obj[u].mint
    <3>1. \A u \in Tasks : pc[u] \in {"loop", "waiting"} => obj[u] \in Records
      BY <1>t DEF Sound, FramesOK
    <3>2. \A u \in Tasks : obj[u] \in Records => obj[u].mint = disk[u].mint
      BY <1>t DEF Sure, Ledger, Follows
    <3> QED BY <1>1, <3>1, <3>2
  <2>3. \A u \in Tasks : pc'[u] \in {"loop", "waiting"} =>
          \A j \in KidSet(u) : disk'[j] \in Records /\ disk'[j].by = obj'[u].mint
    <3>1. \A j \in KidSet(t) : disk'[j] \in Records /\ disk'[j].by = obj'[t].mint
      BY <1>1, <2>1, KidsAreTasks
    <3>2. \A u \in Tasks \ {t} : pc'[u] \in {"loop", "waiting"} =>
            \A j \in KidSet(u) : disk'[j] \in Records /\ disk'[j].by = obj'[u].mint
      BY <1>3, <1>4, <2>1, <2>2, KidsAreTasks DEF Running, Chained
    <3> QED BY <3>1, <3>2
  <2>4. \A u \in Tasks \ {Root} : pc'[u] # "idle" =>
          \E q \in Tasks : pc'[q] = "waiting" /\ ChildAt(q)' = u
    <3>1. \A q \in Tasks : pc[q] = "waiting" => pc'[q] = "waiting" /\ ChildAt(q)' = ChildAt(q)
      BY <1>1, <1>4 DEF ChildAt
    <3>2. \A u \in Tasks : pc'[u] # "idle" => pc[u] # "idle"  BY <1>1, <1>4
    <3> QED BY <1>3, <3>1, <3>2 DEF Running, Chained
  <2> QED BY <2>3, <2>4 DEF Chained, KidSet
<1>r. Root \notin KidSet(t)  BY KidsAreTasks
<1>6. disk'[Root].status = "open" /\ (pc'[Root] \notin {"idle", "done"} => obj'[Root].status = "open")
  <2>1. disk[Root].status = "open"  BY <1>3 DEF Running
  <2>2. CASE Root = t
    <3>1. obj[Root].status = "open"  BY <1>1, <1>3, <2>2 DEF Running
    <3> QED BY <1>1, <2>1, <2>2, <3>1
  <2>3. CASE Root # t
    <3>1. pc'[Root] = pc[Root] /\ disk'[Root] = disk[Root] /\ obj'[Root] = obj[Root]
      BY <1>t, <1>r, <1>1, <1>4, <2>3
    <3> QED BY <1>3, <2>1, <3>1 DEF Running
  <2> QED BY <2>2, <2>3
<1>7. pc'[Root] \in {"loop", "waiting"} => \A j \in KidSet(Root) : pc'[j] = "idle" => Saved(j)'
  <2> SUFFICES ASSUME pc'[Root] \in {"loop", "waiting"}, NEW j \in KidSet(Root), pc'[j] = "idle"
               PROVE  Saved(j)'
    OBVIOUS
  <2>1. j \in Tasks /\ j # t /\ pc[j] = "idle"  BY <1>t, <1>4, KidsAreTasks
  <2>2. CASE j \in KidSet(t)
    <3>1. obj'[j] = disk'[j]  BY <1>1, <2>1, <2>2
    <3> QED BY <3>1 DEF Saved
  <2>3. CASE j \notin KidSet(t)
    <3>1. Root # t /\ pc[Root] = pc'[Root]  BY <1>t, <1>4, <2>3
    <3>2. Saved(j)  BY <1>3, <2>1, <3>1 DEF Running
    <3> QED BY <1>1, <2>1, <2>3, <3>2 DEF Saved
  <2> QED BY <2>2, <2>3
<1>8. pc'[Root] # "done"
  <2>1. pc[Root] # "done"  BY <1>t, <1>1 DEF Sound, FramesOK, Moving
  <2> QED BY <1>t, <1>4, <2>1
<1>9. Running'  BY <1>5, <1>6, <1>7, <1>8 DEF Running, KidSet
<1> QED BY <1>1, <1>2, <1>6, <1>9 DEF Settled, Followed

\* A sequence keeps what it has when a task is put before it.
LEMMA PrependKeeps ==
  ASSUME NEW s \in Seq(Tasks), NEW h \in Tasks
  PROVE  \A i \in DOMAIN s : \E j \in DOMAIN (<<h>> \o s) : (<<h>> \o s)[j] = s[i]
<1>1. \A i \in DOMAIN s : i + 1 \in DOMAIN (<<h>> \o s) /\ (<<h>> \o s)[i + 1] = s[i]
  OBVIOUS
<1> QED BY <1>1

\* What is not at the head of a sequence is in its tail.
LEMMA TailKeeps ==
  ASSUME NEW s \in Seq(Tasks), s # <<>>
  PROVE  /\ Head(s) \in Tasks
         /\ \A i \in DOMAIN s : s[i] # Head(s) => \E j \in DOMAIN Tail(s) : Tail(s)[j] = s[i]
<1>1. Head(s) = s[1] /\ Head(s) \in Tasks  OBVIOUS
<1>2. \A i \in DOMAIN s : i # 1 => i - 1 \in DOMAIN Tail(s) /\ Tail(s)[i - 1] = s[i]
  OBVIOUS
<1> QED BY <1>1, <1>2

\* The planned task is done: what it came to is saved, or left to the merge.
LEMMA TaskDoneIsSettled ==
  ASSUME Held, reopens = 0, TaskDone
  PROVE  Settled'
<1>t. /\ disk \in [Tasks -> Slots] /\ obj \in [Tasks -> Slots] /\ Root \in Tasks /\ Sound
      /\ buffer \in Seq(Tasks) /\ pc \in [Tasks -> Places] /\ worker \in BOOLEAN
      /\ KidSet(Root) \subseteq Tasks \ {Root}
  BY MintAssumption, KidsAreTasks DEF Held, Sound, TypeOK
<1>1. queue = <<Root>> /\ lane = "run"  BY DEF Held, Sure, Ledger, TaskDone
<1>2. pc[Root] = "done" /\ pc' = AllIdle /\ queue' = <<>>
  BY <1>1, TailOfOne DEF TaskDone
<1>3. UNCHANGED <<obj, worker, torn, reopens>>  BY DEF TaskDone, bounds
<1>4. Running /\ ~Quiet  BY <1>t, <1>1, <1>2 DEF Held, Settled, Quiet, AllIdle
<1>5. obj[Root] \in Records /\ obj[Root].mint = disk[Root].mint /\ disk[Root].status = "open"
  <2>1. obj[Root] \in Records  BY <1>t, <1>2 DEF Sound, FramesOK
  <2> QED BY <1>t, <1>4, <2>1 DEF Held, Sure, Ledger, Follows, Running
<1>6. obj[Root].mint # 0 /\ obj[Root].status = "completed" => Whole  BY <1>2, <1>4 DEF Running
<1>7. CASE worker
  <2>1. lane' = "merge" /\ buffer' = <<Root>> \o buffer /\ disk' = disk
    BY <1>1, <1>7, TailOfOne DEF TaskDone
  <2>2. \A i \in DOMAIN buffer : \E j \in DOMAIN buffer' : buffer'[j] = buffer[i]
    BY <1>t, <2>1, PrependKeeps
  <2>3. \A k \in Tasks : Saved(k) => Saved(k)'  BY <1>3, <2>1, <2>2 DEF Saved
  <2>w. Whole => Whole'  BY <1>t, <1>3, <2>3 DEF Whole, KidSet
  <2>4. Merging'  BY <1>3, <1>5, <1>6, <2>1, <2>w DEF Merging
  <2> QED BY <2>1, <2>4 DEF Settled
<1>8. CASE ~worker
  <2>1. lane' = "run" /\ disk' = [disk EXCEPT ![Root] = obj[Root]]
    BY <1>1, <1>8, TailOfOne DEF TaskDone
  <2>2. disk'[Root] = obj[Root] /\ \A u \in Tasks \ {Root} : disk'[u] = disk[u]  BY <1>t, <2>1
  <2>3. \A u \in Tasks : pc'[u] = "idle"  BY <1>2 DEF AllIdle
  <2>4. Running'
    <3>1. Chained'  BY <2>3 DEF Chained
    <3> QED BY <1>t, <1>2, <2>3, <3>1 DEF Running, Quiet
  <2>5. Followed'
    <3> SUFFICES ASSUME obj[Root].mint # 0, obj[Root].status = "completed" PROVE Ended'
      BY <2>2 DEF Followed
    <3>1. \A k \in KidSet(Root) : /\ obj[k] \in Records /\ obj[k].status = "completed"
                                  /\ disk[k].status = obj[k].status
      BY <1>6, <1>8 DEF Whole, Saved
    <3>2. \A k \in KidSet(Root) : disk[k] \in Records  BY <1>t, <3>1 DEF Sound, FramesOK
    <3> QED BY <1>t, <2>2, <3>1, <3>2 DEF Ended, KidSet
  <2> QED BY <2>1, <2>4, <2>5 DEF Settled
<1> QED BY <1>7, <1>8

\* The merge saves one task: a child that was left to it is in its file.
LEMMA MergeIsSettled ==
  ASSUME Held, reopens = 0, Merge
  PROVE  Settled'
<1> DEFINE h == Head(buffer)
<1>t. /\ disk \in [Tasks -> Slots] /\ obj \in [Tasks -> Slots] /\ Root \in Tasks /\ Sound
      /\ buffer \in Seq(Tasks) /\ KidSet(Root) \subseteq Tasks \ {Root}
  BY MintAssumption, KidsAreTasks DEF Held, Sound, TypeOK
<1>1. /\ lane = "merge" /\ lane' = "merge" /\ buffer # <<>> /\ buffer' = Tail(buffer)
      /\ disk' = [disk EXCEPT ![h] = Merged(disk[h], obj[h])]
      /\ UNCHANGED <<obj, worker, torn, reopens>>
  BY DEF Merge, frames, bounds
<1>2. h \in Tasks /\ obj[h] \in Records
  BY <1>1, <1>t, TailOfTasks DEF Sound, LaneOK
<1>3. \A i \in DOMAIN buffer : buffer[i] # h => \E j \in DOMAIN buffer' : buffer'[j] = buffer[i]
  BY <1>t, <1>1, TailKeeps
<1> HIDE DEF h
<1>4. disk[h] \in Records /\ obj[h].mint = disk[h].mint
  BY <1>2 DEF Held, Sound, FramesOK, Sure, Ledger, Follows
<1> DEFINE q == Merged(disk[h], obj[h])
<1>5. /\ q.mint = disk[h].mint /\ q.status \in {disk[h].status, obj[h].status}
      /\ obj[h].status = "completed" => q.status = "completed"
  BY <1>2, <1>4, MergedFields DEF Terminal
<1>6. disk' = [disk EXCEPT ![h] = q]  BY <1>1
<1> HIDE DEF q
<1>7. disk'[h] = q /\ \A u \in Tasks \ {h} : disk'[u] = disk[u]  BY <1>t, <1>2, <1>6
<1>8. Merging  BY <1>1 DEF Held, Settled
<1>9. Whole => Whole'
  <2> SUFFICES ASSUME Whole, NEW k \in KidSet(Root) PROVE Saved(k)'
    BY <1>1 DEF Whole, KidSet
  <2>1. obj[k].status = "completed" /\ Saved(k) /\ k \in Tasks  BY <1>t DEF Whole
  <2>2. CASE k = h
    <3>1. disk'[k].status = obj'[k].status  BY <1>1, <1>5, <1>7, <2>1, <2>2
    <3> QED BY <3>1 DEF Saved
  <2>3. CASE k # h
    <3>1. disk'[k] = disk[k]  BY <1>7, <2>1, <2>3
    <3> QED BY <1>1, <1>3, <2>1, <2>3, <3>1 DEF Saved
  <2> QED BY <2>2, <2>3
<1>10. Merging'
  <2> SUFFICES ASSUME disk'[Root].mint # 0,
                      \/ disk'[Root].status = "completed"
                      \/ obj'[Root] \in Records /\ obj'[Root].status = "completed"
               PROVE  Whole'
    BY DEF Merging
  <2>1. /\ disk[Root].mint # 0
        /\ disk[Root].status = "completed" \/ (obj[Root] \in Records /\ obj[Root].status = "completed")
    BY <1>t, <1>1, <1>2, <1>5, <1>7
  <2> QED BY <1>8, <1>9, <2>1 DEF Merging
<1> QED BY <1>1, <1>10 DEF Settled

\* What starts, ends or breaks off a lane leaves the files as it finds them, or
\* opens the planned task's.
LEMMA LaneIsSettled ==
  ASSUME Held, reopens = 0,
         \/ Kickoff \/ Dispatch \/ Begin \/ Skip \/ Stop \/ LaneEnds \/ Teardown \/ Crash
         \/ \E t \in Tasks : Recover(t)
  PROVE  Settled'
<1>t. /\ disk \in [Tasks -> Slots] /\ obj \in [Tasks -> Slots] /\ Root \in Tasks /\ Sound
      /\ pc \in [Tasks -> Places] /\ disk[Root] \in Records
      /\ KidSet(Root) \subseteq Tasks \ {Root}
  BY MintAssumption, KidsAreTasks DEF Held, Sound, TypeOK, FramesOK
<1>q. Quiet => \A u \in Tasks : pc[u] = "idle"  BY DEF Quiet, AllIdle
<1>f. lane # "merge" => Followed  BY DEF Held, Settled
<1>1. CASE Kickoff
  <2>1. lane = "idle" /\ lane' = "scan" /\ UNCHANGED <<disk, torn, pc, obj>>
    BY <1>1 DEF Kickoff, stores, frames
  <2>2. \A u \in Tasks : pc[u] = "idle"  BY <1>t, <2>1 DEF Sound, LaneOK
  <2>3. Scanning'  BY <2>1, <2>2 DEF Scanning
  <2>4. Followed'  BY <1>f, <2>1 DEF Followed, Ended, KidSet
  <2> QED BY <2>1, <2>3, <2>4 DEF Settled
<1>2. CASE \E t \in Tasks : Recover(t)
  <2>1. PICK t \in Tasks : Recover(t)  BY <1>2
  <2>2. /\ obj' = [obj EXCEPT ![t] = disk[t]] /\ pc' = [pc EXCEPT ![t] = "emit"]
        /\ lane = "scan" /\ Quiet /\ UNCHANGED <<disk, lane, torn>>
    BY <2>1 DEF Recover, Move, stores, bounds
  <2>3. obj'[t] = disk'[t] /\ \A u \in Tasks \ {t} : pc'[u] = "idle"  BY <1>t, <1>q, <2>2
  <2>4. Scanning'  BY <2>3 DEF Scanning
  <2>5. Followed'  BY <1>f, <2>2 DEF Followed, Ended, KidSet
  <2> QED BY <2>2, <2>4, <2>5 DEF Settled
<1>3. CASE Dispatch
  <2>1. disk' = [disk EXCEPT ![Root] = Reset(disk[Root])] /\ pc' = pc /\ lane' = "run" /\ Quiet
    BY <1>3 DEF Dispatch, frames, Scanned
  <2>2. disk'[Root].status = "open"
    <3>1. Reset(disk[Root]).status = "open"  BY <1>3, <1>t, ResetFields DEF Dispatch
    <3> QED BY <1>t, <2>1, <3>1
  <2>3. \A u \in Tasks : pc'[u] = "idle"  BY <1>q, <2>1
  <2>4. Running'
    <3>1. Chained'  BY <2>3 DEF Chained
    <3> QED BY <1>t, <2>2, <2>3, <3>1 DEF Running
  <2> QED BY <2>1, <2>2, <2>4 DEF Settled, Followed
<1>4. CASE Begin
  <2>1. queue = <<Root>> /\ Quiet /\ lane = "run"  BY <1>4 DEF Held, Sure, Ledger, Begin
  <2>2. /\ obj' = [obj EXCEPT ![Root] = listed[Root]] /\ pc' = [pc EXCEPT ![Root] = "enter"]
        /\ listed[Root].status = "open" /\ UNCHANGED <<disk, lane>>
    BY <1>4, <2>1, TailOfOne DEF Begin, Move, stores, bounds
  <2>3. disk[Root].status = "open"
    <3>1. queue # <<>>  BY <1>4 DEF Begin
    <3> QED BY <2>1, <3>1 DEF Held, Settled, Running
  <2>4. obj'[Root].status = "open" /\ disk'[Root].status = "open"  BY <1>t, <2>2, <2>3
  <2>5. pc'[Root] = "enter" /\ \A u \in Tasks \ {Root} : pc'[u] = "idle"  BY <1>t, <1>q, <2>1, <2>2
  <2>6. Running'
    <3>1. Chained'  BY <2>5 DEF Chained
    <3> QED BY <2>4, <2>5, <3>1 DEF Running
  <2> QED BY <2>1, <2>2, <2>4, <2>6 DEF Settled, Followed
<1>5. CASE Skip
  <2>1. /\ UNCHANGED <<disk, obj, lane, pc, at, worker, buffer, torn>> /\ lane = "run"
        /\ Quiet /\ queue' \in {<<>>, Tail(queue)} /\ queue # <<>>
    BY <1>5 DEF Skip, stores, frames, bounds
  <2>2. Quiet /\ queue' = <<>>
    BY <2>1, TailOfOne DEF Held, Sure, Ledger
  <2>3. Running /\ Followed  BY <1>f, <2>1 DEF Held, Settled
  <2>4. Running'
    BY <2>1, <2>2, <2>3 DEF Running, Chained, ChildAt, Quiet, Whole, Saved, KidSet
  <2>5. Followed'  BY <2>1, <2>3 DEF Followed, Ended, KidSet
  <2> QED BY <2>1, <2>4, <2>5 DEF Settled
<1>8. CASE Stop
  <2>1. UNCHANGED <<disk, obj, lane, pc, at, queue, worker, buffer, torn, reopens>>
    BY <1>8 DEF Stop, stores, frames, bounds
  <2> QED BY <2>1 DEF Held, Settled, Running, Chained, ChildAt, Quiet, Whole, Saved, Merging,
                      Scanning, Followed, Ended, KidSet
<1>6. CASE LaneEnds \/ Teardown
  <2>1. lane' = "idle" /\ torn' = torn /\ (lane = "run" \/ (lane = "merge" /\ buffer = <<>>))
    BY <1>6 DEF LaneEnds, Teardown, LaneOver, Forget, bounds
  <2>2. /\ disk'[Root].status = "completed" => disk'[Root] = disk[Root]
        /\ Ended => Ended'
    <3>1. CASE LaneEnds
      <4>1. disk' = disk  BY <3>1 DEF LaneEnds
      <4> QED BY <4>1 DEF Ended, KidSet
    <3>2. CASE Teardown
      <4>1. /\ \A u \in Tasks : disk'[u] \in Records /\ disk'[u].status = "completed"
                                 => disk'[u] = disk[u]
            /\ \A u \in Tasks : disk[u] \in Records /\ disk[u].status = "completed"
                                => disk'[u] = disk[u]
        BY <1>t, <3>2, TeardownFields
      <4>2. disk'[Root] \in Records  BY <1>t, <3>2, LaneEndIsSound DEF Sound, FramesOK
      <4>3. Ended => Ended'  BY <1>t, <4>1 DEF Ended, KidSet
      <4> QED BY <1>t, <4>1, <4>2, <4>3
    <3> QED BY <1>6, <3>1, <3>2
  <2>3. ~torn /\ disk[Root].mint # 0 /\ disk[Root].status = "completed" => Ended
    <3>1. CASE lane = "run"  BY <1>f, <3>1 DEF Followed
    <3>2. CASE lane = "merge" /\ buffer = <<>>
      <4>1. Merging  BY <3>2 DEF Held, Settled
      <4>2. disk[Root].mint # 0 /\ disk[Root].status = "completed" => Whole  BY <4>1 DEF Merging
      <4>3. \A k \in KidSet(Root) : Saved(k) => disk[k].status = obj[k].status
        BY <3>2 DEF Saved
      <4>4. \A k \in KidSet(Root) : obj[k] \in Records => disk[k] \in Records
        BY <1>t DEF Sound, FramesOK
      <4> QED BY <4>2, <4>3, <4>4 DEF Whole, Ended
    <3> QED BY <2>1, <3>1, <3>2
  <2>4. Followed'  BY <2>1, <2>2, <2>3 DEF Followed
  <2> QED BY <2>1, <2>4 DEF Settled
<1>7. CASE Crash
  <2>1. lane' = "idle" /\ disk' = disk /\ torn' = (torn \/ lane = "merge")
    BY <1>7 DEF Crash, Forget, stores
  <2>2. Followed'  BY <1>t, <1>f, <2>1 DEF Followed, Ended, KidSet
  <2> QED BY <2>1, <2>2 DEF Settled
<1> QED BY <1>1, <1>2, <1>3, <1>4, <1>5, <1>6, <1>7, <1>8

\* An exception that leaves the redo path finds the planned task's file open: a
\* worker's task is blocked, whatever its children came to.
LEMMA EscapeIsSettled ==
  ASSUME Held, reopens = 0, Foreign \/ Raise
  PROVE  Settled'
<1>t. obj \in [Tasks -> Slots] /\ Root \in Tasks /\ Sound /\ pc \in [Tasks -> Places]
  BY MintAssumption DEF Held, Sound, TypeOK
<1>1. Escape /\ UNCHANGED <<disk, torn>> /\ \E t \in Tasks : pc[t] \notin {"idle", "emit", "mark"}
  BY DEF Foreign, Raise, stores, bounds
<1>2. lane = "run"  BY <1>t, <1>1 DEF Sound, TypeOK, LaneOK
<1>3. ~Quiet  BY <1>1 DEF Quiet, AllIdle
<1>4. disk[Root].status = "open" /\ Followed  BY <1>2, <1>3 DEF Held, Settled, Running
<1>5. CASE worker
  <2>1. lane' = "merge" /\ obj' = [obj EXCEPT ![Root].status = "failed"]
    BY <1>1, <1>5 DEF Escape
  <2>2. obj'[Root] = [obj[Root] EXCEPT !.status = "failed"]  BY <1>t, <2>1
  <2>3. obj'[Root].status = "failed"
    <3>1. obj[Root] \in Records \/ obj[Root] = NoRecord  BY <1>t, SlotIsRecord
    <3> QED BY <2>2, <3>1 DEF Records, NoRecord
  <2> QED BY <1>1, <1>4, <2>1, <2>3 DEF Settled, Merging
<1>6. CASE ~worker
  <2>1. lane' = "idle"  BY <1>1, <1>6 DEF Escape, SettleOnFatal, Forget
  <2> QED BY <1>1, <1>4, <2>1 DEF Settled, Followed
<1> QED BY <1>5, <1>6

LEMMA InitHeld == Init => Held
<1> SUFFICES ASSUME Init PROVE Held  OBVIOUS
<1>1. disk[Root].status = "open" /\ lane = "idle"
  BY MintAssumption DEF Init, Nothing, Fresh
<1>2. Settled  BY <1>1 DEF Settled, Followed
<1>3. \A t \in Tasks : disk[t] \in Records => disk[t].mint = 0
  BY SlotIsRecord DEF Init, Nothing, Fresh
<1>4. Numbered  BY <1>3 DEF Numbered, Init
<1> QED BY <1>2, <1>4, InitSound, InitSure, InitRecorded DEF Held

LEMMA StepIsSettled == Held /\ [Next]_vars => Settled'
<1> SUFFICES ASSUME Held, [Next]_vars, reopens' = 0 PROVE Settled'
  BY DEF Settled
<1>r. Sound /\ reopens \in Nat  BY DEF Held, Sound, TypeOK
<1>1. ASSUME NEW t \in Tasks, Frame(t) PROVE Settled'
  <2>0. reopens = 0
    BY <1>1 DEF Frame, Resume, Bail, Count, Claim, ClaimFails, QCFix, Produced, Refuse, Commit,
           SkipEmit, Emit, EmitFails, Mark, Create, Load, Preserve, SettleClaim, RunChild,
           ChildDone, Container, bounds
  <2>1. CASE \/ Resume(t) \/ Bail(t) \/ Count(t) \/ Claim(t) \/ ClaimFails(t) \/ QCFix(t)
             \/ Produced(t) \/ Refuse(t) \/ Commit(t) \/ SkipEmit(t) \/ Emit(t) \/ EmitFails(t)
             \/ Mark(t) \/ Container(t)
    <3>1. /\ Moving(t) /\ obj[t] \in Records
          /\ \E r \in Records, place \in Places : Moves(t, r, place)
      BY <2>1, <1>r, SeamMoves DEF Held
    <3> QED BY <2>0, <3>1, MoveIsSettled
  <2>2. CASE Preserve(t) \/ SettleClaim(t) \/ RunChild(t) \/ ChildDone(t)
    <3> DEFINE k == ChildAt(t)
    <3>1. k \in KidSet(t) /\ k \in Tasks /\ obj[k] \in Records /\ \E r \in Records : Turned(t, k, r)
      BY <2>2, <1>r, LoopTurns
    <3> QED BY <2>0, <3>1, TurnIsSettled
  <2> QED BY <1>1, <2>0, <2>1, <2>2, CreateIsSettled, LoadIsSettled DEF Frame
<1>2. CASE \/ Kickoff \/ Dispatch \/ Begin \/ Skip \/ Stop \/ LaneEnds \/ Teardown \/ Crash
           \/ \E t \in Tasks : Recover(t)
  <2>1. reopens = 0
    BY <1>2 DEF Kickoff, Dispatch, Begin, Skip, Stop, LaneEnds, Teardown, Crash, Recover, bounds
  <2> QED BY <1>2, <2>1, LaneIsSettled
<1>3. CASE TaskDone \/ Merge
  <2>1. reopens = 0  BY <1>3 DEF TaskDone, Merge, bounds
  <2> QED BY <1>3, <2>1, TaskDoneIsSettled, MergeIsSettled
<1>4. CASE Foreign \/ Raise
  <2>1. reopens = 0  BY <1>4 DEF Foreign, Raise, bounds
  <2> QED BY <1>4, <2>1, EscapeIsSettled
<1>5. ~Reopen  BY <1>r DEF Reopen
<1>6. CASE UNCHANGED vars
  BY <1>6 DEF vars, Held, Settled, Running, Chained, ChildAt, Quiet, Whole, Saved, Merging,
         Scanning, Followed, Ended, KidSet
<1> QED BY <1>1, <1>2, <1>3, <1>4, <1>5, <1>6 DEF Next, Work

\* When a run has ended, the planned task has all its children completed in their files
\* if its own says that it minted and is completed, in whatever order a worker and the merge
\* saved them, over crashes (but of a merge), lost saves and exceptions
\* (_run_mint_children, save_task_monotonic), while no goal was reopened.
THEOREM ContainerFollows == Spec => []ContainerFollowsChildren
<1>1. Held => ContainerFollowsChildren
  <2> SUFFICES ASSUME Held, lane = "idle", ~torn, reopens = 0, disk[Root].mint # 0,
                      disk[Root].status = "completed", NEW k \in KidSet(Root)
               PROVE  Present(k) /\ disk[k].status = "completed"
    BY DEF ContainerFollowsChildren
  <2>1. Ended  BY DEF Held, Settled, Followed
  <2> QED BY <2>1, SlotIsRecord DEF Ended, Present
<1>2. Held /\ Recorded /\ [Next]_vars => (Held /\ Recorded)'
  BY StepIsSound, StepIsSure, StepIsRecorded, StepIsNumbered, StepIsSettled DEF Held
<1>3. Init => Held /\ Recorded  BY InitHeld, InitRecorded
<1> QED BY <1>1, <1>2, <1>3, PTL DEF Spec
=============================================================================
