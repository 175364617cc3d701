-------------------------- MODULE SuperblockProofs --------------------------
(***************************************************************************)
(* Proofs about the double superblock, for any number of commits and power *)
(* losses: what load finds is the old or the new superblock, and the two   *)
(* copies implement one superblock that is replaced atomically.            *)
(***************************************************************************)
EXTENDS Superblock, TLAPS

IInv == TypeOK /\ ShadowProtocol

\* Consecutive commits go to different pages.
LEMMA PagesAlternate ==
  ASSUME NEW n \in Nat
  PROVE  /\ CommitPage(n) \in Copies
         /\ CommitPage(n + 1) = 1 - CommitPage(n)
         /\ CommitPage(n) = 1 - CommitPage(n + 1)
         /\ CommitPage(1) = 1
BY DEF CommitPage, Copies

\* load returns the superblock that is Found.
LEMMA FoundLoads ==
  ASSUME NEW copies \in [Copies -> CopyType], NEW v \in CopyType, Found(copies, v)
  PROVE  Loadable(copies) /\ Load(copies) = v
<1>1. CASE CommitPage(v.commit_seq) = 0
  BY <1>1 DEF Found, Loadable, Load, CopyType, Copies
<1>2. CASE CommitPage(v.commit_seq) = 1
  BY <1>2 DEF Found, Loadable, Load, CopyType, Copies
<1> QED BY <1>1, <1>2 DEF CommitPage

LEMMA BlankType == Blank \in CopyType /\ ~Blank.magic /\ Blank.commit_seq = 0
BY DEF Blank, Copy, CopyType

\* The file of an older tree satisfies the invariant: nothing is committed yet.
LEMMA InitIInv == Init => IInv
<1> SUFFICES ASSUME Init PROVE IInv
  OBVIOUS
<1>1. PICK s \in 0 .. MaxSeq :
        durable = [c \in Copies |->
                    IF s = 0 THEN Blank
                    ELSE IF c = CommitPage(s) THEN Copy(TRUE, s, 0)
                    ELSE IF s = 1 THEN Blank ELSE Copy(TRUE, s - 1, 0)]
  BY DEF Init
<1>2. durable \in [Copies -> CopyType]
  <2>1. s # 0 => Copy(TRUE, s, 0) \in CopyType
    BY ConstantsAssumption DEF Copy, CopyType
  <2>2. s # 0 /\ s # 1 => Copy(TRUE, s - 1, 0) \in CopyType
    BY ConstantsAssumption DEF Copy, CopyType
  <2> QED BY <1>1, <2>1, <2>2, BlankType DEF Copies
<1> QED BY <1>2, BlankType DEF Init, IInv, TypeOK, ShadowProtocol

LEMMA FormatPreserves == IInv /\ format => IInv'
<1> SUFFICES ASSUME IInv, format PROVE IInv'
  OBVIOUS
<1>1. TypeOK'
  BY BlankType DEF IInv, TypeOK, format, Copy, CopyType, Copies
<1> QED BY <1>1 DEF IInv, ShadowProtocol, format, Copy

LEMMA SetFieldsPreserves == IInv /\ set_fields => IInv'
<1> SUFFICES ASSUME IInv, set_fields PROVE IInv'
  OBVIOUS
<1>1. TypeOK'
  BY DEF IInv, TypeOK, set_fields, CopyType
<1>2. disk_'.magic = disk_.magic /\ disk_'.commit_seq = disk_.commit_seq
  BY DEF IInv, TypeOK, set_fields, CopyType
<1> QED BY <1>1, <1>2 DEF IInv, ShadowProtocol, set_fields, Found

LEMMA CommitWritePreserves == IInv /\ commit_write => IInv'
<1> SUFFICES ASSUME IInv, commit_write PROVE IInv'
  OBVIOUS
<1> DEFINE here == CommitPage(disk_.commit_seq + 1)
<1>1. disk_' \in CopyType /\ disk_'.magic /\ disk_'.commit_seq = disk_.commit_seq + 1
  BY DEF IInv, TypeOK, ShadowProtocol, commit_write, CopyType
<1>2. here \in Copies /\ here = 1 - CommitPage(disk_.commit_seq)
      /\ CommitPage(disk_.commit_seq) = 1 - here
  <2>1. disk_.commit_seq \in Nat /\ disk_.commit_seq + 1 \in Nat
    BY DEF IInv, TypeOK, CopyType
  <2> QED BY <2>1, PagesAlternate
<1>3. /\ cached' \in [Copies -> CopyType] /\ cached'[here] = disk_'
      /\ cached'[1 - here] = cached[1 - here]
  BY <1>1, <1>2 DEF IInv, TypeOK, commit_write, Copies
<1>4. TypeOK'
  BY <1>1, <1>3 DEF IInv, TypeOK, commit_write
<1>5. CASE committed # Blank
  <2>1. /\ cached = durable /\ Found(durable, committed)
        /\ disk_.commit_seq = committed.commit_seq
    BY <1>5 DEF IInv, ShadowProtocol, commit_write
  <2>2. durable[1 - here] = committed /\ committed.commit_seq \in Nat
    BY <1>2, <2>1 DEF Found, IInv, TypeOK, CopyType
  <2>3. Found(cached', disk_')
    BY <1>1, <1>3, <2>1, <2>2 DEF Found, IInv, TypeOK, CopyType
  <2>4. committed.magic /\ committed.commit_seq > 0
    BY <2>1 DEF Found
  <2>5. CommitPage(committed.commit_seq) = 1 - here
    BY <1>2, <2>1
  <2>6. phase' = "written" /\ durable' = durable /\ committed' = committed
    BY DEF commit_write
  <2>7. ShadowProtocol'
    BY <1>1, <1>3, <1>5, <2>1, <2>2, <2>3, <2>4, <2>5, <2>6 DEF ShadowProtocol
  <2> QED BY <1>4, <2>7 DEF IInv
<1>6. CASE committed = Blank
  <2>1. disk_.commit_seq = 0 /\ cached = [c \in Copies |-> Blank]
    BY <1>6 DEF IInv, ShadowProtocol, commit_write
  <2>2. here = 1 /\ cached'[0] = Blank
    BY <1>3, <2>1, PagesAlternate DEF Copies
  <2>3. Found(cached', disk_')
    BY <1>1, <1>3, <2>1, <2>2, BlankType DEF Found
  <2> QED BY <1>1, <1>4, <1>6, <2>1, <2>2, <2>3 DEF IInv, ShadowProtocol, commit_write
<1> QED BY <1>5, <1>6

LEMMA CommitSyncPreserves == IInv /\ commit_sync => IInv'
<1> SUFFICES ASSUME IInv, commit_sync PROVE IInv'
  OBVIOUS
<1>1. TypeOK'
  BY DEF IInv, TypeOK, commit_sync
<1>2. Found(cached, disk_) /\ disk_.magic
  BY DEF IInv, ShadowProtocol, commit_sync, Found
<1>3. disk_ # Blank
  BY <1>2, BlankType
<1>4. Found(durable', committed')
  BY <1>2 DEF commit_sync
<1> QED BY <1>1, <1>2, <1>3, <1>4 DEF IInv, ShadowProtocol, commit_sync

LEMMA WritebackPreserves ==
  ASSUME NEW c \in Copies, IInv, writeback(c) PROVE IInv'
<1>1. TypeOK'
  BY DEF IInv, TypeOK, writeback
<1>2. CASE cached = durable
  <2>1. durable' = durable
    BY <1>2 DEF writeback, IInv, TypeOK
  <2> QED BY <1>1, <2>1 DEF IInv, ShadowProtocol, writeback, Found
<1>3. CASE phase = "written" /\ committed # Blank
  <2> DEFINE old == CommitPage(committed.commit_seq)
  <2>1. /\ disk_.commit_seq = committed.commit_seq + 1
        /\ durable[old] = committed /\ cached[old] = committed
        /\ Found(cached, disk_)
        /\ Found(durable, committed) \/ Found(durable, disk_)
    BY <1>3 DEF IInv, ShadowProtocol
  <2>2. old \in Copies /\ CommitPage(disk_.commit_seq) = 1 - old
        /\ 1 - CommitPage(disk_.commit_seq) = old
    <3>1. committed.commit_seq \in Nat
      BY DEF IInv, TypeOK, CopyType
    <3> QED BY <2>1, <3>1, PagesAlternate DEF Copies
  <2>3. CASE c = old
    <3>1. durable' = durable
      BY <2>1, <2>3 DEF writeback, IInv, TypeOK
    <3> QED BY <1>1, <1>3, <3>1 DEF IInv, ShadowProtocol, writeback, Found
  <2>4. CASE c = 1 - old
    <3>1. durable' = cached
      BY <2>1, <2>2, <2>4 DEF writeback, IInv, TypeOK, Copies
    <3>2. Found(durable', disk_) /\ durable'[old] = committed
      BY <3>1, <2>1
    <3> QED BY <1>1, <1>3, <2>1, <3>1, <3>2 DEF IInv, ShadowProtocol, writeback
  <2> QED BY <2>2, <2>3, <2>4 DEF Copies
<1>4. CASE committed = Blank /\ phase # "closed"
  BY <1>1, <1>4 DEF IInv, ShadowProtocol, writeback
<1>5. phase \in {"closed", "open", "written"}
  BY DEF IInv, TypeOK
<1> QED BY <1>2, <1>3, <1>4, <1>5 DEF IInv, ShadowProtocol

LEMMA PowerLossPreserves ==
  ASSUME NEW torn \in SUBSET Copies, IInv, power_loss(torn) PROVE IInv'
<1>1. TypeOK'
  BY BlankType DEF IInv, TypeOK, power_loss
<1>2. CASE committed = Blank
  BY <1>1, <1>2 DEF IInv, ShadowProtocol, power_loss
<1>3. CASE phase = "open" /\ committed # Blank
  <2>1. torn = {} /\ durable' = durable
    BY <1>3 DEF IInv, ShadowProtocol, TypeOK, power_loss
  <2>2. Found(durable, committed) /\ committed.magic
    BY <1>3 DEF IInv, ShadowProtocol, Found
  <2> QED BY <1>1, <1>3, <2>1, <2>2 DEF IInv, ShadowProtocol, power_loss
<1>4. CASE phase = "written" /\ committed # Blank
  <2> DEFINE old == CommitPage(committed.commit_seq)
  <2>1. /\ disk_.commit_seq = committed.commit_seq + 1
        /\ durable[old] = committed /\ cached[old] = committed
        /\ Found(cached, disk_)
        /\ Found(durable, committed) \/ Found(durable, disk_)
    BY <1>4 DEF IInv, ShadowProtocol
  <2>2. old \in Copies /\ CommitPage(disk_.commit_seq) = 1 - old
    <3>1. committed.commit_seq \in Nat
      BY DEF IInv, TypeOK, CopyType
    <3> QED BY <2>1, <3>1, PagesAlternate
  <2>3. old \notin torn /\ durable'[old] = committed
    BY <2>1, <2>2 DEF power_loss
  <2>4. durable'[1 - old] \in {Blank, durable[1 - old]}
    BY <2>2 DEF power_loss, Copies
  <2>5. committed.magic /\ committed.commit_seq > 0
    BY <1>4 DEF IInv, ShadowProtocol
  <2>6. CASE durable'[1 - old] = Blank
    <3>1. Found(durable', committed)
      BY <2>3, <2>5, <2>6, BlankType DEF Found
    <3> QED BY <1>1, <1>4, <2>5, <3>1 DEF IInv, ShadowProtocol, power_loss
  <2>7. CASE durable'[1 - old] = durable[1 - old]
    <3>1. durable' = durable
      BY <1>1, <2>1, <2>2, <2>3, <2>7 DEF IInv, TypeOK, Copies
    <3>2. CASE Found(durable, committed)
      BY <1>1, <1>4, <2>5, <3>1, <3>2 DEF IInv, ShadowProtocol, power_loss
    <3>3. CASE Found(durable, disk_)
      <4>1. disk_ \in {durable'[0], durable'[1]}
        BY <2>2, <3>1, <3>3 DEF Found, Copies
      <4> QED BY <1>1, <1>4, <2>1, <2>5, <3>1, <3>3, <4>1
              DEF IInv, ShadowProtocol, power_loss
    <3> QED BY <2>1, <3>2, <3>3
  <2> QED BY <2>4, <2>6, <2>7
<1> QED BY <1>2, <1>3, <1>4 DEF power_loss, IInv, TypeOK

LEMMA LoadPreserves == IInv /\ load => IInv'
<1> SUFFICES ASSUME IInv, load PROVE IInv'
  OBVIOUS
<1>1. cached = durable /\ durable \in [Copies -> CopyType]
  BY DEF IInv, ShadowProtocol, TypeOK, load
<1>2. PICK v \in CopyType : Found(durable, v)
  BY DEF IInv, ShadowProtocol, TypeOK, load, Copies
<1>3. Load(cached) = v
  BY <1>1, <1>2, FoundLoads
<1>4. v.magic /\ v # Blank
  BY <1>2, BlankType DEF Found
<1>5. TypeOK'
  BY <1>2, <1>3 DEF IInv, TypeOK, load
<1> QED BY <1>1, <1>2, <1>3, <1>4, <1>5 DEF IInv, ShadowProtocol, load

\* The invariant is inductive.
LEMMA NextIInv == IInv /\ [Next]_vars => IInv'
<1> SUFFICES ASSUME IInv, [Next]_vars PROVE IInv'
  OBVIOUS
<1>1. CASE UNCHANGED vars
  BY <1>1 DEF IInv, TypeOK, ShadowProtocol, Found, vars
<1>2. CASE writeback_blobs
  BY <1>2 DEF IInv, TypeOK, ShadowProtocol, Found, writeback_blobs
<1> QED BY <1>1, <1>2, FormatPreserves, SetFieldsPreserves, CommitWritePreserves,
           CommitSyncPreserves, WritebackPreserves, PowerLossPreserves, LoadPreserves
        DEF Next

(***************************************************************************)
(* The shadow protocol holds in every reachable state: a commit never      *)
(* overwrites the copy that load would pick.                               *)
(***************************************************************************)
THEOREM ShadowProtocolHolds == Spec => []ShadowProtocol
<1>1. Spec => []IInv
  BY InitIInv, NextIInv, PTL DEF Spec
<1>2. IInv => ShadowProtocol
  BY DEF IInv
<1> QED BY <1>1, <1>2, PTL

LEMMA IInvOldOrNew == IInv => OldOrNew
<1> SUFFICES ASSUME IInv, committed # Blank PROVE OldOrNew
  BY DEF OldOrNew
<1>1. durable \in [Copies -> CopyType] /\ committed \in CopyType /\ disk_ \in CopyType
  BY DEF IInv, TypeOK
<1>2. CASE Found(durable, committed)
  BY <1>1, <1>2, FoundLoads DEF OldOrNew
<1>3. CASE phase = "written" /\ Found(durable, disk_)
  BY <1>1, <1>3, FoundLoads DEF OldOrNew
<1>4. CASE phase = "closed" /\ ~Found(durable, committed)
  <2>1. PICK v \in {durable[0], durable[1]} :
          v.commit_seq = committed.commit_seq + 1 /\ Found(durable, v)
    BY <1>4 DEF IInv, ShadowProtocol
  <2>2. v \in CopyType
    BY <1>1, <2>1 DEF Copies
  <2>3. Loadable(durable) /\ Load(durable) = v
    BY <1>1, <2>1, <2>2, FoundLoads
  <2> QED BY <1>4, <2>1, <2>3 DEF OldOrNew
<1> QED BY <1>2, <1>3, <1>4 DEF IInv, TypeOK, ShadowProtocol

(***************************************************************************)
(* Whatever power losses and torn copies come, an open loads the last      *)
(* committed superblock or the one that was being committed.               *)
(***************************************************************************)
THEOREM CrashLeavesOldOrNew == Spec => []OldOrNew
<1>1. Spec => []IInv
  BY InitIInv, NextIInv, PTL DEF Spec
<1> QED BY <1>1, IInvOldOrNew, PTL

-----------------------------------------------------------------------------
(***************************************************************************)
(* Refinement: every step of the two copies is a step of one atomically    *)
(* replaced superblock, or changes nothing it can see.                     *)
(***************************************************************************)
LEMMA InitRefines == Init => Atomic!AInit
BY BlankType DEF Init, Atomic!AInit, CurrentOf, OfferedOf

\* The abstract superblock only depends on these variables.
LEMMA VisibleUnchanged ==
  ASSUME durable' = durable, committed' = committed, phase' = phase,
         phase = "written" => disk_' = disk_
  PROVE  CurrentOf' = CurrentOf /\ OfferedOf' = OfferedOf
BY DEF CurrentOf, OfferedOf, Load

\* In any state with a commit behind it, load finds one of two superblocks.
LEMMA CurrentIs ==
  ASSUME IInv, committed # Blank
  PROVE  /\ phase = "open" => CurrentOf = committed
         /\ phase = "written" => /\ Found(durable, committed) => CurrentOf = committed
                                 /\ Found(durable, disk_) => CurrentOf = disk_
<1>1. durable \in [Copies -> CopyType] /\ committed \in CopyType /\ disk_ \in CopyType
  BY DEF IInv, TypeOK
<1> QED BY <1>1, FoundLoads DEF IInv, ShadowProtocol, CurrentOf

LEMMA CommitSyncRefines == IInv /\ commit_sync => Atomic!Return
<1> SUFFICES ASSUME IInv, commit_sync PROVE Atomic!Return
  OBVIOUS
<1>1. Found(cached, disk_) /\ disk_.magic /\ disk_ # Blank
  BY BlankType DEF IInv, ShadowProtocol, commit_sync, Found
<1>2. cached \in [Copies -> CopyType] /\ disk_ \in CopyType
  BY DEF IInv, TypeOK
<1>3. Load(cached) = disk_
  BY <1>1, <1>2, FoundLoads
<1>4. Load(durable)' = disk_
  BY <1>3 DEF commit_sync, Load
<1>5. OfferedOf = disk_ /\ CurrentOf' = disk_ /\ OfferedOf' = Blank
  BY <1>1, <1>4 DEF OfferedOf, CurrentOf, commit_sync
<1> QED BY <1>1, <1>5 DEF Atomic!Return

LEMMA CommitWriteRefines == IInv /\ commit_write => Atomic!Begin
<1> SUFFICES ASSUME IInv, commit_write PROVE Atomic!Begin
  OBVIOUS
<1>1. disk_' \in CopyType
  BY DEF IInv, TypeOK, commit_write, CopyType
<1>2. CurrentOf' = CurrentOf
  BY DEF CurrentOf, Load, commit_write
<1> QED BY <1>1, <1>2 DEF Atomic!Begin, OfferedOf, commit_write

LEMMA WritebackRefines ==
  ASSUME NEW c \in Copies, IInv, writeback(c)
  PROVE  Atomic!Flip \/ (CurrentOf' = CurrentOf /\ OfferedOf' = OfferedOf)
<1>1. OfferedOf' = OfferedOf
  BY DEF OfferedOf, writeback
<1>2. CASE committed = Blank
  BY <1>1, <1>2 DEF CurrentOf, writeback
<1>3. CASE cached = durable
  <2>1. durable' = durable
    BY <1>3 DEF writeback, IInv, TypeOK
  <2> QED BY <1>1, <2>1 DEF CurrentOf, Load, writeback
<1>4. CASE phase = "written" /\ committed # Blank
  <2>1. IInv' /\ committed' # Blank /\ phase' = "written"
    BY <1>4, WritebackPreserves DEF writeback
  <2>2. Found(durable, committed) \/ Found(durable, disk_)
    BY <1>4 DEF IInv, ShadowProtocol
  <2>3. (Found(durable, committed) \/ Found(durable, disk_))'
    BY <2>1 DEF IInv, ShadowProtocol
  <2>4. CurrentOf \in {committed, disk_} /\ CurrentOf' \in {committed, disk_}
    <3>1. CurrentOf \in {committed, disk_}
      BY <1>4, <2>2, CurrentIs
    <3>2. durable' \in [Copies -> CopyType] /\ committed \in CopyType
          /\ disk_ \in CopyType /\ committed' = committed /\ disk_' = disk_
      BY <2>1 DEF IInv, TypeOK, writeback
    <3>3. Load(durable') \in {committed, disk_}
      <4>1. CASE Found(durable', committed)
        BY <3>2, <4>1, FoundLoads
      <4>2. CASE Found(durable', disk_)
        BY <3>2, <4>2, FoundLoads
      <4> QED BY <2>3, <3>2, <4>1, <4>2 DEF Found
    <3> QED BY <1>4, <3>1, <3>2, <3>3 DEF CurrentOf, Load
  <2>5. OfferedOf = disk_ /\ disk_ # Blank
    BY <1>4, BlankType DEF OfferedOf, IInv, ShadowProtocol, Found
  <2>6. CASE CurrentOf = disk_ /\ CurrentOf' = committed
    <3> DEFINE old == CommitPage(committed.commit_seq)
    <3>1. /\ disk_.commit_seq = committed.commit_seq + 1 /\ Found(cached, disk_)
          /\ committed.commit_seq \in Nat /\ durable \in [Copies -> CopyType]
      BY <1>4 DEF IInv, TypeOK, ShadowProtocol, CopyType
    <3>2. ~Found(durable, committed)
      BY <1>4, <2>6, <3>1, CurrentIs
    <3>3. Found(durable, disk_)
      BY <2>2, <3>2
    <3>4. durable = cached
      <4>1. durable[CommitPage(disk_.commit_seq)] = cached[CommitPage(disk_.commit_seq)]
        BY <3>1, <3>3 DEF Found
      <4>2. durable[old] = cached[old]
        BY <1>4 DEF IInv, ShadowProtocol
      <4>3. CommitPage(disk_.commit_seq) = 1 - old /\ old \in Copies
        BY <3>1, PagesAlternate
      <4> QED BY <4>1, <4>2, <4>3 DEF IInv, TypeOK, Copies
    <3> QED BY <1>3, <3>4
  <2> QED BY <1>1, <2>4, <2>5, <2>6 DEF Atomic!Flip
<1>5. phase \in {"closed", "open", "written"}
  BY DEF IInv, TypeOK
<1> QED BY <1>2, <1>3, <1>4, <1>5 DEF IInv, ShadowProtocol

LEMMA PowerLossRefines ==
  ASSUME NEW torn \in SUBSET Copies, IInv, power_loss(torn)
  PROVE  Atomic!Crash \/ Atomic!Flip \/ (CurrentOf' = CurrentOf /\ OfferedOf' = OfferedOf)
<1>1. OfferedOf' = Blank
  BY DEF OfferedOf, power_loss
<1>2. CurrentOf' = CurrentOf
  <2>1. CASE committed = Blank
    BY <2>1 DEF CurrentOf, power_loss
  <2>2. CASE phase = "open" /\ committed # Blank
    <3>1. durable' = durable
      BY <2>2 DEF IInv, ShadowProtocol, TypeOK, power_loss
    <3> QED BY <3>1 DEF CurrentOf, Load, power_loss
  <2>3. CASE phase = "written" /\ committed # Blank
    <3> DEFINE old == CommitPage(committed.commit_seq)
    <3>1. /\ disk_.commit_seq = committed.commit_seq + 1
          /\ durable[old] = committed /\ cached[old] = committed
          /\ Found(cached, disk_) /\ committed.magic /\ committed.commit_seq > 0
          /\ Found(durable, committed) \/ Found(durable, disk_)
      BY <2>3 DEF IInv, ShadowProtocol
    <3>2. /\ committed.commit_seq \in Nat /\ committed \in CopyType
          /\ durable \in [Copies -> CopyType]
      BY DEF IInv, TypeOK, CopyType
    <3>3. old \in Copies /\ CommitPage(disk_.commit_seq) = 1 - old
      BY <3>1, <3>2, PagesAlternate
    <3>4. old \notin torn
      BY <3>1 DEF power_loss
    <3>5. CASE 1 - old \in torn
      <4>1. ~Found(durable, disk_)
        BY <3>1, <3>3, <3>5 DEF power_loss, Found
      <4>2. CurrentOf = committed
        BY <2>3, <3>1, <4>1, CurrentIs
      <4>3. durable'[old] = committed /\ durable'[1 - old] = Blank
        BY <3>1, <3>3, <3>4, <3>5 DEF power_loss, Copies
      <4>4. durable' \in [Copies -> CopyType]
        BY <3>2, BlankType DEF power_loss
      <4>5. Found(durable', committed)
        BY <3>1, <4>3, BlankType DEF Found
      <4>6. Load(durable') = committed
        BY <3>2, <4>4, <4>5, FoundLoads
      <4> QED BY <2>3, <4>2, <4>6 DEF CurrentOf, Load, power_loss
    <3>6. CASE 1 - old \notin torn
      <4>1. torn = {}
        BY <3>3, <3>4, <3>6 DEF Copies
      <4>2. durable' = durable
        BY <3>2, <4>1 DEF power_loss
      <4> QED BY <4>2 DEF CurrentOf, Load, power_loss
    <3> QED BY <3>5, <3>6
  <2> QED BY <2>1, <2>2, <2>3 DEF power_loss, IInv, TypeOK
<1> QED BY <1>1, <1>2 DEF Atomic!Crash

LEMMA LoadRefines == IInv /\ load => CurrentOf' = CurrentOf /\ OfferedOf' = OfferedOf
<1> SUFFICES ASSUME IInv, load PROVE CurrentOf' = CurrentOf /\ OfferedOf' = OfferedOf
  OBVIOUS
<1>1. cached = durable /\ committed # Blank
  BY DEF IInv, ShadowProtocol, load
<1>2. IInv'
  BY LoadPreserves
<1>3. committed' = Load(durable) /\ committed' # Blank
  <2>1. PICK v \in CopyType : Found(durable, v)
    BY DEF IInv, ShadowProtocol, TypeOK, load, Copies
  <2>2. Load(durable) = v /\ v.magic
    BY <2>1, FoundLoads DEF IInv, TypeOK, Found
  <2> QED BY <1>1, <2>2, BlankType DEF load
<1> QED BY <1>1, <1>3 DEF CurrentOf, OfferedOf, Load, load

LEMMA StepRefines == IInv /\ [Next]_vars => [Atomic!ANext]_(Atomic!avars)
<1> SUFFICES ASSUME IInv, [Next]_vars
             PROVE  Atomic!ANext \/ (CurrentOf' = CurrentOf /\ OfferedOf' = OfferedOf)
  BY DEF Atomic!avars
<1>1. CASE UNCHANGED vars
  BY <1>1, VisibleUnchanged DEF vars
<1>2. CASE format
  BY <1>2 DEF format, CurrentOf, OfferedOf
<1>3. CASE set_fields
  BY <1>3, VisibleUnchanged DEF set_fields
<1>4. CASE commit_write
  BY <1>4, CommitWriteRefines DEF Atomic!ANext
<1>5. CASE commit_sync
  BY <1>5, CommitSyncRefines DEF Atomic!ANext
<1>6. CASE \E c \in Copies : writeback(c)
  BY <1>6, WritebackRefines DEF Atomic!ANext
<1>7. CASE writeback_blobs
  BY <1>7, VisibleUnchanged DEF writeback_blobs
<1>8. CASE \E torn \in SUBSET Copies : power_loss(torn)
  BY <1>8, PowerLossRefines DEF Atomic!ANext
<1>9. CASE load
  BY <1>9, LoadRefines
<1> QED BY <1>1, <1>2, <1>3, <1>4, <1>5, <1>6, <1>7, <1>8, <1>9 DEF Next

(***************************************************************************)
(* The two copies, the cache and the syncs implement one superblock that   *)
(* every commit replaces atomically.                                       *)
(***************************************************************************)
THEOREM ImplementsAtomicCommit == Spec => Commits
<1>1. Spec => []IInv
  BY InitIInv, NextIInv, PTL DEF Spec
<1> QED BY <1>1, InitRefines, StepRefines, PTL DEF Spec, Commits, Atomic!ASpec
=============================================================================
