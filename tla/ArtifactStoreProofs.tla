-------------------------- MODULE ArtifactStoreProofs --------------------------
(***************************************************************************)
(* For any number of callers, names and staging directories: FSArtifactStore*)
(* publishes whole artifacts, once, and keeps them; it implements the      *)
(* atomic store.  The argument rests on who owns a staging directory.      *)
(***************************************************************************)
EXTENDS ArtifactStore, TLAPS

\* While a call is writing it owns one staging directory, filled as far as its
\* program counter says; otherwise it owns none.
StagingInv(p) ==
    /\ pc[p] \in Writing =>
        /\ frame[p].sid \in StagingIds
        /\ staging[frame[p].sid] \in Dir
    /\ pc[p] \notin Writing => frame[p].sid = None
    /\ pc[p] \in {"create_snap", "fill_snap"} =>
        staging[frame[p].sid].sql = frame[p].payload
    /\ pc[p] = "rename" => staging[frame[p].sid] = Whole(frame[p].payload)

\* What a call knows of its arguments, of what it has read and of its result.
CallInv(p) ==
    /\ pc[p] # "idle" => result[p] = "none"
    /\ pc[p] \in Writing \cup {"lstat", "mkdirtemp"} =>
        frame[p].name \in Names /\ frame[p].payload \in Payloads
    /\ pc[p] \in {"read_dir", "read_sql", "read_snap"} => frame[p].name \in Names
    /\ pc[p] \in {"read_sql", "read_snap"} => published[frame[p].name] # None
    /\ pc[p] = "read_snap" => frame[p].sql = published[frame[p].name].sql
    /\ result[p] \in {"created", "read"} => frame[p].name \in Names
    /\ result[p] = "created" =>
        /\ frame[p].payload \in Payloads
        /\ published[frame[p].name] = Whole(frame[p].payload)
    /\ result[p] = "read" =>
        /\ published[frame[p].name] # None
        /\ published[frame[p].name] = [sql |-> frame[p].sql, snap |-> frame[p].snap]

OneOwner == \A p, q \in Procs : p # q => frame[p].sid = None \/ frame[p].sid # frame[q].sid

Accounted ==
    \A s \in StagingIds : staging[s] # None =>
        s \in orphans \/ \E p \in Procs : frame[p].sid = s /\ pc[p] \in Writing

IInv ==
    /\ TypeOK
    /\ \A p \in Procs : StagingInv(p)
    /\ \A p \in Procs : CallInv(p)
    /\ OneOwner
    /\ Accounted
    /\ PublishedWhole
    /\ OneWinner

--------------------------------------------------------------------------------

LEMMA FrameTypes ==
    /\ NoFrame \in Frame
    /\ Empty \in Dir
    /\ \A a \in Payloads : Whole(a) \in Dir
    /\ TypeOK => Entries \in SUBSET EntryNames
BY DEF NoFrame, Frame, File, Empty, Whole, Dir, TypeOK, Entries, EntryNames, Present

\* What a call keeps when it writes the bytes it read or the entries it saw.
SameArgs(g, f) == g.sid = f.sid /\ g.name = f.name /\ g.payload = f.payload

LEMMA ReadingFrames ==
    ASSUME NEW f \in Frame
    PROVE  /\ \A b \in File :
                LET g == [f EXCEPT !.sql = b]
                    h == [f EXCEPT !.snap = b]
                IN  /\ g \in Frame /\ SameArgs(g, f) /\ g.sql = b
                    /\ h \in Frame /\ SameArgs(h, f) /\ h.sql = f.sql /\ h.snap = b
           /\ \A t, l \in SUBSET EntryNames :
                LET g == [f EXCEPT !.toStat = t]
                    h == [f EXCEPT !.toStat = t, !.listing = l]
                IN  g \in Frame /\ SameArgs(g, f) /\ h \in Frame /\ SameArgs(h, f)
BY DEF Frame, SameArgs

\* Updates of one field.
LEMMA FieldTypes ==
    /\ \A f \in Frame, s \in StagingIds \cup {None} :
        /\ [f EXCEPT !.sid = s] \in Frame
        /\ [f EXCEPT !.sid = s].sid = s
        /\ [f EXCEPT !.sid = s].name = f.name
        /\ [f EXCEPT !.sid = s].payload = f.payload
        /\ [f EXCEPT !.sid = s].sql = f.sql
        /\ [f EXCEPT !.sid = s].snap = f.snap
    /\ \A d \in Dir, a \in File :
        /\ [d EXCEPT !.sql = a] \in Dir
        /\ [d EXCEPT !.snap = a] \in Dir
        /\ [d EXCEPT !.sql = a].sql = a
        /\ [d EXCEPT !.snap = a].sql = d.sql
        /\ d.sql = a => [d EXCEPT !.snap = a] = Whole(a)
<1>1. \A f \in Frame, s \in StagingIds \cup {None} :
        /\ [f EXCEPT !.sid = s] \in Frame
        /\ [f EXCEPT !.sid = s].sid = s
        /\ [f EXCEPT !.sid = s].name = f.name
        /\ [f EXCEPT !.sid = s].payload = f.payload
        /\ [f EXCEPT !.sid = s].sql = f.sql
        /\ [f EXCEPT !.sid = s].snap = f.snap
  BY DEF Frame
<1>2. \A d \in Dir, a \in File :
        /\ [d EXCEPT !.sql = a] \in Dir
        /\ [d EXCEPT !.snap = a] \in Dir
        /\ [d EXCEPT !.sql = a].sql = a
        /\ [d EXCEPT !.snap = a].sql = d.sql
  BY DEF Dir
<1>3. \A d \in Dir, a \in File : d.sql = a => [d EXCEPT !.snap = a] = Whole(a)
  BY DEF Dir, Whole
<1> QED
  BY <1>1, <1>2, <1>3

LEMMA InitIInv == Init => IInv
<1> SUFFICES ASSUME Init PROVE IInv
  OBVIOUS
<1> USE ArtifactAssumption, FrameTypes DEF Init
<1>1. TypeOK
  BY DEF TypeOK, Results, Errors
<1>2. \A p \in Procs : StagingInv(p)
  BY DEF StagingInv, Writing, NoFrame
<1>3. \A p \in Procs : CallInv(p)
  BY DEF CallInv, Writing
<1>4. OneOwner /\ Accounted /\ PublishedWhole /\ OneWinner
  BY DEF OneOwner, Accounted, PublishedWhole, OneWinner, NoFrame
<1> QED
  BY <1>1, <1>2, <1>3, <1>4 DEF IInv

\* A step outside the writing phase touches only its own call's control and
\* locals, so it is enough to look at that call.
LEMMA LocalStep ==
    ASSUME IInv, NEW p \in Procs, TypeOK',
           UNCHANGED <<published, staging, orphans>>,
           \A q \in Procs \ {p} : UNCHANGED <<pc[q], frame[q], result[q]>>,
           pc[p] \notin Writing, pc'[p] \notin Writing, frame'[p].sid = None,
           result'[p] # "created", CallInv(p)'
    PROVE  IInv'
<1>1. \A q \in Procs : StagingInv(q)'
  BY DEF IInv, StagingInv, Writing, Whole
<1>2. \A q \in Procs : CallInv(q)'
  BY DEF IInv, CallInv, Writing, Whole
<1>3. OneOwner' /\ Accounted' /\ PublishedWhole' /\ OneWinner'
  BY ArtifactAssumption, SMTT(60) DEF IInv, StagingInv, OneOwner, Accounted, PublishedWhole, OneWinner, Whole, TypeOK
<1> QED
  BY <1>1, <1>2, <1>3 DEF IInv

--------------------------------------------------------------------------------
(* One lemma per operation                                                   *)

LEMMA ResolveStep ==
    ASSUME IInv, NEW p \in Procs, NEW mode \in Modes, ResolveRoot(p, mode)
    PROVE  IInv'
<1> USE FrameTypes DEF ResolveRoot, Fail, Return, At
<1>1. TypeOK'
  BY DEF IInv, TypeOK, Results, Errors
<1>2. CallInv(p)' /\ frame'[p].sid = None
  BY DEF IInv, TypeOK, CallInv, Writing, NoFrame
<1> QED
  BY <1>1, <1>2, LocalStep DEF IInv, TypeOK, Writing

LEMMA ResolveRejectStep ==
    ASSUME IInv, NEW p \in Procs, ResolveReject(p)
    PROVE  IInv'
<1> USE FrameTypes DEF ResolveReject, Fail, Return, At, disk
<1>1. TypeOK'
  BY DEF IInv, TypeOK, Results, Errors
<1>2. CallInv(p)' /\ frame'[p].sid = None
  BY DEF IInv, TypeOK, CallInv, Writing, NoFrame
<1> QED
  BY <1>1, <1>2, LocalStep DEF IInv, TypeOK, Writing

LEMMA CreateRejectStep ==
    ASSUME IInv, NEW p \in Procs, NEW n \in Names \cup BadNames, NEW a \in Payloads,
           CreateReject(p, n, a)
    PROVE  IInv'
<1> USE FrameTypes DEF CreateReject, CreateRejections, EarlyErrors, Fail, Return, At, disk
<1>1. TypeOK'
  BY DEF IInv, TypeOK, Results, Errors
<1>2. CallInv(p)' /\ frame'[p].sid = None
  BY DEF IInv, TypeOK, CallInv, Writing, NoFrame
<1> QED
  BY <1>1, <1>2, LocalStep DEF IInv, TypeOK, Writing

LEMMA CreateBeginStep ==
    ASSUME IInv, NEW p \in Procs, NEW n \in Names, NEW a \in Payloads, CreateBegin(p, n, a)
    PROVE  IInv'
<1> USE FrameTypes DEF CreateBegin, Begin, At, disk
<1>1. [NoFrame EXCEPT !.name = n, !.payload = a] \in Frame
  BY DEF NoFrame, Frame, File
<1>2. TypeOK'
  BY <1>1 DEF IInv, TypeOK, Results, Calling
<1>3. CallInv(p)' /\ frame'[p].sid = None
  BY DEF IInv, TypeOK, CallInv, Writing, NoFrame
<1> QED
  BY <1>2, <1>3, LocalStep DEF IInv, TypeOK, Writing

LEMMA CreateLstatStep ==
    ASSUME IInv, NEW p \in Procs, CreateLstat(p)
    PROVE  IInv'
<1> USE FrameTypes DEF CreateLstat, Fail, Return, Goto, At, disk
<1>1. TypeOK'
  BY DEF IInv, TypeOK, Results, Errors, Calling
<1>2. CallInv(p)' /\ frame'[p].sid = None
  BY DEF IInv, TypeOK, StagingInv, CallInv, Writing, NoFrame
<1> QED
  BY <1>1, <1>2, LocalStep DEF IInv, TypeOK, CallInv, Writing

LEMMA CreateMkdirTempFailsStep ==
    ASSUME IInv, NEW p \in Procs, CreateMkdirTempFails(p)
    PROVE  IInv'
<1> USE FrameTypes DEF CreateMkdirTempFails, Fail, Return, At, disk
<1>1. TypeOK'
  BY DEF IInv, TypeOK, Results, Errors
<1>2. CallInv(p)' /\ frame'[p].sid = None
  BY DEF IInv, TypeOK, CallInv, Writing, NoFrame
<1> QED
  BY <1>1, <1>2, LocalStep DEF IInv, TypeOK, Writing

LEMMA CreateMkdirTempStep ==
    ASSUME IInv, NEW p \in Procs, CreateMkdirTemp(p)
    PROVE  IInv'
<1> PICK s \in StagingIds :
        /\ staging[s] = None
        /\ staging' = [staging EXCEPT ![s] = Empty]
        /\ frame' = [frame EXCEPT ![p].sid = s]
  BY DEF CreateMkdirTemp
<1>0. /\ frame[p] \in Frame
      /\ frame' = [frame EXCEPT ![p] = [frame[p] EXCEPT !.sid = s]]
  BY DEF IInv, TypeOK
<1> DEFINE f == [frame[p] EXCEPT !.sid = s]
<1>1. /\ f \in Frame /\ f.sid = s /\ f.name = frame[p].name
      /\ f.payload = frame[p].payload /\ f.sql = frame[p].sql /\ f.snap = frame[p].snap
      /\ frame' = [frame EXCEPT ![p] = f]
  BY <1>0, FieldTypes
<1> HIDE DEF f
<1> USE <1>1, FrameTypes, ArtifactAssumption DEF CreateMkdirTemp, Goto, At
<1>1t. TypeOK'
  BY DEF IInv, TypeOK, Calling, Writing
<1>2. \A q \in Procs : q # p => frame[q].sid # s
  BY DEF IInv, TypeOK, StagingInv
<1>3. \A q \in Procs : StagingInv(q)'
  BY <1>2 DEF IInv, TypeOK, StagingInv, Writing
<1>4. \A q \in Procs : CallInv(q)'
  BY DEF IInv, TypeOK, CallInv, Writing
<1>5. OneOwner' /\ PublishedWhole' /\ OneWinner'
  BY <1>2 DEF IInv, TypeOK, OneOwner, PublishedWhole, OneWinner, CallInv
<1>6. Accounted'
  BY DEF IInv, TypeOK, Accounted, Writing
<1> QED
  BY <1>1t, <1>3, <1>4, <1>5, <1>6 DEF IInv

LEMMA WriteStep ==
    ASSUME IInv, NEW p \in Procs, NEW from, NEW step, NEW staged,
           from \in Writing, step \in Writing, staged \in Dir,
           At(p, from), Write(p, staged, step),
           step \in {"create_snap", "fill_snap"} => staged.sql = frame[p].payload,
           step = "rename" => staged = Whole(frame[p].payload)
    PROVE  IInv'
<1> USE ArtifactAssumption DEF Write, Goto, At
<1>0. frame[p].sid \in StagingIds
  BY DEF IInv, StagingInv
<1>1. TypeOK'
  BY <1>0 DEF IInv, TypeOK, Calling
<1>2. \A q \in Procs : q # p => frame[q].sid # frame[p].sid
  BY <1>0 DEF IInv, OneOwner
<1>3. \A q \in Procs : StagingInv(q)'
  BY <1>0, <1>2 DEF IInv, TypeOK, StagingInv, Writing
<1>4. \A q \in Procs : CallInv(q)'
  BY DEF IInv, TypeOK, CallInv, Writing
<1>5. OneOwner' /\ PublishedWhole' /\ OneWinner'
  BY DEF IInv, OneOwner, PublishedWhole, OneWinner
<1>6. Accounted'
  BY <1>0 DEF IInv, TypeOK, Accounted
<1> QED
  BY <1>1, <1>3, <1>4, <1>5, <1>6 DEF IInv

LEMMA FourWritesStep ==
    ASSUME IInv, NEW p \in Procs,
           CreateSQL(p) \/ FillSQL(p) \/ CreateSnap(p) \/ FillSnap(p)
    PROVE  IInv'
<1>0. pc[p] \in Writing
  BY DEF CreateSQL, FillSQL, CreateSnap, FillSnap, At, Writing
<1>1. Staged(p) \in Dir /\ frame[p].payload \in Payloads
  BY <1>0 DEF IInv, StagingInv, CallInv, Staged
<1>1a. frame[p].payload \in File /\ Partial \in File
  BY <1>1 DEF File
<1>2. CASE CreateSQL(p)
  <2> DEFINE staged == [Staged(p) EXCEPT !.sql = Partial]
  <2>1. staged \in Dir
    BY <1>1, <1>1a, FieldTypes
  <2>2. At(p, "create_sql") /\ Write(p, staged, "fill_sql")
    BY <1>2 DEF CreateSQL
  <2> HIDE DEF staged
  <2> QED
    BY <2>1, <2>2, WriteStep DEF Writing
<1>3. CASE FillSQL(p)
  <2> DEFINE staged == [Staged(p) EXCEPT !.sql = frame[p].payload]
  <2>1. staged \in Dir /\ staged.sql = frame[p].payload
    BY <1>1, <1>1a, FieldTypes
  <2>2. At(p, "fill_sql") /\ Write(p, staged, "create_snap")
    BY <1>3 DEF FillSQL
  <2> HIDE DEF staged
  <2> QED
    BY <2>1, <2>2, WriteStep DEF Writing
<1>4. CASE CreateSnap(p)
  <2> DEFINE staged == [Staged(p) EXCEPT !.snap = Partial]
  <2>0. Staged(p).sql = frame[p].payload
    BY <1>4 DEF IInv, StagingInv, CreateSnap, At, Staged
  <2>1. staged \in Dir /\ staged.sql = frame[p].payload
    BY <1>1, <1>1a, <2>0, FieldTypes
  <2>2. At(p, "create_snap") /\ Write(p, staged, "fill_snap")
    BY <1>4 DEF CreateSnap
  <2> HIDE DEF staged
  <2> QED
    BY <2>1, <2>2, WriteStep DEF Writing
<1>5. CASE FillSnap(p)
  <2> DEFINE staged == [Staged(p) EXCEPT !.snap = frame[p].payload]
  <2>0. Staged(p).sql = frame[p].payload
    BY <1>5 DEF IInv, StagingInv, FillSnap, At, Staged
  <2>1. staged \in Dir /\ staged = Whole(frame[p].payload)
    BY <1>1, <1>1a, <2>0, FieldTypes, ZenonT(60)
  <2>2. At(p, "fill_snap") /\ Write(p, staged, "rename")
    BY <1>5 DEF FillSnap
  <2> HIDE DEF staged
  <2> QED
    BY <2>1, <2>2, WriteStep DEF Writing
<1> QED
  BY <1>2, <1>3, <1>4, <1>5

LEMMA WriteFailsStep ==
    ASSUME IInv, NEW p \in Procs, WriteFails(p)
    PROVE  IInv'
<1> USE DEF WriteFails, Goto, disk
<1>1. TypeOK'
  BY DEF IInv, TypeOK, Calling, Writing
<1>2. \A q \in Procs : StagingInv(q)' /\ CallInv(q)'
  BY DEF IInv, TypeOK, StagingInv, CallInv, Writing, Whole
<1>3. OneOwner' /\ PublishedWhole' /\ OneWinner' /\ Accounted'
  BY DEF IInv, TypeOK, OneOwner, PublishedWhole, OneWinner, Accounted, Writing
<1> QED
  BY <1>1, <1>2, <1>3 DEF IInv

\* The one step that publishes: the target is free, so nobody has created it.
LEMMA CreateRenameStep ==
    ASSUME IInv, NEW p \in Procs, CreateRename(p)
    PROVE  IInv'
<1> DEFINE s == frame[p].sid
           n == frame[p].name
           a == frame[p].payload
<1> USE ArtifactAssumption, FrameTypes DEF CreateRename, Return, At, RenameAllowed
<1>0. s \in StagingIds /\ n \in Names /\ a \in Payloads /\ Staged(p) = Whole(a)
  BY DEF IInv, StagingInv, CallInv, Writing, Staged
<1> DEFINE f == [frame[p] EXCEPT !.sid = None]
<1>f. /\ f \in Frame /\ f.sid = None /\ f.name = n
      /\ f.payload = a /\ f.sql = frame[p].sql /\ f.snap = frame[p].snap
      /\ frame' = [frame EXCEPT ![p] = f]
  BY FieldTypes DEF IInv, TypeOK
<1> HIDE DEF f
<1> USE <1>f
<1>1. TypeOK'
  BY <1>0 DEF IInv, TypeOK, Results
<1>2. \A q \in Procs : q # p => frame[q].sid # s
  BY <1>0 DEF IInv, OneOwner
<1>3. \A q \in Procs : StagingInv(q)'
  BY <1>0, <1>2 DEF IInv, TypeOK, StagingInv, Writing
<1>4. \A q \in Procs : CallInv(q)'
  BY <1>0 DEF IInv, TypeOK, CallInv, Writing, Frame, Whole
<1>5. OneOwner' /\ Accounted'
  BY <1>0, <1>2 DEF IInv, TypeOK, OneOwner, Accounted, Writing
<1>6. PublishedWhole'
  BY <1>0 DEF IInv, TypeOK, PublishedWhole
<1>7. OneWinner'
  <2>1. \A q \in Procs : q # p /\ result[q] = "created" => frame[q].name # n
    <3> SUFFICES ASSUME NEW q \in Procs, result[q] = "created" PROVE frame[q].name # n
      OBVIOUS
    <3>1. frame[q].payload \in Payloads /\ published[frame[q].name] = Whole(frame[q].payload)
      BY DEF IInv, CallInv
    <3>2. published[frame[q].name] # None
      BY <3>1
    <3> QED
      BY <3>2
  <2> QED
    BY <1>0, <2>1 DEF IInv, TypeOK, OneWinner
<1> QED
  BY <1>1, <1>3, <1>4, <1>5, <1>6, <1>7 DEF IInv

LEMMA CreateCleanupStep ==
    ASSUME IInv, NEW p \in Procs, CreateCleanup(p)
    PROVE  IInv'
<1> DEFINE s == frame[p].sid
<1> USE ArtifactAssumption, FrameTypes DEF CreateCleanup, Fail, Return, At
<1>0. s \in StagingIds
  BY DEF IInv, StagingInv, Writing
<1>1. TypeOK'
  BY <1>0 DEF IInv, TypeOK, Results, Errors
<1>2. \A q \in Procs : q # p => frame[q].sid # s
  BY <1>0 DEF IInv, OneOwner
<1>3. frame' = [frame EXCEPT ![p] = NoFrame] /\ NoFrame.sid = None
  BY DEF NoFrame
<1>4. \A q \in Procs : StagingInv(q)'
  BY <1>0, <1>2, <1>3 DEF IInv, TypeOK, StagingInv, Writing
<1>5. \A q \in Procs : CallInv(q)'
  BY <1>3 DEF IInv, TypeOK, CallInv, Writing
<1>6. OneOwner' /\ Accounted'
  BY <1>0, <1>2, <1>3 DEF IInv, TypeOK, OneOwner, Accounted, Writing
<1>7. PublishedWhole' /\ OneWinner'
  BY <1>3 DEF IInv, TypeOK, PublishedWhole, OneWinner
<1> QED
  BY <1>1, <1>4, <1>5, <1>6, <1>7 DEF IInv

LEMMA CrashStep ==
    ASSUME IInv, NEW p \in Procs, Crash(p)
    PROVE  IInv'
<1> USE ArtifactAssumption, FrameTypes DEF Crash, Fail, Return, At
<1>1. TypeOK'
  BY DEF IInv, TypeOK, Results, Frame
<1>2. frame' = [frame EXCEPT ![p] = NoFrame] /\ NoFrame.sid = None
  BY DEF NoFrame
<1>3. \A q \in Procs : StagingInv(q)'
  BY <1>2 DEF IInv, TypeOK, StagingInv, Writing
<1>4. \A q \in Procs : CallInv(q)'
  BY <1>2 DEF IInv, TypeOK, CallInv, Writing
<1>5. OneOwner' /\ Accounted'
  BY <1>2 DEF IInv, TypeOK, OneOwner, Accounted, Writing
<1>6. PublishedWhole' /\ OneWinner'
  BY <1>2 DEF IInv, TypeOK, PublishedWhole, OneWinner
<1> QED
  BY <1>1, <1>3, <1>4, <1>5, <1>6 DEF IInv

LEMMA ReadRejectStep ==
    ASSUME IInv, NEW p \in Procs, NEW n \in Names \cup BadNames, ReadReject(p, n)
    PROVE  IInv'
<1> USE FrameTypes DEF ReadReject, EarlyErrors, Fail, Return, At, disk
<1>1. TypeOK'
  BY DEF IInv, TypeOK, Results, Errors
<1>2. CallInv(p)' /\ frame'[p].sid = None
  BY DEF IInv, TypeOK, CallInv, Writing, NoFrame
<1> QED
  BY <1>1, <1>2, LocalStep DEF IInv, TypeOK, Writing

LEMMA ReadBeginStep ==
    ASSUME IInv, NEW p \in Procs, NEW n \in Names, ReadBegin(p, n)
    PROVE  IInv'
<1> USE FrameTypes DEF ReadBegin, Begin, At, disk
<1>1. [NoFrame EXCEPT !.name = n] \in Frame
  BY DEF NoFrame, Frame, File
<1>2. TypeOK'
  BY <1>1 DEF IInv, TypeOK, Results, Calling
<1>3. CallInv(p)' /\ frame'[p].sid = None
  BY DEF IInv, TypeOK, CallInv, Writing, NoFrame
<1> QED
  BY <1>2, <1>3, LocalStep DEF IInv, TypeOK, Writing

LEMMA ReadDirLstatStep ==
    ASSUME IInv, NEW p \in Procs, ReadDirLstat(p)
    PROVE  IInv'
<1> USE FrameTypes DEF ReadDirLstat, Fail, Return, Goto, At, disk
<1>1. TypeOK'
  BY DEF IInv, TypeOK, Results, Errors, Calling
<1>2. CallInv(p)' /\ frame'[p].sid = None
  BY DEF IInv, TypeOK, StagingInv, CallInv, Writing, NoFrame
<1> QED
  BY <1>1, <1>2, LocalStep DEF IInv, TypeOK, CallInv, Writing

LEMMA ReadFailsStep ==
    ASSUME IInv, NEW p \in Procs, ReadFails(p)
    PROVE  IInv'
<1> USE FrameTypes DEF ReadFails, FileErrors, Fail, Return, At, disk
<1>1. TypeOK'
  BY DEF IInv, TypeOK, Results, Errors
<1>2. CallInv(p)' /\ frame'[p].sid = None
  BY DEF IInv, TypeOK, CallInv, Writing, NoFrame
<1> QED
  BY <1>1, <1>2, LocalStep DEF IInv, TypeOK, Writing

LEMMA ReadSQLFileStep ==
    ASSUME IInv, NEW p \in Procs, ReadSQLFile(p)
    PROVE  IInv'
<1> DEFINE b == Opened(p).sql
           f == [frame[p] EXCEPT !.sql = b]
<1> USE DEF ReadSQLFile, Goto, At, disk
<1>a. frame[p].name \in Names /\ Opened(p) # None
  BY DEF IInv, CallInv, Opened
<1>b. Opened(p) \in Dir
  BY <1>a DEF IInv, TypeOK, Opened
<1>0. b \in File
  BY <1>b DEF Dir
<1>c. frame' = [frame EXCEPT ![p].sql = b]
  OBVIOUS
<1>d. b = Opened(p).sql
  OBVIOUS
<1> HIDE DEF b
<1>e. frame[p] \in Frame
  BY DEF IInv, TypeOK
<1>f. f \in Frame /\ SameArgs(f, frame[p]) /\ f.sql = b
  BY <1>0, <1>e, ReadingFrames
<1>1. f \in Frame /\ SameArgs(f, frame[p]) /\ f.sql = Opened(p).sql
  BY <1>d, <1>f
<1>2. frame' = [frame EXCEPT ![p] = f]
  BY <1>c DEF IInv, TypeOK
<1> HIDE DEF f
<1>3. TypeOK'
  BY <1>1, <1>2 DEF IInv, TypeOK, Calling
<1>4. CallInv(p)' /\ frame'[p].sid = None
  BY <1>1, <1>2 DEF IInv, TypeOK, StagingInv, CallInv, Writing, Opened, SameArgs
<1> QED
  BY <1>2, <1>3, <1>4, LocalStep, ZenonT(60) DEF IInv, TypeOK, CallInv, Writing

\* The SQL read earlier is still the published one: that is why the pair is whole.
LEMMA ReadSnapFileStep ==
    ASSUME IInv, NEW p \in Procs, ReadSnapFile(p)
    PROVE  IInv'
<1> USE FrameTypes DEF ReadSnapFile, Fail, Return, At, disk
<1>1. CASE frame[p].sql \in InvalidSQL
  <2>1. TypeOK'
    BY <1>1 DEF IInv, TypeOK, Results, Errors
  <2>2. CallInv(p)' /\ frame'[p].sid = None
    BY <1>1 DEF IInv, TypeOK, CallInv, Writing, NoFrame
  <2> QED
    BY <1>1, <2>1, <2>2, LocalStep DEF IInv, TypeOK, Writing
<1>2. CASE frame[p].sql \notin InvalidSQL
  <2> DEFINE f == [frame[p] EXCEPT !.snap = Opened(p).snap]
  <2>a. frame[p].name \in Names /\ Opened(p) # None /\ frame[p].sql = Opened(p).sql
    BY DEF IInv, CallInv, Opened
  <2>b. Opened(p) \in Dir
    BY <2>a DEF IInv, TypeOK, Opened
  <2>1. Opened(p) \in Dir /\ Opened(p).snap \in File /\ frame[p].sql = Opened(p).sql
    BY <2>a, <2>b DEF Dir
  <2>2. f \in Frame /\ SameArgs(f, frame[p]) /\ f.sql = Opened(p).sql /\ f.snap = Opened(p).snap
    BY <2>1, ReadingFrames, ZenonT(60) DEF IInv, TypeOK
  <2>3. frame' = [frame EXCEPT ![p] = f]
    BY <1>2 DEF IInv, TypeOK
  <2>4. Opened(p) = [sql |-> f.sql, snap |-> f.snap]
    BY <2>1, <2>2 DEF Dir
  <2> HIDE DEF f
  <2>5. TypeOK'
    BY <1>2, <2>2, <2>3 DEF IInv, TypeOK, Results
  <2>6. CallInv(p)' /\ frame'[p].sid = None
    <3>1. pc'[p] = "idle" /\ result'[p] = "read" /\ frame'[p] = f /\ UNCHANGED published
      BY <1>2, <2>3 DEF IInv, TypeOK
    <3>2. f.name = frame[p].name /\ f.sid = frame[p].sid /\ frame[p].sid = None
      BY <2>2 DEF IInv, StagingInv, Writing, SameArgs
    <3>3. published[f.name] = [sql |-> f.sql, snap |-> f.snap]
      BY <2>4, <3>2 DEF Opened
    <3>4. published[f.name] # None /\ f.name \in Names
      BY <2>a, <3>2 DEF Opened
    <3> QED
      BY <3>1, <3>2, <3>3, <3>4 DEF CallInv, Writing
  <2> QED
    BY <1>2, <2>3, <2>5, <2>6, LocalStep DEF IInv, TypeOK, Writing
<1> QED
  BY <1>1, <1>2

LEMMA ListShortStep ==
    ASSUME IInv, NEW p \in Procs, ListReject(p) \/ ListAbsent(p) \/ ListFails(p)
    PROVE  IInv'
<1> USE FrameTypes DEF ListReject, EarlyErrors, ListAbsent, ListFails, Fail, Return, At, disk
<1>1. TypeOK'
  BY DEF IInv, TypeOK, Results, Errors
<1>2. CallInv(p)' /\ frame'[p].sid = None
  BY DEF IInv, TypeOK, CallInv, Writing, NoFrame
<1> QED
  BY <1>1, <1>2, LocalStep DEF IInv, TypeOK, Writing

LEMMA ListBeginStep ==
    ASSUME IInv, NEW p \in Procs, ListBegin(p)
    PROVE  IInv'
<1> USE FrameTypes DEF ListBegin, Begin, At, disk
<1>1. [NoFrame EXCEPT !.before = Entries] \in Frame
  <2>1. Entries \in SUBSET EntryNames
    BY DEF IInv
  <2> QED
    BY <2>1 DEF NoFrame, Frame, File
<1>2. TypeOK'
  BY <1>1 DEF IInv, TypeOK, Results, Calling
<1>3. CallInv(p)' /\ frame'[p].sid = None
  BY DEF IInv, TypeOK, CallInv, Writing, NoFrame
<1> QED
  BY <1>2, <1>3, LocalStep DEF IInv, TypeOK, Writing

LEMMA ListScanStep ==
    ASSUME IInv, NEW p \in Procs, ListScan(p)
    PROVE  IInv'
<1>0. PICK seen \in SUBSET (frame[p].before \cup Entries) :
        /\ frame' = [frame EXCEPT ![p].toStat = seen]
        /\ \/ Return(p, "resource_limit")
           \/ Goto(p, "stat")
  BY DEF ListScan
<1> DEFINE f == [frame[p] EXCEPT !.toStat = seen]
<1> USE DEF ListScan, Return, Goto, At, disk
<1>1. f \in Frame /\ SameArgs(f, frame[p])
  <2>1. seen \in SUBSET EntryNames
    BY FrameTypes DEF IInv, TypeOK, Frame
  <2> QED
    BY <2>1, ReadingFrames DEF IInv, TypeOK
<1>2. frame' = [frame EXCEPT ![p] = f]
  BY <1>0 DEF IInv, TypeOK
<1> HIDE DEF f
<1>3. TypeOK'
  BY <1>0, <1>1, <1>2 DEF IInv, TypeOK, Calling, Results, Errors
<1>4. CallInv(p)' /\ frame'[p].sid = None
  BY <1>0, <1>1, <1>2 DEF IInv, TypeOK, StagingInv, CallInv, Writing, SameArgs
<1> QED
  BY <1>0, <1>2, <1>3, <1>4, LocalStep, SMTT(60) DEF IInv, TypeOK, CallInv, Writing

LEMMA ListStatStep ==
    ASSUME IInv, NEW p \in Procs, ListStat(p)
    PROVE  IInv'
<1>0. PICK e \in frame[p].toStat :
        IF EntryError(e) # "none"
        THEN Fail(p, EntryError(e))
        ELSE /\ frame' = [frame EXCEPT ![p].toStat = @ \ {e},
                                       ![p].listing = @ \cup (IF Skipped(e) THEN {} ELSE {e})]
             /\ UNCHANGED <<pc, result>>
  BY DEF ListStat
<1> USE FrameTypes DEF ListStat, Fail, Return, At, disk
<1>1. CASE EntryError(e) # "none"
  <2>1. TypeOK'
    BY <1>0, <1>1 DEF IInv, TypeOK, Results, Errors, EntryError
  <2>2. CallInv(p)' /\ frame'[p].sid = None
    BY <1>0, <1>1 DEF IInv, TypeOK, CallInv, Writing, NoFrame, EntryError
  <2>3. result'[p] # "created"
    BY <1>0, <1>1 DEF IInv, TypeOK, EntryError
  <2> QED
    BY <1>0, <1>1, <2>1, <2>2, <2>3, LocalStep DEF IInv, TypeOK, Writing
<1>2. CASE EntryError(e) = "none"
  <2> DEFINE t == frame[p].toStat \ {e}
             l == frame[p].listing \cup (IF Skipped(e) THEN {} ELSE {e})
             f == [frame[p] EXCEPT !.toStat = t, !.listing = l]
  <2>1. t \in SUBSET EntryNames /\ l \in SUBSET EntryNames
    BY DEF IInv, TypeOK, Frame
  <2>2. frame' = [frame EXCEPT ![p] = f]
    BY <1>0, <1>2 DEF IInv, TypeOK
  <2> HIDE DEF t, l
  <2>3. f \in Frame /\ SameArgs(f, frame[p])
    BY <2>1, ReadingFrames DEF IInv, TypeOK
  <2> HIDE DEF f
  <2>4. TypeOK'
    BY <1>0, <1>2, <2>2, <2>3 DEF IInv, TypeOK
  <2>5. CallInv(p)' /\ frame'[p].sid = None
    BY <1>0, <1>2, <2>2, <2>3 DEF IInv, TypeOK, StagingInv, CallInv, Writing, SameArgs
  <2> QED
    BY <1>0, <1>2, <2>2, <2>4, <2>5, LocalStep DEF IInv, TypeOK, CallInv, Writing
<1> QED
  BY <1>1, <1>2

LEMMA ListReturnStep ==
    ASSUME IInv, NEW p \in Procs, ListReturn(p)
    PROVE  IInv'
<1>0. \/ Fail(p, "resource_limit")
      \/ Return(p, "listed") /\ UNCHANGED frame
  BY DEF ListReturn
<1> USE <1>0, FrameTypes DEF ListReturn, Fail, Return, At, disk
<1>1. TypeOK'
  BY DEF IInv, TypeOK, Results, Errors
<1>2. CallInv(p)' /\ frame'[p].sid = None
  BY DEF IInv, TypeOK, StagingInv, CallInv, Writing, NoFrame
<1> QED
  BY <1>1, <1>2, LocalStep DEF IInv, TypeOK, Writing

--------------------------------------------------------------------------------
(* The theorems                                                              *)

LEMMA StutterStep == IInv /\ UNCHANGED vars => IInv'
BY DEF IInv, vars, disk, TypeOK, StagingInv, CallInv, OneOwner, Accounted, PublishedWhole,
       OneWinner

LEMMA NextIInv == IInv /\ [Next]_vars => IInv'
<1> SUFFICES ASSUME IInv, Next PROVE IInv'
  BY StutterStep
<1> PICK p \in Procs :
        \/ \E mode \in Modes : ResolveRoot(p, mode)
        \/ ResolveReject(p)
        \/ CreateNext(p)
        \/ ReadNext(p)
        \/ ListNext(p)
        \/ Crash(p)
  BY DEF Next
<1>1. CASE ResolveReject(p) \/ \E mode \in Modes : ResolveRoot(p, mode)
  BY <1>1, ResolveStep, ResolveRejectStep
<1>2. CASE CreateNext(p)
  BY <1>2, CreateRejectStep, CreateBeginStep, CreateLstatStep, CreateMkdirTempStep,
     CreateMkdirTempFailsStep, FourWritesStep, WriteFailsStep, CreateRenameStep,
     CreateCleanupStep DEF CreateNext
<1>3. CASE ReadNext(p)
  BY <1>3, ReadRejectStep, ReadBeginStep, ReadDirLstatStep, ReadSQLFileStep,
     ReadSnapFileStep, ReadFailsStep DEF ReadNext
<1>4. CASE ListNext(p)
  BY <1>4, ListShortStep, ListBeginStep, ListScanStep, ListStatStep, ListReturnStep
     DEF ListNext
<1>5. CASE Crash(p)
  BY <1>5, CrashStep
<1> QED
  BY <1>1, <1>2, <1>3, <1>4, <1>5

THEOREM Inductive == Spec => []IInv
BY InitIInv, NextIInv, PTL DEF Spec

\* Every variable keeps its type, whatever the numbers of callers and names.
THEOREM TypeCorrect == Spec => []TypeOK
<1>1. IInv => TypeOK
  BY DEF IInv
<1> QED
  BY <1>1, Inductive, PTL

\* No caller and no crash makes a partial or mixed artifact visible.
THEOREM AlwaysWhole == Spec => []PublishedWhole
<1>1. IInv => PublishedWhole
  BY DEF IInv
<1> QED
  BY <1>1, Inductive, PTL

\* A successful CreateArtifact has its own bytes on disk, for as long as its caller
\* looks at the result.
THEOREM CreatedHasItsBytes == Spec => []CreatedIsMine
<1>1. IInv => CreatedIsMine
  BY DEF IInv, CallInv, CreatedIsMine
<1> QED
  BY <1>1, Inductive, PTL

\* Of the calls that race for a name, one is told that it created it.
THEOREM CreatedOnce == Spec => []OneWinner
<1>1. IInv => OneWinner
  BY DEF IInv
<1> QED
  BY <1>1, Inductive, PTL

\* A successful ReadArtifact returns one artifact, not the SQL of one and the
\* snapshot of another.
THEOREM ReadsWhole == Spec => []ReadUntorn
<1>1. IInv => ReadUntorn
  BY DEF IInv, CallInv, ReadUntorn
<1> QED
  BY <1>1, Inductive, PTL

\* A staging directory has one owner; only crashes and failed cleanups leave
\* one without.
THEOREM StagingNeverShared == Spec => []StagingOwned
<1>1. IInv => StagingOwned
  BY ArtifactAssumption DEF IInv, OneOwner, Accounted, StagingOwned
<1> QED
  BY <1>1, Inductive, PTL

--------------------------------------------------------------------------------
(* What a step is to the atomic store                                        *)

\* All steps but a publishing rename and a finished read leave the published
\* artifacts alone and answer, if at all, with an error or nothing of interest.
QuietStep(p) ==
    /\ UNCHANGED published
    /\ \E o \in Results \ {"created", "read"} : result' = [result EXCEPT ![p] = o]
    /\ \A q \in Procs \ {p} : UNCHANGED frame[q]

ReadDone(p) ==
    /\ UNCHANGED published
    /\ frame[p].name \in Names
    /\ published[frame[p].name] # None
    /\ result' = [result EXCEPT ![p] = "read"]
    /\ frame' = [frame EXCEPT ![p].snap = published[frame[p].name].snap]
    /\ frame[p].sql = published[frame[p].name].sql

LEMMA StepKinds ==
    ASSUME IInv, Next
    PROVE  \E p \in Procs : CreateRename(p) \/ ReadDone(p) \/ QuietStep(p)
<1> PICK p \in Procs :
        \/ \E mode \in Modes : ResolveRoot(p, mode)
        \/ ResolveReject(p)
        \/ CreateNext(p)
        \/ ReadNext(p)
        \/ ListNext(p)
        \/ Crash(p)
  BY DEF Next
<1>0. /\ result \in [Procs -> Results] /\ frame \in [Procs -> Frame]
      /\ pc[p] # "idle" => result[p] = "none"
      /\ {"none", "resolved", "listed"} \cup Errors \subseteq Results \ {"created", "read"}
  BY DEF IInv, TypeOK, CallInv, Results, Errors
<1> USE <1>0 DEF QuietStep, Fail, Return, Begin, Goto, At, disk, Errors
<1>1. CASE ResolveReject(p) \/ \E mode \in Modes : ResolveRoot(p, mode)
  <2>1. QuietStep(p)
    BY <1>1 DEF ResolveRoot, ResolveReject
  <2> QED
    BY <2>1
<1>2. CASE CreateNext(p)
  <2>1. CASE \/ \E n \in Names \cup BadNames, a \in Payloads : CreateReject(p, n, a)
             \/ \E n \in Names, a \in Payloads : CreateBegin(p, n, a)
             \/ CreateLstat(p) \/ CreateMkdirTempFails(p) \/ WriteFails(p)
    <3>1. QuietStep(p)
      BY <2>1 DEF CreateReject, CreateRejections, EarlyErrors, CreateBegin, CreateLstat,
                  CreateMkdirTempFails, WriteFails, Writing
    <3> QED
      BY <3>1
  <2>2. CASE CreateMkdirTemp(p) \/ CreateCleanup(p)
    <3>1. QuietStep(p)
      BY <2>2 DEF CreateMkdirTemp, CreateCleanup
    <3> QED
      BY <3>1
  <2>3. CASE CreateSQL(p) \/ FillSQL(p) \/ CreateSnap(p) \/ FillSnap(p)
    <3>1. QuietStep(p)
      BY <2>3 DEF CreateSQL, FillSQL, CreateSnap, FillSnap, Write
    <3> QED
      BY <3>1
  <2> QED
    BY <1>2, <2>1, <2>2, <2>3 DEF CreateNext
<1>3. CASE ReadNext(p)
  <2>1. CASE \/ \E n \in Names \cup BadNames : ReadReject(p, n)
             \/ \E n \in Names : ReadBegin(p, n)
             \/ ReadDirLstat(p) \/ ReadSQLFile(p) \/ ReadFails(p)
    <3>1. QuietStep(p)
      BY <2>1 DEF ReadReject, EarlyErrors, ReadBegin, ReadDirLstat, ReadSQLFile, ReadFails, FileErrors
    <3> QED
      BY <3>1
  <2>2. CASE ReadSnapFile(p)
    <3>1. CASE frame[p].sql \in InvalidSQL
      <4>1. QuietStep(p)
        BY <2>2, <3>1 DEF ReadSnapFile
      <4> QED
        BY <4>1
    <3>2. CASE frame[p].sql \notin InvalidSQL
      <4>1. /\ frame[p].name \in Names /\ published[frame[p].name] # None
            /\ frame[p].sql = published[frame[p].name].sql
        BY <2>2 DEF IInv, CallInv, ReadSnapFile
      <4>2. ReadDone(p)
        BY <2>2, <3>2, <4>1 DEF ReadSnapFile, ReadDone, Opened
      <4> QED
        BY <4>2
    <3> QED
      BY <3>1, <3>2
  <2> QED
    BY <1>3, <2>1, <2>2 DEF ReadNext
<1>4. CASE ListNext(p)
  <2>1. QuietStep(p)
    <3>1. CASE ListScan(p)
      <4>1. PICK seen : /\ frame' = [frame EXCEPT ![p].toStat = seen]
                        /\ Return(p, "resource_limit") \/ Goto(p, "stat")
        BY <3>1 DEF ListScan
      <4> QED
        BY <3>1, <4>1 DEF ListScan
    <3>2. CASE ListStat(p)
      BY <3>2 DEF ListStat, EntryError
    <3>3. CASE ListReject(p) \/ ListAbsent(p) \/ ListBegin(p) \/ ListFails(p) \/ ListReturn(p)
      BY <3>3 DEF ListReject, EarlyErrors, ListAbsent, ListBegin, ListFails, ListReturn
    <3> QED
      BY <1>4, <3>1, <3>2, <3>3 DEF ListNext
  <2> QED
    BY <2>1
<1>5. CASE Crash(p)
  <2>1. QuietStep(p)
    BY <1>5 DEF Crash
  <2> QED
    BY <2>1
<1> QED
  BY <1>1, <1>2, <1>3, <1>4, <1>5

\* A name that is taken keeps its directory.
LEMMA PublishedStays ==
    ASSUME IInv, [Next]_vars, NEW n \in Names, published[n] # None
    PROVE  published'[n] = published[n]
<1>1. CASE Next
  <2> PICK p \in Procs : CreateRename(p) \/ ReadDone(p) \/ QuietStep(p)
    BY <1>1, StepKinds
  <2> QED
    BY DEF IInv, TypeOK, CreateRename, RenameAllowed, ReadDone, QuietStep
<1>2. CASE UNCHANGED vars
  BY <1>2 DEF vars, disk
<1> QED
  BY <1>1, <1>2

\* No step replaces or removes a published artifact.
THEOREM NeverOverwritten == Spec => PublishedForever
<1>1. IInv /\ [Next]_vars =>
        [\A n \in Names : published[n] # None => published'[n] = published[n]]_vars
  BY PublishedStays
<1> QED
  BY <1>1, Inductive, PTL DEF Spec, PublishedForever

--------------------------------------------------------------------------------
(* What a listing says                                                       *)

\* What has been published by the time a listing begins is seen by its scan, and is
\* either still to be looked at or listed; what is listed is published.
ListInv(p) ==
    /\ pc[p] = "scan" =>
        /\ frame[p].before \cap Names \subseteq Present(published)
        /\ frame[p].listing = {}
    /\ pc[p] = "stat" =>
        /\ frame[p].before \cap Names \subseteq frame[p].toStat \cup frame[p].listing
        /\ frame[p].listing \cap Names \subseteq Present(published)
    /\ result[p] = "listed" =>
        /\ frame[p].before \cap Names \subseteq frame[p].listing
        /\ frame[p].listing \cap Names \subseteq Present(published)

\* The artifacts on disk become more.
LEMMA PresentGrows == IInv /\ [Next]_vars => Present(published) \subseteq Present(published)'
<1> SUFFICES ASSUME IInv, [Next]_vars PROVE Present(published) \subseteq Present(published)'
  OBVIOUS
<1>1. published \in [Names -> Dir \cup {None}]
  BY DEF IInv, TypeOK
<1>2. published' \in [Names -> Dir \cup {None}]
  BY NextIInv DEF IInv, TypeOK
<1> QED
  BY <1>1, <1>2, PublishedStays, ArtifactAssumption DEF Present

\* Among the entries of the root, the names are the artifacts.
LEMMA NamesAreArtifacts == IInv => Entries \cap Names = Present(published)
BY ArtifactAssumption DEF IInv, TypeOK, Entries, Present

\* A call that lists nothing has nothing to say about a listing.
LEMMA NotListing ==
    ASSUME NEW p \in Procs, pc'[p] \notin {"scan", "stat"}, result'[p] # "listed"
    PROVE  ListInv(p)'
BY DEF ListInv

\* Another call's step leaves a call's control and locals alone.
LEMMA OtherCalls ==
    ASSUME IInv, NEW p \in Procs, NEW q \in Procs \ {p},
           \/ \E mode \in Modes : ResolveRoot(p, mode)
           \/ ResolveReject(p) \/ CreateNext(p) \/ ReadNext(p) \/ ListNext(p) \/ Crash(p)
    PROVE  pc'[q] = pc[q] /\ frame'[q] = frame[q] /\ result'[q] = result[q]
<1> USE DEF IInv, TypeOK, Fail, Return, Begin, Goto
<1>1. CASE ResolveReject(p) \/ Crash(p) \/ \E mode \in Modes : ResolveRoot(p, mode)
  BY <1>1 DEF ResolveReject, Crash, ResolveRoot
<1>2. CASE CreateNext(p)
  BY <1>2 DEF CreateNext, CreateReject, CreateBegin, CreateLstat, CreateMkdirTemp, CreateMkdirTempFails,
              CreateSQL, FillSQL, CreateSnap, FillSnap, Write, WriteFails, CreateRename, CreateCleanup
<1>3. CASE ReadNext(p)
  BY <1>3 DEF ReadNext, ReadReject, ReadBegin, ReadDirLstat, ReadSQLFile, ReadSnapFile, ReadFails
<1>4. CASE ListNext(p)
  BY <1>4 DEF ListNext, ListReject, ListAbsent, ListBegin, ListScan, ListStat, ListFails, ListReturn
<1> QED
  BY <1>1, <1>2, <1>3, <1>4

\* The scan returns what was there when it began and still is.
LEMMA ListScanLists ==
    ASSUME IInv, NEW p \in Procs, ListInv(p), ListScan(p)
    PROVE  ListInv(p)'
<1>0. PICK seen \in SUBSET (frame[p].before \cup Entries) :
        /\ frame[p].before \cap Entries \subseteq seen
        /\ frame' = [frame EXCEPT ![p].toStat = seen]
        /\ IF Cardinality(seen) > MaxArtifactDirEntries
           THEN Return(p, "resource_limit")
           ELSE Goto(p, "stat")
  BY DEF ListScan
<1>1. frame[p] \in Frame /\ seen \in SUBSET EntryNames
  BY FrameTypes DEF IInv, TypeOK, Frame
<1> DEFINE f == [frame[p] EXCEPT !.toStat = seen]
<1>2. frame'[p] = f /\ pc[p] = "scan" /\ UNCHANGED published
  BY <1>0 DEF ListScan, At, disk, IInv, TypeOK
<1>3. f.toStat = seen /\ f.before = frame[p].before /\ f.listing = frame[p].listing
  BY <1>1 DEF Frame
<1>4. pc'[p] \in {"scan", "stat"} => pc'[p] = "stat"
  BY <1>0, <1>2 DEF Return, Goto, IInv, TypeOK
<1>5. result'[p] # "listed"
  BY <1>0, <1>2 DEF Return, Goto, IInv, TypeOK, CallInv
<1> HIDE DEF f
<1>6. frame[p].before \cap Names \subseteq seen /\ frame[p].listing = {}
  BY <1>0, <1>2, NamesAreArtifacts DEF ListInv
<1> QED
  BY <1>2, <1>3, <1>4, <1>5, <1>6 DEF ListInv

\* Each entry looked at moves to the listing, if it is not skipped; artifacts never are.
LEMMA ListStatLists ==
    ASSUME IInv, NEW p \in Procs, ListInv(p), ListStat(p)
    PROVE  ListInv(p)'
<1>0. PICK e \in frame[p].toStat :
        IF EntryError(e) # "none"
        THEN Fail(p, EntryError(e))
        ELSE /\ frame' = [frame EXCEPT ![p].toStat = @ \ {e},
                                       ![p].listing = @ \cup (IF Skipped(e) THEN {} ELSE {e})]
             /\ UNCHANGED <<pc, result>>
  BY DEF ListStat
<1>1. CASE EntryError(e) # "none"
  <2>1. pc'[p] = "idle" /\ result'[p] # "listed"
    BY <1>0, <1>1 DEF Fail, Return, EntryError, IInv, TypeOK
  <2> QED
    BY <2>1, NotListing
<1>2. CASE EntryError(e) = "none"
  <2> DEFINE t == frame[p].toStat \ {e}
             l == frame[p].listing \cup (IF Skipped(e) THEN {} ELSE {e})
             f == [frame[p] EXCEPT !.toStat = t, !.listing = l]
  <2>1. frame'[p] = f /\ pc[p] = "stat" /\ UNCHANGED <<pc, result, published>> /\ frame[p] \in Frame
    BY <1>0, <1>2 DEF ListStat, At, disk, IInv, TypeOK
  <2>2. result[p] # "listed"
    BY <2>1 DEF IInv, CallInv
  <2>3. e \in Names => e \in l /\ e \in Present(published)
    BY <1>2, NamesAreArtifacts, ArtifactAssumption DEF EntryError, Skipped, ForeignKinds
  <2>4. frame[p].before \cap Names \subseteq t \cup l /\ l \cap Names \subseteq Present(published)
    BY <2>1, <2>3 DEF ListInv
  <2> HIDE DEF t, l
  <2>5. f.toStat = t /\ f.listing = l /\ f.before = frame[p].before
    BY <2>1 DEF Frame
  <2> HIDE DEF f
  <2> QED
    BY <2>1, <2>2, <2>4, <2>5 DEF ListInv
<1> QED
  BY <1>1, <1>2

\* The other steps of a listing.
LEMMA ListEndsLists ==
    ASSUME IInv, NEW p \in Procs, ListInv(p),
           ListReject(p) \/ ListAbsent(p) \/ ListBegin(p) \/ ListFails(p) \/ ListReturn(p)
    PROVE  ListInv(p)'
<1>1. CASE ListReject(p) \/ ListFails(p)
  <2>1. pc'[p] = "idle" /\ result'[p] # "listed"
    BY <1>1 DEF ListReject, ListFails, EarlyErrors, Fail, Return, IInv, TypeOK
  <2> QED
    BY <2>1, NotListing
<1>2. CASE ListAbsent(p)
  <2>1. pc'[p] = "idle" /\ frame'[p] = NoFrame
    BY <1>2 DEF ListAbsent, Fail, Return, IInv, TypeOK
  <2> QED
    BY <2>1 DEF ListInv, NoFrame
<1>3. CASE ListBegin(p)
  <2> DEFINE f == [NoFrame EXCEPT !.before = Entries]
  <2>1. pc'[p] = "scan" /\ result'[p] = "none" /\ frame'[p] = f /\ UNCHANGED published
    BY <1>3 DEF ListBegin, Begin, disk, IInv, TypeOK
  <2>2. f.before = Entries /\ f.listing = {}
    BY DEF NoFrame
  <2> HIDE DEF f
  <2> QED
    BY <2>1, <2>2, NamesAreArtifacts DEF ListInv
<1>4. CASE ListReturn(p)
  <2>1. CASE Cardinality(frame[p].listing) > MaxArtifacts
    <3>1. pc'[p] = "idle" /\ result'[p] # "listed"
      BY <1>4, <2>1 DEF ListReturn, Fail, Return, IInv, TypeOK
    <3> QED
      BY <3>1, NotListing
  <2>2. CASE ~(Cardinality(frame[p].listing) > MaxArtifacts)
    <3>1. pc'[p] = "idle" /\ pc[p] = "stat" /\ frame[p].toStat = {} /\ UNCHANGED <<frame, published>>
      BY <1>4, <2>2 DEF ListReturn, Return, At, disk, IInv, TypeOK
    <3> QED
      BY <3>1 DEF ListInv
  <2> QED
    BY <2>1, <2>2
<1> QED
  BY <1>1, <1>2, <1>3, <1>4

\* Calls that are not listings do not end as one.
LEMMA OthersDoNotList ==
    ASSUME IInv, NEW p \in Procs,
           \/ \E mode \in Modes : ResolveRoot(p, mode)
           \/ ResolveReject(p) \/ CreateNext(p) \/ ReadNext(p) \/ Crash(p)
    PROVE  ListInv(p)'
<1> SUFFICES pc'[p] \notin {"scan", "stat"} /\ result'[p] # "listed"
  BY NotListing
<1> USE DEF IInv, TypeOK, CallInv, At, Fail, Return, Begin, Goto, EarlyErrors
<1>1. CASE ResolveReject(p) \/ Crash(p) \/ \E mode \in Modes : ResolveRoot(p, mode)
  BY <1>1 DEF ResolveReject, Crash, ResolveRoot
<1>2. CASE CreateNext(p)
  <2>1. CASE \/ \E n \in Names \cup BadNames, a \in Payloads : CreateReject(p, n, a)
             \/ \E n \in Names, a \in Payloads : CreateBegin(p, n, a)
             \/ CreateLstat(p) \/ CreateMkdirTemp(p) \/ CreateMkdirTempFails(p)
    BY <2>1, ZenonT(60) DEF CreateReject, CreateRejections, CreateBegin, CreateLstat, CreateMkdirTemp, CreateMkdirTempFails
  <2>2. CASE CreateSQL(p) \/ FillSQL(p) \/ CreateSnap(p) \/ FillSnap(p)
    BY <2>2 DEF CreateSQL, FillSQL, CreateSnap, FillSnap, Write
  <2>3. CASE WriteFails(p) \/ CreateRename(p) \/ CreateCleanup(p)
    BY <2>3 DEF WriteFails, Writing, CreateRename, CreateCleanup
  <2> QED
    BY <1>2, <2>1, <2>2, <2>3 DEF CreateNext
<1>3. CASE ReadNext(p)
  BY <1>3, ZenonT(60) DEF ReadNext, ReadReject, ReadBegin, ReadDirLstat, ReadSQLFile, ReadSnapFile, ReadFails, FileErrors
<1> QED
  BY <1>1, <1>2, <1>3

\* Every step keeps what is true of every listing.
LEMMA NextLists ==
    IInv /\ (\A q \in Procs : ListInv(q)) /\ [Next]_vars => \A q \in Procs : ListInv(q)'
<1> SUFFICES ASSUME IInv, \A q \in Procs : ListInv(q), [Next]_vars, NEW q \in Procs
             PROVE  ListInv(q)'
  OBVIOUS
<1>0. Present(published) \subseteq Present(published)'
  BY PresentGrows
<1>1. CASE UNCHANGED vars
  BY <1>1 DEF vars, disk, ListInv
<1>2. CASE Next
  <2> PICK p \in Procs :
          \/ \E mode \in Modes : ResolveRoot(p, mode)
          \/ ResolveReject(p) \/ CreateNext(p) \/ ReadNext(p) \/ ListNext(p) \/ Crash(p)
    BY <1>2 DEF Next
  <2>1. CASE q # p
    <3>1. pc'[q] = pc[q] /\ frame'[q] = frame[q] /\ result'[q] = result[q]
      BY <2>1, OtherCalls
    <3> QED
      BY <1>0, <3>1 DEF ListInv
  <2>2. CASE q = p /\ ListNext(p)
    BY <2>2, ListScanLists, ListStatLists, ListEndsLists DEF ListNext
  <2>3. CASE q = p /\ ~ListNext(p)
    BY <2>3, OthersDoNotList
  <2> QED
    BY <2>1, <2>2, <2>3
<1> QED
  BY <1>1, <1>2

\* A listing that succeeds names every artifact that was published when it began, and
\* nothing that is not published, whatever is created, cleaned up or abandoned beside it.
THEOREM ListingsExact == Spec => []ListingExact
<1> DEFINE LInv == \A q \in Procs : ListInv(q)
<1>1. Init => LInv
  BY DEF Init, ListInv
<1>2. IInv /\ LInv /\ [Next]_vars => LInv'
  BY NextLists
<1>3. LInv => ListingExact
  BY DEF ListInv, ListingExact
<1> HIDE DEF LInv
<1> QED
  BY <1>1, <1>2, <1>3, Inductive, PTL DEF Spec

--------------------------------------------------------------------------------
(* The atomic store                                                          *)


LEMMA QuietStepMaps ==
    ASSUME IInv, NEW p \in Procs, QuietStep(p)
    PROVE  Registry!Other(p)
<1> PICK o \in Results \ {"created", "read"} : result' = [result EXCEPT ![p] = o]
  BY DEF QuietStep
<1>1. o \in Registry!Errors \cup Registry!Quiet
  BY DEF Results, Errors, Registry!Errors, Registry!Quiet
<1> QED
  BY <1>1, ZenonT(60) DEF QuietStep, Registry!Other, IInv, TypeOK

LEMMA ReadDoneMaps ==
    ASSUME IInv, NEW p \in Procs, ReadDone(p)
    PROVE  Registry!Read(p, frame[p].name)
<1> DEFINE n == frame[p].name
           b == published[n].snap
           f == [frame[p] EXCEPT !.snap = b]
<1>1. n \in Names /\ published[n] # None /\ published[n] \in {Whole(a) : a \in Payloads}
  BY DEF ReadDone, IInv, PublishedWhole
<1>1a. PICK a \in Payloads : published[n] = Whole(a)
  BY <1>1
<1>2. /\ published[n].sql = b /\ frame[p].sql = b
      /\ b \in Payloads
  BY <1>1a DEF ReadDone, Whole
<1>3. frame' = [frame EXCEPT ![p] = f] /\ frame[p] \in Frame
  BY DEF ReadDone, IInv, TypeOK
<1> HIDE DEF b
<1>4. f.sql = b /\ f.snap = b
  <2>1. b \in File
    BY <1>2 DEF File
  <2> QED
    BY <1>2, <1>3, <2>1, ReadingFrames
<1> HIDE DEF f
<1>5. b # None
  BY <1>2, ArtifactAssumption
<1>6. /\ UNCHANGED published
      /\ result' = [result EXCEPT ![p] = "read"]
      /\ result \in [Procs -> Results] /\ frame \in [Procs -> Frame]
  BY DEF ReadDone, IInv, TypeOK
<1> QED
  BY <1>1, <1>2, <1>3, <1>4, <1>5, <1>6 DEF Registry!Read

LEMMA RenameMaps ==
    ASSUME IInv, NEW p \in Procs, CreateRename(p)
    PROVE  Registry!Create(p, frame[p].name, frame[p].payload)
<1> DEFINE n == frame[p].name
           a == frame[p].payload
<1>1. n \in Names /\ a \in Payloads /\ Staged(p) = Whole(a) /\ result[p] = "none"
  BY DEF IInv, StagingInv, CallInv, CreateRename, At, Writing, Staged
<1>2. /\ published[n] = None
      /\ published' = [published EXCEPT ![n] = Whole(a)]
      /\ result' = [result EXCEPT ![p] = "created"]
      /\ \A q \in Procs \ {p} : frame'[q] = frame[q]
  BY <1>1 DEF CreateRename, RenameAllowed, Return, IInv, TypeOK
<1>3. Whole(a) # None /\ Whole(a).sql = a
  BY <1>1, FrameTypes, ArtifactAssumption DEF Whole
<1> QED
  BY <1>1, <1>2, <1>3 DEF Registry!Create, IInv, TypeOK

\* FSArtifactStore, with its staging and its races, is the atomic store.
THEOREM Implements == Spec => ImplementsRegistry
<1>1. Init => Registry!Init
  BY DEF Init, Registry!Init
<1>2. IInv /\ [Next]_vars => [Registry!Next]_(Registry!vars)
  <2>1. ASSUME UNCHANGED vars PROVE UNCHANGED Registry!vars
    BY <2>1 DEF vars, disk, Registry!vars
  <2>2. ASSUME IInv, Next PROVE Registry!Next
    <3> PICK p \in Procs : CreateRename(p) \/ ReadDone(p) \/ QuietStep(p)
      BY <2>2, StepKinds
    <3>1. CASE CreateRename(p)
      <4>1. frame[p].name \in Names /\ frame[p].payload \in Payloads
        BY <2>2, <3>1 DEF IInv, CallInv, CreateRename, At, Writing
      <4>a. Registry!Create(p, frame[p].name, frame[p].payload)
        BY <2>2, <3>1, RenameMaps
      <4>2. \E n \in Names, a \in Payloads : Registry!Create(p, n, a)
        BY <4>1, <4>a DEF Registry!Create
      <4> QED
        BY <4>2 DEF Registry!Next
    <3>2. CASE ReadDone(p)
      <4>a. frame[p].name \in Names /\ Registry!Read(p, frame[p].name)
        BY <2>2, <3>2, ReadDoneMaps DEF ReadDone
      <4>1. \E n \in Names : Registry!Read(p, n)
        BY <4>a DEF Registry!Read
      <4> QED
        BY <4>1 DEF Registry!Next
    <3>3. CASE QuietStep(p)
      BY <2>2, <3>3, QuietStepMaps DEF Registry!Next
    <3> QED
      BY <3>1, <3>2, <3>3
  <2> QED
    BY <2>1, <2>2
<1> QED
  BY <1>1, <1>2, Inductive, PTL DEF Spec, ImplementsRegistry, Registry!Spec

================================================================================
