------------------------- MODULE WorkingCopiesProofs -------------------------
(***************************************************************************)
(* WorkingCopies, for any number of sessions, checkouts, names, roots,     *)
(* faults, crashes and acts of the user: the database, the attachments     *)
(* and the operation in progress agree (Consistent), a directory Farhelm   *)
(* made is where its record or a notice says (KnownOrTold), only a         *)
(* checkout's own directory is moved or deleted for it (OwnMoved), and     *)
(* never one in use (InUseStays).                                          *)
(*                                                                         *)
(* The argument has two parts.  Records is about what the database holds   *)
(* and each step of an operation relies on: two active rows never share a  *)
(* path, so a session is a member of one active row at most, a final       *)
(* Delete is seen to be final, and a row is archived only when its one     *)
(* member is the session being deleted.  Directories is about the file     *)
(* system: with creation times, an identity belongs to one object, which   *)
(* was made for the row that records it; it stays where the row says       *)
(* until the user touches it, and the steps between a check and its        *)
(* rename keep in mind what has changed since.                             *)
(***************************************************************************)
EXTENDS WorkingCopies, FiniteSetTheorems, TLAPS

RowRecords ==
    [st : {"none", "planned", "allocated", "pending", "retired"}, root : Roots \cup {None},
     name : Paths \cup {None}, id : [ino : Nat, birth : Nat] \cup {None},
     dest : (Stems \cup Fresh) \cup {None}]
SessRecords ==
    [st : {"new", "launching", "live", "error", "gone"}, cwd : Names \cup {None},
     origin : Checkouts \cup {None}]
ObjRecords == [ino : Nat, by : Checkouts \cup {User}, birth : Nat]
Moving == {"journal", "rename", "sync", "reconcile"}
OpRecords ==
    [kind : {"idle", "create", "delete", "startup", "trash"},
     at : Moving \cup {"idle", "mkdir", "record", "launch", "sweep", "park", "next", "reply", "remove"},
     s : Sessions \cup {None}, w : Checkouts \cup {None}, src : Nat, tries : Nat,
     todo : SUBSET Checkouts, released : SUBSET Checkouts, notices : SUBSET (Checkouts \X Names)]

Typed ==
    /\ rows \in [Checkouts -> RowRecords]
    /\ members \in [Checkouts -> SUBSET Sessions]
    /\ sess \in [Sessions -> SessRecords]
    /\ att \in [Sessions -> {"none", "home", "parked"}]
    /\ runs \subseteq Sessions /\ starting \subseteq Sessions /\ asked \subseteq Sessions
    /\ root \in Roots
    /\ objs \in Seq(ObjRecords)
    /\ tree \in [Roots \X Names -> 0..Len(objs)]
    /\ op \in OpRecords
    /\ told \subseteq Checkouts \X Names /\ lost \subseteq Checkouts \X Names
    /\ births \in BOOLEAN

\* What a row carries in each state.
RowOK(w) ==
    /\ rows[w].st = "none" => rows[w] = NoRow
    /\ rows[w].st # "none" => rows[w].root \in Roots /\ rows[w].name \in Paths
    /\ rows[w].st \in {"allocated", "pending", "retired"} => rows[w].id \in [ino : Nat, birth : Nat]
    /\ rows[w].dest # None <=> rows[w].st \in {"pending", "retired"}
    /\ rows[w].st \in {"pending", "retired"} => rows[w].id.birth # 0

\* The members of an active row are the sessions kept in its directory, and
\* nobody works where an archive is pending.
MemberOK(w) ==
    /\ Active(w) <=> members[w] # {}
    /\ \A s \in members[w] : Listed(s) /\ sess[s].cwd = rows[w].name
    /\ rows[w].st = "planned" => \A s \in members[w] : sess[s].origin = w
    /\ rows[w].st \in {"allocated", "pending"} =>
           \A s \in Sessions : Listed(s) /\ sess[s].cwd = rows[w].name => s \in members[w]
    /\ rows[w].st = "pending" =>
           members[w] \subseteq asked /\ members[w] \cap (runs \cup starting) = {}

SessOK(s) ==
    /\ s \in runs \cup starting => sess[s].st \in {"live", "error"}
    /\ sess[s].st = "launching" => sess[s].origin \in Checkouts /\ s \in members[sess[s].origin]
    /\ sess[s].st = "new" => sess[s].origin = None
    /\ Listed(s) => att[s] # "none"
    /\ Listed(s) /\ att[s] = "parked" =>
           op.kind = "startup" \/ (op.kind = "delete" /\ op.s = s /\ op.at \notin {"sweep", "park"})

\* One active row to a path, and one checkout to the session that made it.
Distinct ==
    /\ \A w \in Checkouts, v \in Checkouts :
           Active(w) /\ Active(v) /\ rows[w].name = rows[v].name => w = v
    /\ \A s \in Sessions, x \in Sessions :
           sess[s].origin = sess[x].origin /\ sess[s].origin # None => s = x

\* What the operation in progress knows, step by step.
CreateOK ==
    /\ op.at \in {"mkdir", "record", "launch"}
    /\ op.s \in Sessions /\ op.w \in Checkouts /\ op.notices = {}
    /\ op.at = "record" => op.src \in DOMAIN objs
    /\ sess[op.s].st = "launching" /\ sess[op.s].origin = op.w /\ op.s \in members[op.w]
    /\ rows[op.w].st = IF op.at = "launch" THEN "allocated" ELSE "planned"

MovingOK ==
    /\ op.w \in op.todo
    /\ rows[op.w].st = IF op.at = "journal" THEN "allocated" ELSE "pending"
    /\ rows[op.w].id.birth # 0
    /\ op.kind = "delete" => members[op.w] = {op.s}

DeleteOK ==
    /\ op.at \in Moving \cup {"sweep", "park", "next", "reply"}
    /\ op.s \in Sessions
    /\ op.at # "reply" => Listed(op.s) /\ op.s \in asked /\ op.s \notin starting
    /\ op.at \notin {"sweep", "reply"} => op.s \notin runs
    /\ op.at = "reply" => sess[op.s].st = "gone"
    /\ \A w \in op.todo : op.s \in members[w]
    /\ op.released \cap op.todo = {}
    /\ op.at \in {"sweep", "park", "reply"} => op.todo = {} /\ op.released = {}
    /\ op.at \in {"sweep", "park"} => op.notices = {}
    /\ op.at \in Moving => MovingOK

StartupOK ==
    /\ op.at \in {"next", "reconcile", "rename", "sync"}
    /\ op.notices = {}
    /\ \A w \in op.todo : rows[w].st = "pending"
    /\ op.at # "next" => MovingOK

TrashOK ==
    /\ op.at = "remove" /\ op.w \in Checkouts /\ op.notices = {}
    /\ rows[op.w].st \in {"retired", "none"}

OpOK ==
    /\ op.kind = "idle" => op = Idle
    /\ op.kind = "create" => CreateOK
    /\ op.kind = "delete" => DeleteOK
    /\ op.kind = "startup" => StartupOK
    /\ op.kind = "trash" => TrashOK

Records ==
    /\ Typed
    /\ \A w \in Checkouts : RowOK(w) /\ MemberOK(w)
    /\ \A s \in Sessions : SessOK(s)
    /\ Distinct
    /\ OpOK

Spots == Roots \X Names

\* A place where a directory of checkout w is that the user has not moved.
Own(w, q) == tree[q] # 0 /\ objs[tree[q]].by = w /\ tree[q] \notin strayed

ObjectsOK ==
    /\ \A o \in DOMAIN objs : objs[o].birth = IF births THEN o ELSE 0
    /\ \A o \in DOMAIN objs : objs[o].by # User => \E s \in Sessions : sess[s].origin = objs[o].by
    /\ \A q \in Spots, p \in Spots : tree[q] = tree[p] /\ tree[q] # 0 => q = p
    /\ \A w \in Checkouts : rows[w].st \in {"allocated", "pending", "retired"} =>
           \E o \in DOMAIN objs : objs[o].by = w /\ Identity(o) = rows[w].id

\* Where the directories of a checkout are, by the state of its row.
PlaceOK(w, q) ==
    /\ rows[w].st = "none" =>
           <<w, q[2]>> \in told \cup lost \cup (IF op.at = "reply" THEN op.notices ELSE {})
    /\ rows[w].st = "planned" => rows[w].root = root /\ q = <<root, rows[w].name>>
    /\ rows[w].st = "allocated" => q = <<rows[w].root, rows[w].name>>
    /\ rows[w].st = "pending" => q = <<rows[w].root, rows[w].name>> \/ q = <<rows[w].root, rows[w].dest>>
    /\ rows[w].st = "retired" => q = <<rows[w].root, rows[w].dest>>
    /\ rows[w].st \in {"allocated", "pending", "retired"} => Identity(tree[q]) = rows[w].id

\* What a Delete has settled: its notices name the places, or there is none
\* but the archive.
SettledOK(w, q) ==
    IF w \in op.released \/ rows[w].st = "planned" THEN <<w, q[2]>> \in op.notices
    ELSE rows[w].st = "pending" /\ q = <<rows[w].root, rows[w].dest>>

Places == \A w \in Checkouts, q \in Spots : Own(w, q) => PlaceOK(w, q)
SettledPlaces ==
    op.kind = "delete" /\ op.at \in Moving \cup {"next"} =>
        \A w \in Checkouts \ op.todo, q \in Spots :
            members[w] = {op.s} /\ Own(w, q) => SettledOK(w, q)

\* What the operation in progress saw, and what has changed since.
SourceOK == op.src \in DOMAIN objs /\ objs[op.src].by = op.w
SeenOK ==
    /\ op.at = "mkdir" => \A q \in Spots : ~Own(op.w, q)
    /\ op.at = "record" => SourceOK /\ \A q \in Spots : Own(op.w, q) => tree[q] = op.src
    /\ op.at \in {"journal", "rename"} =>
           /\ SourceOK
           /\ \A q \in Spots : Own(op.w, q) => q = <<root, rows[op.w].name>>
           /\ LET o == At(rows[op.w].name) IN
                o # 0 => o = op.src \/ o \in strayed \/ objs[o].by = User
    /\ op.at = "sync" =>
           \A q \in Spots : Own(op.w, q) => q = <<rows[op.w].root, rows[op.w].dest>>
    /\ op.at = "remove" =>
           /\ SourceOK
           /\ rows[op.w].st = "retired" => Identity(op.src) = rows[op.w].id
           /\ op.src \notin strayed => \A q \in Spots : tree[q] = op.src => ~InUse(q[2])

Directories == ObjectsOK /\ Places /\ SettledPlaces /\ SeenOK

-----------------------------------------------------------------------------
(* Facts about the constants and the records the steps change.             *)

LEMMA Apart ==
    /\ None \notin Sessions /\ None \notin Checkouts /\ None \notin Paths /\ None \notin Roots
    /\ None \notin Stems \cup Fresh /\ None \notin [ino : Nat, birth : Nat]
    /\ User \notin Checkouts
    /\ \A p \in Paths : p \notin Stems \cup Fresh
    /\ Paths \subseteq Names /\ Stems \subseteq Names /\ Fresh \subseteq Names
BY CopiesConstants DEF Names

LEMMA Outcomes ==
    ASSUME NEW s \in Sessions, NEW v \in {"new", "launching", "live", "error", "gone"},
           sess \in [Sessions -> SessRecords], sess' = [sess EXCEPT ![s].st = v]
    PROVE  /\ sess' \in [Sessions -> SessRecords]
           /\ sess'[s].st = v
           /\ \A x \in Sessions : sess'[x].cwd = sess[x].cwd /\ sess'[x].origin = sess[x].origin
           /\ \A x \in Sessions \ {s} : sess'[x] = sess[x]
<1>1. sess[s] \in SessRecords
  OBVIOUS
<1>2. [sess[s] EXCEPT !.st = v] \in SessRecords
  BY <1>1 DEF SessRecords
<1>3. sess'[s].cwd = sess[s].cwd /\ sess'[s].origin = sess[s].origin /\ sess'[s].st = v
  BY <1>1 DEF SessRecords
<1> QED
  BY <1>2, <1>3

\* An operation that is over, whatever it was.
LEMMA IdleOK == ASSUME op' = Idle
                PROVE  OpOK' /\ op' \in OpRecords
BY DEF Idle, OpOK, OpRecords

-----------------------------------------------------------------------------
(* Records: the database, the attachments and the operation in progress.   *)

LEMMA InitRecords == Init => Records
<1> SUFFICES ASSUME Init PROVE Records
  OBVIOUS
<1>1. Typed
  BY DEF Init, Typed, RowRecords, SessRecords, OpRecords, NoRow, Unborn, Idle
<1>2. \A w \in Checkouts : RowOK(w) /\ MemberOK(w)
  BY DEF Init, RowOK, MemberOK, NoRow, Active
<1>3. \A s \in Sessions : SessOK(s)
  BY DEF Init, SessOK, Unborn, Listed
<1>4. Distinct
  BY DEF Init, Distinct, Active, NoRow, Unborn
<1>5. OpOK
  BY DEF Init, OpOK, Idle
<1> QED
  BY <1>1, <1>2, <1>3, <1>4, <1>5 DEF Records

LEMMA InsertRecords ==
    ASSUME Records, NEW s \in Sessions, NEW w \in Checkouts, NEW p \in Paths,
           insert_session_with_plan(s, w, p), UNCHANGED births
    PROVE  Records'
<1> USE DEF insert_session_with_plan, fs, history
<1>1. Typed'
  <2>1. [NoRow EXCEPT !.st = "planned", !.root = root, !.name = p] \in RowRecords
    BY DEF Records, Typed, RowRecords, NoRow
  <2>2. [st |-> "launching", cwd |-> p, origin |-> w] \in SessRecords
    BY Apart DEF SessRecords
  <2>3. [Idle EXCEPT !.kind = "create", !.at = "mkdir", !.s = s, !.w = w] \in OpRecords
    BY DEF OpRecords, Idle
  <2> QED
    BY <2>1, <2>2, <2>3 DEF Records, Typed
<1>2. ASSUME NEW v \in Checkouts PROVE RowOK(v)' /\ MemberOK(v)'
  <2>1. CASE v = w
    BY <2>1 DEF Records, Typed, RowOK, MemberOK, NoRow, Active, Listed, RowRecords, SessRecords
  <2>2. CASE v # w
    <3>0. rows'[v] = rows[v] /\ members'[v] = members[v]
      BY <2>2 DEF Records, Typed
    <3>a. RowOK(v) /\ MemberOK(v) /\ sess[s].st = "new"
      BY DEF Records
    <3>1. RowOK(v)' /\ s \notin members[v]
      BY <3>0, <3>a DEF RowOK, MemberOK, Listed, NoRow
    <3>2. Active(v) => rows[v].name # p
      BY DEF Unclaimed
    <3>3. \A x \in Sessions \ {s} : sess'[x] = sess[x]
      BY DEF Records, Typed
    <3>4. sess'[s].cwd = p
      BY DEF Records, Typed
    <3> QED
      BY <2>2, <3>0, <3>1, <3>2, <3>3, <3>4 DEF Records, MemberOK, Listed, Active
  <2> QED
    BY <2>1, <2>2
<1>3. ASSUME NEW x \in Sessions PROVE SessOK(x)'
  <2>1. members'[w] = {s} /\ members[w] = {} /\ \A v \in Checkouts \ {w} : members'[v] = members[v]
    BY DEF Records, Typed, MemberOK, Active
  <2>2. x # s => sess'[x] = sess[x] /\ att'[x] = att[x] /\ (sess[x].st = "launching" => sess[x].origin # w)
    BY DEF Records, Typed
  <2>3. sess'[s].origin = w /\ att'[s] = "home" /\ sess[s].st = "new" /\ op' .kind = "create"
    BY DEF Records, Typed, Idle
  <2>4. SessOK(x) /\ op = Idle
    BY DEF Records
  <2> QED
    BY <2>1, <2>2, <2>3, <2>4 DEF SessOK, Listed, Idle
<1>4. Distinct'
  <2>1. \A v \in Checkouts \ {w} : rows'[v] = rows[v] /\ (Active(v) => rows[v].name # p)
    BY DEF Records, Typed, Unclaimed
  <2>2. rows'[w].name = p
    BY DEF Records, Typed, NoRow
  <2>3. \A x \in Sessions \ {s} : sess'[x] = sess[x] /\ sess[x].origin # w
    BY DEF Records, Typed
  <2>4. sess'[s].origin = w
    BY DEF Records, Typed
  <2> QED
    BY <2>1, <2>2, <2>3, <2>4 DEF Records, Distinct, Active
<1>5. OpOK'
  BY DEF Records, Typed, OpOK, CreateOK, NoRow, Idle
<1> QED
  BY <1>1, <1>2, <1>3, <1>4, <1>5 DEF Records

\* A refused create, or one that cannot be retried, stays as an error.
LEMMA RefusalRecords ==
    ASSUME Records, NEW s \in Sessions, sess[s].st = "launching", op.kind \in {"idle", "create"},
           retain_create_refusal(s),
           UNCHANGED <<runs, starting, told, lost, asked, births>>,
           objs' \in Seq(ObjRecords) /\ tree' \in [Roots \X Names -> 0..Len(objs')] /\ root' \in Roots
    PROVE  Records'
<1>1. /\ sess' = [sess EXCEPT ![s].st = "error"] /\ op' = Idle
      /\ UNCHANGED <<rows, members, att>>
  BY DEF retain_create_refusal
<1>2. Typed /\ sess \in [Sessions -> SessRecords]
  BY DEF Records, Typed
<1>3. sess' \in [Sessions -> SessRecords]
  BY <1>1, <1>2, Outcomes
<1>4. Typed'
  BY <1>1, <1>2, <1>3, IdleOK DEF Typed
<1>5. /\ \A x \in Sessions : sess'[x].cwd = sess[x].cwd /\ sess'[x].origin = sess[x].origin
      /\ \A x \in Sessions : Listed(x)' <=> Listed(x)
      /\ \A x \in Sessions : sess'[x].st = "error" \/ sess'[x].st = sess[x].st
  BY <1>1, <1>2, Outcomes DEF Listed
<1>6. ASSUME NEW w \in Checkouts PROVE RowOK(w)' /\ MemberOK(w)'
  BY <1>1, <1>2, <1>5 DEF Records, Typed, RowOK, MemberOK, Active
<1>7. ASSUME NEW x \in Sessions PROVE SessOK(x)'
  BY <1>1, <1>5 DEF Records, SessOK, Idle
<1>8. Distinct'
  BY <1>1, <1>5 DEF Records, Distinct, Active
<1> QED
  BY <1>1, <1>4, <1>6, <1>7, <1>8, IdleOK DEF Records

LEMMA MkdirRecords ==
    ASSUME Records, mkdir, UNCHANGED births
    PROVE  Records'
<1>0. op.kind = "create" /\ op.at = "mkdir" /\ CreateOK
  BY DEF mkdir, Records, OpOK
<1>t. Typed /\ op \in OpRecords /\ sess \in [Sessions -> SessRecords] /\ op.s \in Sessions
  BY <1>0 DEF Records, Typed, CreateOK
<1>u. UNCHANGED <<runs, starting, told, lost, strayed, asked, births>>
  BY DEF mkdir, history
<1>a. objs \in Seq(ObjRecords) /\ root \in Roots /\ rows[op.w].name \in Paths
  BY <1>0 DEF Records, Typed, CreateOK, RowOK
<1>b. ASSUME Made(<<root, rows[op.w].name>>, Len(objs) + 1, op.w)
      PROVE  /\ objs' \in Seq(ObjRecords) /\ tree' \in [Roots \X Names -> 0..Len(objs')] /\ root' = root
             /\ Len(objs') = Len(objs) + 1
  <2>1. [ino |-> Len(objs) + 1, by |-> op.w, birth |-> IF births THEN Len(objs) + 1 ELSE 0] \in ObjRecords
    BY <1>0, <1>a DEF ObjRecords, CreateOK
  <2>2. objs' \in Seq(ObjRecords) /\ Len(objs') = Len(objs) + 1
    BY <1>a, <1>b, <2>1 DEF Made
  <2>3. tree \in [Roots \X Names -> 0..Len(objs)]
    BY <1>t DEF Typed
  <2>4. tree' = [tree EXCEPT ![<<root, rows[op.w].name>>] = Len(objs) + 1] /\ root' = root
    BY <1>b DEF Made
  <2>5. (\A k \in 0..Len(objs) : k \in 0..Len(objs')) /\ Len(objs) + 1 \in 0..Len(objs')
    BY <1>a, <2>2
  <2> QED
    BY <2>2, <2>3, <2>4, <2>5
<1>1. CASE ~verified_root(op.w) \/ At(rows[op.w].name) # 0
  <2>0. rollback_pre_mkdir_create /\ UNCHANGED fs
    BY <1>1 DEF mkdir
  <2>9. /\ rows' = [rows EXCEPT ![op.w] = NoRow] /\ members' = [members EXCEPT ![op.w] = {}]
        /\ sess' = [sess EXCEPT ![op.s].st = "gone"] /\ att' = [att EXCEPT ![op.s] = "none"]
        /\ op' = Idle /\ UNCHANGED <<runs, starting, root, tree, objs, told, lost, strayed, asked>>
    BY <1>u, <2>0 DEF rollback_pre_mkdir_create, fs
  <2>1. Typed'
    <3>1. op' \in OpRecords
      BY <2>9, IdleOK
    <3>2. rows' \in [Checkouts -> RowRecords]
      BY <1>t, <2>9 DEF Typed, RowRecords, NoRow
    <3>3. sess' \in [Sessions -> SessRecords]
      BY <1>t, <2>9, Outcomes
    <3> QED
      BY <1>0, <1>t, <1>u, <2>9, <3>1, <3>2, <3>3 DEF Typed, CreateOK
  <2>2. ASSUME NEW v \in Checkouts PROVE RowOK(v)' /\ MemberOK(v)'
    <3>1. CASE v = op.w
      BY <2>9, <3>1 DEF Records, Typed, RowOK, MemberOK, NoRow, Active
    <3>2. CASE v # op.w
      <4>1. rows'[v] = rows[v] /\ members'[v] = members[v]
        BY <2>9, <3>2 DEF Records, Typed
      <4>2. op.s \notin members[v]
        BY <1>0, <3>2 DEF Records, Distinct, MemberOK, CreateOK, Active
      <4> QED
        BY <1>0, <2>9, <4>1, <4>2 DEF Records, Typed, RowOK, MemberOK, Active, Listed, CreateOK
    <3> QED
      BY <3>1, <3>2
  <2>3. ASSUME NEW x \in Sessions PROVE SessOK(x)'
    <3>1. SessOK(x) /\ Distinct
      BY DEF Records
    <3>2. x # op.s => sess'[x] = sess[x] /\ att'[x] = att[x]
      BY <1>t, <2>9 DEF Typed
    <3>3. sess'[op.s].st = "gone"
      BY <1>t, <2>9, Outcomes
    <3>4. \A v \in Checkouts \ {op.w} : members'[v] = members[v]
      BY <1>t, <2>9 DEF Typed
    <3>5. x # op.s => sess[x].origin # op.w \/ sess[x].st # "launching"
      BY <1>0, <3>1, Apart DEF Distinct, CreateOK
    <3> QED
      BY <1>0, <1>t, <1>u, <2>9, <3>1, <3>2, <3>3, <3>4, <3>5 DEF SessOK, Listed, CreateOK, Idle
  <2>4. Distinct'
    BY <1>0, <2>9 DEF Records, Typed, Distinct, Active, NoRow, CreateOK
  <2> QED
    BY <2>1, <2>2, <2>3, <2>4, <2>9, IdleOK DEF Records
<1>2. CASE /\ Made(<<root, rows[op.w].name>>, Len(objs) + 1, op.w)
           /\ op' = [op EXCEPT !.at = "record", !.src = Len(objs) + 1]
           /\ UNCHANGED <<db, att>>
  <2> USE DEF db
  <2>o. op \in OpRecords /\ op' = [op EXCEPT !.at = "record", !.src = Len(objs) + 1] /\ Len(objs) + 1 \in Nat
    BY <1>a, <1>t, <1>2
  <2>1. Typed'
    <3>1. op' \in OpRecords
      BY <2>o DEF OpRecords
    <3> QED
      BY <1>a, <1>b, <1>t, <1>u, <1>2, <3>1 DEF Typed
  <2>3. /\ op'.kind = op.kind /\ op'.at = "record" /\ op'.s = op.s /\ op'.w = op.w
        /\ op'.notices = op.notices /\ op'.src = Len(objs) + 1
    BY <2>o DEF OpRecords
  <2>5. op'.src \in DOMAIN objs'
    <3>1. objs' \in Seq(ObjRecords) /\ Len(objs') = Len(objs) + 1
      BY <1>b, <1>2
    <3> QED
      BY <1>a, <2>3, <3>1
  <2>4. UNCHANGED <<rows, members, sess, att>>
    BY <1>2
  <2>2. OpOK'
    BY <1>0, <2>3, <2>4, <2>5 DEF OpOK, CreateOK
  <2> QED
    BY <1>0, <1>u, <1>2, <2>1, <2>2, <2>3 DEF Records, RowOK, MemberOK, SessOK, Distinct, Listed, Active
<1>3. CASE /\ Made(<<root, rows[op.w].name>>, Len(objs) + 1, op.w) \/ UNCHANGED fs
           /\ retain_create_refusal(op.s)
  <2>1. objs' \in Seq(ObjRecords) /\ tree' \in [Roots \X Names -> 0..Len(objs')] /\ root' \in Roots
    BY <1>a, <1>b, <1>t, <1>3 DEF Typed, fs
  <2> QED
    BY <1>0, <1>t, <1>u, <1>3, <2>1, RefusalRecords DEF CreateOK
<1> QED
  BY <1>1, <1>2, <1>3 DEF mkdir

LEMMA AllocateRecords ==
    ASSUME Records, allocate, UNCHANGED births
    PROVE  Records'
<1>0. op.kind = "create" /\ op.at = "record" /\ CreateOK
  BY DEF allocate, Records, OpOK
<1>t. Typed /\ op \in OpRecords /\ sess \in [Sessions -> SessRecords] /\ op.s \in Sessions /\ op.w \in Checkouts
  BY <1>0 DEF Records, Typed, CreateOK
<1>u. UNCHANGED <<runs, starting, root, tree, objs, told, lost, strayed, asked, births>>
  BY DEF allocate, history, fs
<1>1. CASE /\ rows' = [rows EXCEPT ![op.w].st = "allocated", ![op.w].root = root,
                                   ![op.w].id = Identity(op.src)]
           /\ members' = [members EXCEPT ![op.w] = @ \cup {op.s}
                                            \cup attach_retained_sessions(rows[op.w].name)]
           /\ op' = [op EXCEPT !.at = "launch"]
           /\ UNCHANGED <<sess, att>>
           /\ Identity(op.src) \in [ino : Nat, birth : Nat]
  <2>1. /\ op' \in OpRecords /\ op'.kind = op.kind /\ op'.at = "launch" /\ op'.s = op.s /\ op'.w = op.w
        /\ op'.notices = op.notices
    BY <1>t, <1>1 DEF OpRecords
  <2>2. rows[op.w] \in RowRecords /\ RowOK(op.w) /\ MemberOK(op.w) /\ rows[op.w].st = "planned"
    BY <1>0, <1>t DEF Typed, Records, CreateOK
  <2> DEFINE r == [rows[op.w] EXCEPT !.st = "allocated", !.root = root, !.id = Identity(op.src)]
  <2>3. /\ r \in RowRecords /\ r.st = "allocated" /\ r.root = root /\ r.id = Identity(op.src)
        /\ r.name = rows[op.w].name /\ r.dest = rows[op.w].dest
    <3>1. root \in Roots /\ Identity(op.src) \in [ino : Nat, birth : Nat]
      BY <1>t, <1>1 DEF Typed
    <3> QED
      BY <2>2, <3>1 DEF RowRecords
  <2>4. rows' = [rows EXCEPT ![op.w] = r]
    BY <1>1
  <2> HIDE DEF r
  <2>5. rows'[op.w] = r /\ \A v \in Checkouts \ {op.w} : rows'[v] = rows[v] /\ members'[v] = members[v]
    BY <1>t, <1>1, <2>4 DEF Typed
  <2>6. members'[op.w] = members[op.w] \cup {op.s} \cup attach_retained_sessions(rows[op.w].name)
    BY <1>t, <1>1 DEF Typed
  <2>7. Typed'
    BY <1>t, <1>u, <1>1, <2>1, <2>3, <2>4 DEF Typed, attach_retained_sessions
  <2>8. ASSUME NEW v \in Checkouts PROVE RowOK(v)' /\ MemberOK(v)'
    <3>0. RowOK(v) /\ MemberOK(v)
      BY DEF Records
    <3>1. CASE v = op.w
      <4>1. RowOK(v)'
        BY <1>t, <1>1, <2>2, <2>3, <2>5, <3>1 DEF RowOK, Typed
      <4>2. \A s \in members'[v] : Listed(s)' /\ sess'[s].cwd = rows'[v].name
        BY <1>0, <1>1, <2>2, <2>3, <2>5, <2>6, <3>1 DEF MemberOK, attach_retained_sessions, Listed, CreateOK
      <4>3. \A s \in Sessions : Listed(s)' /\ sess'[s].cwd = rows'[v].name => s \in members'[v]
        BY <1>1, <2>3, <2>5, <2>6, <3>1 DEF attach_retained_sessions, Listed
      <4> QED
        BY <2>3, <2>5, <2>6, <3>1, <4>1, <4>2, <4>3 DEF MemberOK, Active
    <3>2. CASE v # op.w
      BY <1>1, <1>u, <2>5, <3>0, <3>2 DEF RowOK, MemberOK, Active, Listed
    <3> QED
      BY <3>1, <3>2
  <2>9. Distinct'
    <3>1. \A v \in Checkouts : (Active(v)' <=> Active(v)) /\ rows'[v].name = rows[v].name
      BY <2>2, <2>3, <2>5 DEF Active
    <3> QED
      BY <1>1, <3>1 DEF Records, Distinct
  <2>10. OpOK'
    BY <1>0, <1>1, <2>1, <2>3, <2>5, <2>6 DEF OpOK, CreateOK
  <2>11. \A s \in Sessions : SessOK(s)'
    <3>1. \A v \in Checkouts : members[v] \subseteq members'[v]
      BY <2>5, <2>6
    <3> QED
      BY <1>0, <1>u, <1>1, <2>1, <3>1 DEF Records, SessOK, Listed
  <2> QED
    BY <2>7, <2>8, <2>9, <2>10, <2>11 DEF Records
<1>2. CASE retain_create_refusal(op.s)
  BY <1>0, <1>t, <1>u, <1>2, RefusalRecords DEF CreateOK, Typed
<1>3. Identity(op.src) \in [ino : Nat, birth : Nat]
  <2>1. objs[op.src] \in ObjRecords
    BY <1>0, <1>t DEF Typed, CreateOK
  <2> QED
    BY <2>1 DEF Identity, ObjRecords
<1> QED
  BY <1>1, <1>2, <1>3 DEF allocate

LEMMA LaunchRecords ==
    ASSUME Records, launch, UNCHANGED births
    PROVE  Records'
<1>0. op.kind = "create" /\ op.at = "launch" /\ CreateOK
  BY DEF launch, Records, OpOK
<1>t. Typed /\ op \in OpRecords /\ sess \in [Sessions -> SessRecords] /\ op.s \in Sessions /\ op.w \in Checkouts
  BY <1>0 DEF Records, Typed, CreateOK
<1>u. UNCHANGED <<starting, root, tree, objs, told, lost, strayed, asked, births>>
  BY DEF launch, history, fs
<1>1. CASE /\ sess' = [sess EXCEPT ![op.s].st = "live"] /\ runs' = runs \cup {op.s} /\ op' = Idle
           /\ UNCHANGED <<rows, members, att>>
  <2>1. sess' \in [Sessions -> SessRecords]
    BY <1>t, <1>1, Outcomes
  <2>2. Typed'
    BY <1>t, <1>u, <1>1, <2>1, IdleOK DEF Typed
  <2>3. /\ \A x \in Sessions : sess'[x].cwd = sess[x].cwd /\ sess'[x].origin = sess[x].origin
        /\ \A x \in Sessions \ {op.s} : sess'[x] = sess[x]
        /\ sess'[op.s].st = "live"
    BY <1>t, <1>1, Outcomes
  <2>4. \A x \in Sessions : Listed(x)' <=> Listed(x)
    BY <1>0, <2>3 DEF Listed, CreateOK
  <2>5. \A w \in Checkouts : rows[w].st = "pending" => op.s \notin members[w]
    BY <1>0, <1>t DEF Records, MemberOK, Distinct, CreateOK, Active
  <2>6. ASSUME NEW w \in Checkouts PROVE RowOK(w)' /\ MemberOK(w)'
    BY <1>t, <1>u, <1>1, <2>3, <2>4, <2>5 DEF Records, Typed, RowOK, MemberOK, Active
  <2>7. ASSUME NEW x \in Sessions PROVE SessOK(x)'
    BY <1>0, <1>u, <1>1, <2>3, <2>4 DEF Records, SessOK, Idle
  <2>8. Distinct'
    BY <1>1, <2>3 DEF Records, Distinct, Active
  <2> QED
    BY <1>1, <2>2, <2>6, <2>7, <2>8, IdleOK DEF Records
<1>2. CASE retain_create_refusal(op.s) /\ UNCHANGED runs
  BY <1>0, <1>t, <1>u, <1>2, RefusalRecords DEF CreateOK, Typed
<1> QED
  BY <1>1, <1>2 DEF launch

LEMMA RetryRecords ==
    ASSUME Records, NEW s \in Sessions, retry_create(s), UNCHANGED births
    PROVE  Records'
<1>t. Typed /\ op = Idle /\ sess[s].st = "launching" /\ sess[s] \in SessRecords
  BY DEF Records, Typed, retry_create
<1>u. UNCHANGED <<runs, starting, root, tree, objs, told, lost, strayed, asked, births>>
  BY DEF retry_create, history, fs
<1> DEFINE w == sess[s].origin
<1>1. ASSUME NEW at \in {"mkdir", "launch"}, rows[w].st = IF at = "mkdir" THEN "planned" ELSE "allocated",
             op' = [Idle EXCEPT !.kind = "create", !.at = at, !.s = s, !.w = w],
             UNCHANGED <<db, att>>
      PROVE  Records'
  <2>1. /\ op'.kind = "create" /\ op'.at = at /\ op'.s = s /\ op'.w = w /\ op'.notices = {}
        /\ op'.src = 0 /\ op'.tries = 0 /\ op'.todo = {} /\ op'.released = {}
    BY <1>1 DEF Idle
  <2>2. w \in Checkouts /\ s \in members[w]
    BY <1>t DEF Records, SessOK
  <2>3. op' \in OpRecords
    BY <1>1, <2>2 DEF OpRecords, Idle
  <2>4. UNCHANGED <<rows, members, sess, att>>
    BY <1>1 DEF db
  <2>6. OpOK'
    BY <1>t, <1>1, <2>1, <2>2, <2>4 DEF OpOK, CreateOK
  <2>7. Typed'
    BY <1>t, <1>u, <2>3, <2>4 DEF Typed
  <2>8. ASSUME NEW x \in Sessions PROVE SessOK(x)'
    BY <1>t, <1>u, <2>1, <2>4 DEF Records, SessOK, Idle, Listed
  <2> QED
    BY <1>u, <2>4, <2>6, <2>7, <2>8 DEF Records, RowOK, MemberOK, Distinct, Listed, Active
<1>2. CASE retain_create_refusal(s)
  <2>1. objs' \in Seq(ObjRecords) /\ tree' \in [Roots \X Names -> 0..Len(objs')] /\ root' \in Roots
    BY <1>t, <1>u DEF Typed
  <2>2. sess[s].st = "launching" /\ op.kind \in {"idle", "create"}
    BY <1>t DEF Idle
  <2> QED
    BY <1>u, <1>2, <2>1, <2>2, RefusalRecords
<1> QED
  BY <1>1, <1>2 DEF retry_create

LEMMA ExistingRecords ==
    ASSUME Records, NEW s \in Sessions, NEW n \in Names, create_existing(s, n), UNCHANGED births
    PROVE  Records'
<1>t. Typed /\ op = Idle /\ sess[s].st = "new"
  BY DEF Records, create_existing
<1>u. /\ UNCHANGED <<rows, starting, root, tree, objs, op, told, lost, strayed, asked, births>>
      /\ runs' = runs \cup {s} /\ att' = [att EXCEPT ![s] = "home"]
      /\ sess' = [sess EXCEPT ![s] = [st |-> "live", cwd |-> n, origin |-> None]]
  BY DEF create_existing, history, fs
<1>1. [st |-> "live", cwd |-> n, origin |-> None] \in SessRecords
  BY DEF SessRecords
<1>2. /\ \A x \in Sessions \ {s} : sess'[x] = sess[x] /\ att'[x] = att[x]
      /\ sess'[s].st = "live" /\ sess'[s].cwd = n /\ sess'[s].origin = None /\ att'[s] = "home"
  BY <1>t, <1>u DEF Typed
<1>3. /\ members' \in [Checkouts -> SUBSET Sessions]
      /\ \A w \in Checkouts : members'[w] = members[w] \cup
             IF rows[w].st = "allocated" /\ rows[w].name = n THEN {s} ELSE {}
  BY <1>t DEF create_existing, attach_existing_ancestors, Typed
<1>4. Typed'
  BY <1>t, <1>u, <1>1, <1>3 DEF Typed
<1>5. ASSUME NEW w \in Checkouts PROVE RowOK(w)' /\ MemberOK(w)'
  <2>1. RowOK(w) /\ MemberOK(w)
    BY DEF Records
  <2>2. rows[w].st = "pending" => rows[w].name # n
    BY DEF create_existing, refuse_pending_archive
  <2>3. s \notin members[w]
    BY <1>t, <2>1 DEF MemberOK, Listed
  <2>4. \A x \in members[w] : x \in Sessions /\ x # s
    BY <1>t, <2>3 DEF Typed
  <2>5. RowOK(w)'
    BY <1>u, <2>1 DEF RowOK
  <2>6. CASE rows[w].st = "allocated" /\ rows[w].name = n
    BY <1>u, <1>2, <1>3, <2>1, <2>4, <2>5, <2>6 DEF MemberOK, Active, Listed
  <2>7. CASE ~(rows[w].st = "allocated" /\ rows[w].name = n)
    <3>1. members'[w] = members[w]
      BY <1>3, <2>7
    <3> QED
      BY <1>u, <1>2, <2>1, <2>2, <2>4, <2>5, <2>7, <3>1 DEF MemberOK, Active, Listed
  <2> QED
    BY <2>6, <2>7
<1>6. ASSUME NEW x \in Sessions PROVE SessOK(x)'
  <2>1. SessOK(x) /\ \A w \in Checkouts : members[w] \subseteq members'[w]
    BY <1>3 DEF Records
  <2> QED
    BY <1>t, <1>u, <1>2, <2>1 DEF SessOK, Listed, Idle
<1>7. Distinct'
  BY <1>u, <1>2 DEF Records, Distinct, Active
<1>8. OpOK'
  BY <1>t, <1>u DEF OpOK, Idle
<1> QED
  BY <1>4, <1>5, <1>6, <1>7, <1>8 DEF Records

LEMMA RestartRecords ==
    ASSUME Records, NEW s \in Sessions, restart_check(s) \/ restart_launch(s), UNCHANGED births
    PROVE  Records'
<1>1. /\ UNCHANGED <<rows, members, sess, att, root, tree, objs, op, told, lost, strayed, asked, births>>
      /\ runs' \subseteq runs \cup {s} /\ starting' \subseteq starting \cup {s}
      /\ runs' \cup starting' = runs \cup starting \cup {s}
      /\ s \notin starting => op = Idle /\ starting' = starting \cup {s}
      /\ s \in starting => runs' = runs \cup {s}
  BY DEF restart_check, restart_launch, db, fs, history
<1>2. Typed'
  BY <1>1 DEF Records, Typed
<1>3. sess[s].st \in {"live", "error"} /\ \A w \in Checkouts : s \in members[w] => rows[w].st # "pending"
  BY DEF restart_check, restart_launch, Records, SessOK, MemberOK
<1>4. ASSUME NEW w \in Checkouts PROVE RowOK(w)' /\ MemberOK(w)'
  BY <1>1, <1>3 DEF Records, RowOK, MemberOK, Active, Listed
<1>5. ASSUME NEW x \in Sessions PROVE SessOK(x)'
  BY <1>1, <1>3 DEF Records, SessOK, Listed
<1>6. Distinct'
  BY <1>1 DEF Records, Distinct, Active
<1>7. OpOK'
  <2>1. CASE op = Idle
    BY <1>1, <2>1 DEF OpOK, Idle
  <2>2. CASE s \in starting
    <3>1. OpOK /\ (op.kind = "delete" /\ op.at # "reply" => op.s # s)
      BY <2>2 DEF Records, OpOK, DeleteOK
    <3> QED
      BY <1>1, <2>2, <3>1 DEF OpOK, CreateOK, DeleteOK, StartupOK, TrashOK, MovingOK, Listed
  <2> QED
    BY <1>1, <2>1, <2>2
<1> QED
  BY <1>2, <1>4, <1>5, <1>6, <1>7 DEF Records

LEMMA DeleteStartRecords ==
    ASSUME Records, NEW s \in Sessions, delete_start(s), UNCHANGED births
    PROVE  Records'
<1>1. /\ UNCHANGED <<rows, members, sess, att, runs, starting, root, tree, objs, told, lost, strayed, births>>
      /\ asked' = asked \cup {s} /\ op = Idle /\ Listed(s) /\ s \notin starting
      /\ op' = [Idle EXCEPT !.kind = "delete", !.at = "sweep", !.s = s]
  BY DEF delete_start, db, fs
<1>2. /\ op'.kind = "delete" /\ op'.at = "sweep" /\ op'.s = s /\ op'.notices = {}
      /\ op'.todo = {} /\ op'.released = {} /\ op' \in OpRecords
  BY <1>1 DEF Idle, OpRecords
<1>3. Typed'
  BY <1>1, <1>2 DEF Records, Typed
<1>4. ASSUME NEW w \in Checkouts PROVE RowOK(w)' /\ MemberOK(w)'
  BY <1>1 DEF Records, RowOK, MemberOK, Active, Listed
<1>5. ASSUME NEW x \in Sessions PROVE SessOK(x)'
  BY <1>1, <1>2 DEF Records, SessOK, Listed, Idle
<1>6. Distinct'
  BY <1>1 DEF Records, Distinct, Active
<1>7. OpOK'
  BY <1>1, <1>2 DEF OpOK, DeleteOK, Moving, Listed
<1> QED
  BY <1>3, <1>4, <1>5, <1>6, <1>7 DEF Records

LEMMA SweepRecords ==
    ASSUME Records, delete_sweep \/ quarantine_session_dir, UNCHANGED births
    PROVE  Records'
<1>0. op.kind = "delete" /\ op.at \in {"sweep", "park"} /\ DeleteOK /\ op \in OpRecords
  BY DEF delete_sweep, quarantine_session_dir, Records, OpOK, Typed
<1>u. UNCHANGED <<rows, members, sess, starting, root, tree, objs, told, lost, strayed, asked, births>>
  BY DEF delete_sweep, quarantine_session_dir, db, fs, history
<1>1. /\ runs' \subseteq runs
      /\ \/ op' = Idle /\ att' = att
         \/ op.at = "sweep" /\ op' = [op EXCEPT !.at = "park"] /\ op.s \notin runs' /\ att' = att
         \/ /\ op.at = "park" /\ runs' = runs
            /\ op' = [op EXCEPT !.at = "next", !.todo = {w \in Checkouts : op.s \in members[w]}]
            /\ att' = [att EXCEPT ![op.s] = IF @ = "home" THEN "parked" ELSE @]
  BY <1>0 DEF delete_sweep, quarantine_session_dir
<1>2. /\ op' \in OpRecords
      /\ \/ op' = Idle
         \/ /\ op'.kind = "delete" /\ op'.at = "park" /\ op'.s = op.s
            /\ op'.notices = op.notices /\ op'.todo = op.todo /\ op'.released = op.released
            /\ op.s \notin runs'
         \/ /\ op'.kind = "delete" /\ op'.at = "next" /\ op'.s = op.s
            /\ op'.notices = op.notices /\ op'.released = op.released
            /\ op'.todo = {w \in Checkouts : op.s \in members[w]} /\ op.s \notin runs'
  <2>1. CASE op' = Idle
    BY <2>1, IdleOK
  <2>2. CASE op.at = "sweep" /\ op' = [op EXCEPT !.at = "park"] /\ op.s \notin runs'
    BY <1>0, <2>2 DEF OpRecords
  <2>3. CASE /\ op.at = "park" /\ runs' = runs
             /\ op' = [op EXCEPT !.at = "next", !.todo = {w \in Checkouts : op.s \in members[w]}]
    <3>1. op.s \notin runs'
      BY <1>0, <2>3 DEF DeleteOK
    <3>2. {w \in Checkouts : op.s \in members[w]} \in SUBSET Checkouts
      OBVIOUS
    <3> QED
      BY <1>0, <2>3, <3>1, <3>2 DEF OpRecords
  <2> QED
    BY <1>1, <2>1, <2>2, <2>3
<1>3. /\ att' \in [Sessions -> {"none", "home", "parked"}]
      /\ \A x \in Sessions : \/ att'[x] = att[x]
                            \/ /\ att'[x] = "parked" /\ att[x] = "home"
                               /\ x = op'.s /\ op'.kind = "delete" /\ op'.at = "next"
  <2>1. att \in [Sessions -> {"none", "home", "parked"}] /\ op.s \in Sessions
    BY <1>0 DEF Records, Typed, DeleteOK
  <2>2. CASE att' = att
    BY <2>1, <2>2
  <2>3. CASE /\ op' = [op EXCEPT !.at = "next", !.todo = {w \in Checkouts : op.s \in members[w]}]
             /\ att' = [att EXCEPT ![op.s] = IF @ = "home" THEN "parked" ELSE @]
    <3>1. op'.kind = "delete" /\ op'.at = "next" /\ op'.s = op.s
      BY <1>0, <2>3 DEF OpRecords
    <3> QED
      BY <2>1, <2>3, <3>1
  <2> QED
    BY <1>1, <2>2, <2>3
<1>4. Typed'
  BY <1>u, <1>1, <1>2, <1>3 DEF Records, Typed
<1>5. ASSUME NEW w \in Checkouts PROVE RowOK(w)' /\ MemberOK(w)'
  BY <1>u, <1>1 DEF Records, RowOK, MemberOK, Active, Listed
<1>6. ASSUME NEW x \in Sessions PROVE SessOK(x)'
  <2>1. SessOK(x) /\ (Listed(x) => att[x] # "parked")
    BY <1>0 DEF Records, SessOK
  <2> QED
    BY <1>u, <1>1, <1>2, <1>3, <2>1 DEF SessOK, Listed, Idle
<1>7. Distinct'
  BY <1>u DEF Records, Distinct, Active
<1>8. OpOK'
  BY <1>0, <1>u, <1>2, IdleOK DEF OpOK, DeleteOK, Moving, Listed
<1> QED
  BY <1>4, <1>5, <1>6, <1>7, <1>8 DEF Records

\* What the end of one checkout's archive does to the operation.
Dropped(w) ==
    /\ op' \in OpRecords /\ op'.kind = op.kind /\ op'.s = op.s /\ op'.at = "next"
    /\ op'.todo = op.todo \ {w}
Quietly == op'.released = op.released /\ op'.notices = op.notices
Saying(w, N) == op'.released = op.released \cup {w} /\ op'.notices = op.notices \cup ({w} \X N)
GivenUp(w, N) ==
    /\ Dropped(w)
    /\ op.kind = "delete" => Saying(w, N)
    /\ op.kind # "delete" => Quietly
\* The operation goes on with w.
Turned(w, at) ==
    /\ op' \in OpRecords /\ op'.kind = op.kind /\ op'.s = op.s /\ op'.w = w /\ op'.at = at
    /\ op'.todo = op.todo /\ Quietly

LEMMA Given_up ==
    ASSUME op \in OpRecords, NEW w \in Checkouts, NEW N \in SUBSET Names, GiveUp(w, N)
    PROVE  GivenUp(w, N)
<1> USE DEF GivenUp, Dropped, Saying, Quietly
<1>1. CASE op.kind = "delete"
  <2>1. op' = [op EXCEPT !.at = "next", !.todo = @ \ {w}, !.w = None, !.src = 0,
                         !.released = @ \cup {w}, !.notices = @ \cup ({w} \X N)]
    BY <1>1 DEF GiveUp, Given
  <2>2. op.released \cup {w} \in SUBSET Checkouts /\ op.notices \cup ({w} \X N) \in SUBSET (Checkouts \X Names)
    BY DEF OpRecords
  <2> QED
    BY <1>1, <2>1, <2>2 DEF OpRecords
<1>2. CASE op.kind # "delete"
  BY <1>2 DEF GiveUp, OpRecords
<1> QED
  BY <1>1, <1>2

LEMMA Is_over ==
    ASSUME op \in OpRecords, op.w \in Checkouts, Over
    PROVE  Dropped(op.w) /\ Quietly
BY DEF Over, OpRecords, Dropped, Quietly

LEMMA Begun ==
    ASSUME op \in OpRecords, NEW w \in Checkouts, NEW at \in {"reconcile", "journal"}, Begin(w, at),
           At(rows[w].name) \in Nat
    PROVE  Turned(w, at) /\ op'.src = At(rows[w].name)
BY DEF Begin, OpRecords, Moving, Turned, Quietly

\* The names a notice gives are names.
LEMMA Named ==
    ASSUME Records, NEW w \in Checkouts, rows[w].st # "none"
    PROVE  /\ Where(w) \in SUBSET Names /\ {rows[w].name} \in SUBSET Names /\ rows[w].name \in Names
           /\ At(rows[w].name) \in Nat
           /\ rows[w].dest # None => rows[w].dest \in Names /\ At(rows[w].dest) \in Nat
<1>1. rows[w] \in RowRecords /\ RowOK(w) /\ root \in Roots /\ tree \in [Roots \X Names -> 0..Len(objs)]
      /\ Len(objs) \in Nat
  BY DEF Records, Typed
<1>2. rows[w].name \in Names /\ (rows[w].dest # None => rows[w].dest \in Names)
  BY <1>1, Apart DEF RowRecords, RowOK
<1> QED
  BY <1>1, <1>2 DEF Where, At

\* A session is a member of one active row at most.
LEMMA OneMembership ==
    ASSUME Records, NEW w \in Checkouts, NEW v \in Checkouts, NEW s, s \in members[w], s \in members[v]
    PROVE  w = v
BY DEF Records, Distinct, MemberOK, Active

LEMMA LastMember ==
    ASSUME Records, NEW w \in Checkouts, NEW s \in members[w], ~OthersRemain(w)
    PROVE  members[w] = {s}
<1>1. members[w] \subseteq Sessions /\ IsFiniteSet(members[w])
  BY CopiesConstants, FS_Subset DEF Records, Typed
<1>2. ASSUME NEW x \in members[w], x # s PROVE FALSE
  <2>1. IsFiniteSet({s, x}) /\ Cardinality({s, x}) = 2
    <3>1. IsFiniteSet({s}) /\ Cardinality({s}) = 1
      BY FS_Singleton
    <3>2. {s, x} = {s} \cup {x} /\ x \notin {s}
      BY <1>2
    <3>3. IsFiniteSet({s} \cup {x}) /\ Cardinality({s} \cup {x}) = Cardinality({s}) + 1
      BY <3>1, <3>2, FS_AddElement
    <3> QED
      BY <3>1, <3>2, <3>3
  <2>2. Cardinality({s, x}) <= Cardinality(members[w])
    BY <1>1, FS_Subset
  <2>3. Cardinality(members[w]) \in Nat
    BY <1>1, FS_CardinalityType
  <2> QED
    BY <2>1, <2>2, <2>3 DEF OthersRemain
<1> QED
  BY <1>2

\* An operation that goes on to the next checkout.
LEMMA GoesOn ==
    ASSUME Records, op.kind \in {"delete", "startup"}, op.at \in Moving \cup {"next"},
           NEW w, Dropped(w),
           op.kind # "delete" => op'.notices = op.notices,
           op'.released \subseteq op.released \cup {w},
           op.kind = "startup" => \A v \in op.todo \ {w} : rows'[v].st = "pending",
           UNCHANGED <<members, sess, runs, starting, asked>>
    PROVE  OpOK'
<1>1. CASE op.kind = "delete"
  <2>1. DeleteOK
    BY <1>1 DEF Records, OpOK
  <2>2. DeleteOK'
    BY <1>1, <2>1 DEF DeleteOK, Moving, Listed, Dropped
  <2> QED
    BY <1>1, <2>2 DEF OpOK, Dropped
<1>2. CASE op.kind = "startup"
  <2>1. StartupOK
    BY <1>2 DEF Records, OpOK
  <2>2. StartupOK'
    BY <1>2, <2>1 DEF StartupOK, Dropped
  <2> QED
    BY <1>2, <2>2 DEF OpOK, Dropped
<1> QED
  BY <1>1, <1>2

\* The decisions of a Delete for checkout w: it is not archived, or given up,
\* or its archive begins.
Skipped(w) ==
    /\ Dropped(w) /\ op'.released = op.released
    /\ \/ members[w] # {op.s} /\ rows[w].st # "planned" /\ op'.notices = op.notices
       \/ /\ rows[w].st = "planned"
          /\ op'.notices = op.notices \cup IF At(rows[w].name) = 0 THEN {} ELSE {<<w, rows[w].name>>}
       \/ /\ rows[w].st = "allocated" /\ verified_root(w) /\ At(rows[w].name) = 0
          /\ op'.notices = op.notices
Begins(w) ==
    /\ members[w] = {op.s} /\ op'.src = At(rows[w].name)
    /\ \/ rows[w].st = "pending" /\ Turned(w, "reconcile")
       \/ /\ rows[w].st = "allocated" /\ Turned(w, "journal")
          /\ verified_root(w) /\ Matches(w)
          /\ ~creation_time_unconfirmed(At(rows[w].name), rows[w].id)
Decision(w) ==
    \/ Skipped(w)
    \/ GivenUp(w, Where(w))
    \/ rows[w].st = "allocated" /\ GivenUp(w, {rows[w].name})
    \/ Begins(w)

LEMMA Decided ==
    ASSUME Records, decide
    PROVE  \E w \in op.todo : w \in Checkouts /\ rows[w].st \notin {"none", "retired"} /\ Decision(w)
<1>0. op.kind = "delete" /\ DeleteOK /\ op \in OpRecords /\ op.todo \subseteq Checkouts
  BY DEF decide, Records, OpOK, Typed, OpRecords
<1>1. PICK w \in op.todo :
         IF rows[w].st = "planned"
         THEN op' = [op EXCEPT !.todo = @ \ {w},
                               !.notices = @ \cup IF At(rows[w].name) = 0 THEN {}
                                                  ELSE {<<w, rows[w].name>>}]
         ELSE IF ~Active(w) \/ OthersRemain(w)
              THEN op' = [op EXCEPT !.todo = @ \ {w}]
              ELSE archive_last_reference(w)
  BY DEF decide
<1>2. w \in Checkouts /\ op.s \in members[w] /\ RowOK(w) /\ rows[w] \in RowRecords
  BY <1>0 DEF DeleteOK, Records, Typed
<1>3. rows[w].st \in {"planned", "allocated", "pending"}
  BY <1>2 DEF Records, MemberOK, Active, RowRecords
<1>n. /\ Where(w) \in SUBSET Names /\ {rows[w].name} \in SUBSET Names /\ At(rows[w].name) \in Nat
      /\ rows[w].name \in Names
  BY <1>2, <1>3, Named
<1>a. op.at = "next"
  BY DEF decide
<1>4. CASE rows[w].st = "planned"
  <2>1. op' = [op EXCEPT !.todo = @ \ {w},
                         !.notices = @ \cup IF At(rows[w].name) = 0 THEN {} ELSE {<<w, rows[w].name>>}]
    BY <1>1, <1>4
  <2>2. op.notices \cup (IF At(rows[w].name) = 0 THEN {} ELSE {<<w, rows[w].name>>}) \in SUBSET (Checkouts \X Names)
    BY <1>0, <1>2, <1>n DEF OpRecords
  <2> QED
    BY <1>0, <1>2, <1>a, <1>4, <2>1, <2>2 DEF Decision, Skipped, Dropped, OpRecords
<1>5. CASE rows[w].st # "planned" /\ (~Active(w) \/ OthersRemain(w))
  <2>1. op' = [op EXCEPT !.todo = @ \ {w}]
    BY <1>1, <1>5
  <2>2. Dropped(w) /\ Quietly
    BY <1>0, <1>a, <2>1 DEF Dropped, Quietly, OpRecords
  <2>3. members[w] # {op.s}
    <3>1. Cardinality({op.s}) = 1
      BY FS_Singleton
    <3> QED
      BY <1>3, <1>5, <3>1 DEF Active, OthersRemain
  <2> QED
    BY <1>2, <1>3, <1>5, <2>2, <2>3 DEF Decision, Skipped, Quietly
<1>6. CASE rows[w].st # "planned" /\ Active(w) /\ ~OthersRemain(w)
  <2>1. archive_last_reference(w) /\ members[w] = {op.s}
    BY <1>1, <1>2, <1>6, LastMember
  <2>2. \/ GiveUp(w, Where(w))
        \/ rows[w].st = "pending" /\ Begin(w, "reconcile")
        \/ rows[w].st = "allocated" /\ GiveUp(w, {rows[w].name})
        \/ rows[w].st = "allocated" /\ verified_root(w) /\ At(rows[w].name) = 0 /\ op' = [op EXCEPT !.todo = @ \ {w}]
        \/ /\ rows[w].st = "allocated" /\ verified_root(w) /\ Matches(w)
           /\ ~creation_time_unconfirmed(At(rows[w].name), rows[w].id) /\ Begin(w, "journal")
    BY <1>3, <1>6, <2>1 DEF archive_last_reference
  <2>3. CASE rows[w].st = "allocated" /\ verified_root(w) /\ At(rows[w].name) = 0 /\ op' = [op EXCEPT !.todo = @ \ {w}]
    BY <1>0, <1>2, <1>3, <1>a, <2>3 DEF Decision, Skipped, Dropped, OpRecords
  <2>4. CASE rows[w].st = "pending" /\ Begin(w, "reconcile")
    BY <1>0, <1>2, <1>3, <1>n, <2>1, <2>4, Begun DEF Decision, Begins
  <2>5. CASE /\ rows[w].st = "allocated" /\ verified_root(w) /\ Matches(w)
             /\ ~creation_time_unconfirmed(At(rows[w].name), rows[w].id) /\ Begin(w, "journal")
    BY <1>0, <1>2, <1>3, <1>n, <2>1, <2>5, Begun DEF Decision, Begins
  <2>6. CASE GiveUp(w, Where(w)) \/ (rows[w].st = "allocated" /\ GiveUp(w, {rows[w].name}))
    BY <1>0, <1>2, <1>3, <1>n, <2>6, Given_up DEF Decision
  <2> QED
    BY <2>2, <2>3, <2>4, <2>5, <2>6
<1> QED
  BY <1>1, <1>4, <1>5, <1>6

LEMMA SessionsKept ==
    ASSUME Records, UNCHANGED <<sess, att, members, runs, starting>>,
           op'.kind = op.kind, op'.s = op.s, op'.at \notin {"sweep", "park"}
    PROVE  \A x \in Sessions : SessOK(x)'
BY DEF Records, SessOK, Listed

LEMMA RowsKept ==
    ASSUME Records, UNCHANGED <<rows, members, sess, runs, starting, asked>>
    PROVE  Distinct' /\ \A w \in Checkouts : RowOK(w)' /\ MemberOK(w)'
BY DEF Records, RowOK, MemberOK, Distinct, Listed, Active

\* The row whose archive goes on.
LEMMA RowMoves ==
    ASSUME Records, NEW w \in Checkouts, rows[w].st \in {"allocated", "pending"}, rows[w].id.birth # 0,
           NEW r \in RowRecords, rows' = [rows EXCEPT ![w] = r], r.st \in {"allocated", "pending"},
           r.name = rows[w].name, r.root = rows[w].root, r.id = rows[w].id,
           r.dest # None <=> r.st = "pending",
           r.st = "pending" => members[w] \subseteq asked /\ members[w] \cap (runs \cup starting) = {},
           UNCHANGED <<members, sess, runs, starting, asked>>
    PROVE  /\ Distinct' /\ \A v \in Checkouts : RowOK(v)' /\ MemberOK(v)'
           /\ rows' \in [Checkouts -> RowRecords]
           /\ rows'[w] = r /\ \A v \in Checkouts \ {w} : rows'[v] = rows[v]
<1>1. /\ rows' \in [Checkouts -> RowRecords]
      /\ rows'[w] = r /\ \A v \in Checkouts \ {w} : rows'[v] = rows[v]
  BY DEF Records, Typed
<1>2. ASSUME NEW v \in Checkouts PROVE RowOK(v)' /\ MemberOK(v)'
  <2>0. RowOK(v) /\ MemberOK(v)
    BY DEF Records
  <2>1. CASE v = w
    BY <1>1, <2>0, <2>1 DEF RowOK, MemberOK, Active, Listed
  <2>2. CASE v # w
    BY <1>1, <2>0, <2>2 DEF RowOK, MemberOK, Active, Listed
  <2> QED
    BY <2>1, <2>2
<1>3. \A v \in Checkouts : (Active(v)' <=> Active(v)) /\ rows'[v].name = rows[v].name
  BY <1>1 DEF Active
<1>4. Distinct'
  BY <1>3 DEF Records, Distinct
<1> QED
  BY <1>1, <1>2, <1>4

LEMMA DecideRecords ==
    ASSUME Records, decide, UNCHANGED births
    PROVE  Records'
<1>0. op.kind = "delete" /\ op.at = "next" /\ DeleteOK /\ op \in OpRecords
  BY DEF decide, Records, OpOK, Typed
<1>u. UNCHANGED <<rows, members, sess, att, runs, starting, root, tree, objs, told, lost, strayed, asked, births>>
  BY DEF decide, db, fs, history
<1>1. PICK w \in op.todo : w \in Checkouts /\ rows[w].st \notin {"none", "retired"} /\ Decision(w)
  BY Decided
<1>2. /\ op' \in OpRecords /\ op'.kind = op.kind /\ op'.s = op.s
      /\ \/ Dropped(w)
         \/ Begins(w)
  BY <1>0, <1>1 DEF Decision, Skipped, GivenUp, Begins, Dropped, Turned
<1>3. Typed'
  BY <1>u, <1>2 DEF Records, Typed
<1>4. OpOK' /\ op'.at \notin {"sweep", "park"}
  <2>1. CASE Dropped(w)
    <3>1. op'.released \subseteq op.released \cup {w}
      BY <1>0, <1>1, <2>1 DEF Decision, Skipped, GivenUp, Begins, Turned, Dropped, Saying
    <3> QED
      BY <1>0, <1>u, <2>1, <3>1, GoesOn DEF Dropped
  <2>2. CASE Begins(w)
    <3>1. op'.at \in {"reconcile", "journal"} /\ Turned(w, op'.at) /\ members[w] = {op.s}
      BY <2>2 DEF Begins, Turned
    <3>2. rows[w].st = IF op'.at = "journal" THEN "allocated" ELSE "pending"
      BY <2>2 DEF Begins, Turned
    <3>3. rows[w].id.birth # 0
      BY <1>1, <2>2 DEF Begins, Matches, creation_time_unconfirmed, same_directory, Records, RowOK
    <3>4. MovingOK'
      BY <1>1, <1>u, <3>1, <3>2, <3>3 DEF MovingOK, Turned
    <3>5. DeleteOK'
      BY <1>0, <1>u, <3>1, <3>4 DEF DeleteOK, Turned, Quietly, Moving, Listed
    <3> QED
      BY <1>0, <3>1, <3>5 DEF OpOK, Turned
  <2> QED
    BY <1>2, <2>1, <2>2
<1> QED
  BY <1>u, <1>2, <1>3, <1>4, RowsKept, SessionsKept DEF Records

\* What is known of an archive under way.
LEMMA InArchive ==
    ASSUME Records, op.at \in Moving
    PROVE  /\ op.kind \in {"delete", "startup"} /\ MovingOK /\ op \in OpRecords
           /\ op.w \in Checkouts /\ rows[op.w] \in RowRecords /\ RowOK(op.w) /\ MemberOK(op.w)
           /\ rows[op.w].st \in {"allocated", "pending"} /\ rows[op.w].name \in Paths
           /\ rows[op.w].root \in Roots /\ rows[op.w].id \in [ino : Nat, birth : Nat]
           /\ op.w \in op.todo /\ op.todo \subseteq Checkouts
           /\ op.kind = "delete" => DeleteOK
           /\ op.kind = "startup" => StartupOK /\ op.at # "journal"
           /\ Where(op.w) \in SUBSET Names /\ {rows[op.w].name} \in SUBSET Names
           /\ At(rows[op.w].name) \in Nat
<1>1. op \in OpRecords /\ OpOK
  BY DEF Records, Typed
<1>2. op.kind \in {"delete", "startup"} /\ MovingOK /\ (op.kind = "delete" => DeleteOK)
      /\ (op.kind = "startup" => StartupOK /\ op.at # "journal")
  BY <1>1 DEF OpOK, CreateOK, DeleteOK, StartupOK, TrashOK, OpRecords, Moving, Idle
<1>3. op.w \in Checkouts /\ op.w \in op.todo /\ op.todo \subseteq Checkouts
  BY <1>1, <1>2 DEF OpRecords, MovingOK
<1>4. rows[op.w].st \in {"allocated", "pending"}
  BY <1>2 DEF MovingOK
<1>5. rows[op.w] \in RowRecords /\ RowOK(op.w) /\ MemberOK(op.w)
  BY <1>3 DEF Records, Typed
<1>6. Where(op.w) \in SUBSET Names /\ {rows[op.w].name} \in SUBSET Names /\ At(rows[op.w].name) \in Nat
  BY <1>3, <1>4, Named
<1> QED
  BY <1>1, <1>2, <1>3, <1>4, <1>5, <1>6 DEF RowOK

\* Nobody works in a checkout whose Delete archives it.
LEMMA OnlyTheDeleted ==
    ASSUME Records, op.at \in Moving, op.kind = "delete" \/ rows[op.w].st = "pending"
    PROVE  members[op.w] \subseteq asked /\ members[op.w] \cap (runs \cup starting) = {}
<1>1. MovingOK /\ MemberOK(op.w) /\ op.kind \in {"delete", "startup"} /\ (op.kind = "delete" => DeleteOK)
  BY InArchive
<1>2. CASE op.kind = "delete"
  BY <1>1, <1>2 DEF MovingOK, DeleteOK, Moving
<1>3. CASE rows[op.w].st = "pending"
  BY <1>1, <1>3 DEF MemberOK
<1> QED
  BY <1>1, <1>2, <1>3

\* The row after a journal, and after its journal was taken back.
Journaled(n) ==
    /\ rows' \in [Checkouts -> RowRecords]
    /\ \A v \in Checkouts \ {op.w} : rows'[v] = rows[v]
    /\ rows'[op.w].name = rows[op.w].name /\ rows'[op.w].root = rows[op.w].root
    /\ rows'[op.w].id = rows[op.w].id
    /\ rows'[op.w].dest = n
    /\ rows'[op.w].st = IF n = None THEN "allocated" ELSE "pending"

LEMMA Journals ==
    ASSUME Records, op.at \in Moving, UNCHANGED <<members, sess, runs, starting, asked>>,
           op.kind = "delete" \/ rows[op.w].st = "pending",
           NEW n,
           \/ n \in Stems \cup Fresh /\ rows' = [rows EXCEPT ![op.w].st = "pending", ![op.w].dest = n]
           \/ n \in Stems \cup Fresh /\ rows' = [rows EXCEPT ![op.w].dest = n] /\ rows[op.w].st = "pending"
           \/ n = None /\ rows' = [rows EXCEPT ![op.w].st = "allocated", ![op.w].dest = None]
    PROVE  Journaled(n) /\ Distinct' /\ \A v \in Checkouts : RowOK(v)' /\ MemberOK(v)'
<1>0. op.w \in Checkouts /\ rows[op.w] \in RowRecords /\ MovingOK /\ rows[op.w].st \in {"allocated", "pending"}
  BY InArchive
<1>1. members[op.w] \subseteq asked /\ members[op.w] \cap (runs \cup starting) = {}
  BY OnlyTheDeleted
<1>2. n \in Stems \cup Fresh <=> n # None
  BY Apart
<1>3. PICK r \in RowRecords :
         /\ rows' = [rows EXCEPT ![op.w] = r] /\ r.dest = n
         /\ r.st = IF n = None THEN "allocated" ELSE "pending"
         /\ r.name = rows[op.w].name /\ r.root = rows[op.w].root /\ r.id = rows[op.w].id
  <2>1. ASSUME n \in Stems \cup Fresh, rows' = [rows EXCEPT ![op.w].st = "pending", ![op.w].dest = n]
        PROVE  \E r \in RowRecords :
                 /\ rows' = [rows EXCEPT ![op.w] = r] /\ r.dest = n /\ r.st = "pending"
                 /\ r.name = rows[op.w].name /\ r.root = rows[op.w].root /\ r.id = rows[op.w].id
    <3> DEFINE r == [rows[op.w] EXCEPT !.st = "pending", !.dest = n]
    <3>1. /\ r \in RowRecords /\ r.dest = n /\ r.st = "pending"
          /\ r.name = rows[op.w].name /\ r.root = rows[op.w].root /\ r.id = rows[op.w].id
      BY <1>0, <2>1 DEF RowRecords
    <3>2. rows' = [rows EXCEPT ![op.w] = r]
      BY <2>1
    <3> HIDE DEF r
    <3> QED
      BY <3>1, <3>2
  <2>2. ASSUME n \in Stems \cup Fresh, rows' = [rows EXCEPT ![op.w].dest = n], rows[op.w].st = "pending"
        PROVE  \E r \in RowRecords :
                 /\ rows' = [rows EXCEPT ![op.w] = r] /\ r.dest = n /\ r.st = "pending"
                 /\ r.name = rows[op.w].name /\ r.root = rows[op.w].root /\ r.id = rows[op.w].id
    <3> DEFINE r == [rows[op.w] EXCEPT !.dest = n]
    <3>1. /\ r \in RowRecords /\ r.dest = n /\ r.st = "pending"
          /\ r.name = rows[op.w].name /\ r.root = rows[op.w].root /\ r.id = rows[op.w].id
      BY <1>0, <2>2 DEF RowRecords
    <3>2. rows' = [rows EXCEPT ![op.w] = r]
      BY <2>2
    <3> HIDE DEF r
    <3> QED
      BY <3>1, <3>2
  <2>3. ASSUME n = None, rows' = [rows EXCEPT ![op.w].st = "allocated", ![op.w].dest = None]
        PROVE  \E r \in RowRecords :
                 /\ rows' = [rows EXCEPT ![op.w] = r] /\ r.dest = n /\ r.st = "allocated"
                 /\ r.name = rows[op.w].name /\ r.root = rows[op.w].root /\ r.id = rows[op.w].id
    <3> DEFINE r == [rows[op.w] EXCEPT !.st = "allocated", !.dest = None]
    <3>1. /\ r \in RowRecords /\ r.dest = n /\ r.st = "allocated"
          /\ r.name = rows[op.w].name /\ r.root = rows[op.w].root /\ r.id = rows[op.w].id
      BY <1>0, <2>3 DEF RowRecords
    <3>2. rows' = [rows EXCEPT ![op.w] = r]
      BY <2>3
    <3> HIDE DEF r
    <3> QED
      BY <3>1, <3>2
  <2> QED
    BY <1>2, <2>1, <2>2, <2>3
<1>4. rows[op.w].id.birth # 0
  BY <1>0 DEF MovingOK
<1> QED
  BY <1>0, <1>1, <1>2, <1>3, <1>4, RowMoves DEF Journaled

\* The steps of an archive, by what they do to the row and the operation:
\* the tree is moved in one of them only.
Filed ==
    /\ op.at = "journal"
    /\ \/ /\ \E n \in Stems : Journaled(n)
          /\ Turned(op.w, "rename") /\ op'.src = op.src
       \/ GivenUp(op.w, Where(op.w)) /\ UNCHANGED rows
Reconciled ==
    /\ op.at = "reconcile"
    /\ \/ GivenUp(op.w, Where(op.w)) /\ UNCHANGED rows
       \/ /\ verified_root(op.w) /\ At(rows[op.w].dest) # 0
          /\ same_directory(At(rows[op.w].dest), rows[op.w].id)
          /\ Turned(op.w, "sync") /\ UNCHANGED rows
       \/ /\ verified_root(op.w) /\ Matches(op.w)
          /\ At(rows[op.w].dest) # 0 => ~same_directory(At(rows[op.w].dest), rows[op.w].id)
          /\ Turned(op.w, "rename") /\ op'.src = At(rows[op.w].name)
          /\ \/ At(rows[op.w].dest) = 0 /\ UNCHANGED rows
             \/ \E n \in Unused : Journaled(n)
       \/ /\ verified_root(op.w) /\ At(rows[op.w].name) = 0 /\ At(rows[op.w].dest) = 0
          /\ Dropped(op.w) /\ Quietly /\ UNCHANGED rows
Synced ==
    /\ op.at = "sync" /\ UNCHANGED rows
    /\ (Dropped(op.w) /\ Quietly) \/ GivenUp(op.w, Where(op.w))
From == <<root, rows[op.w].name>>
To == <<root, rows[op.w].dest>>
Renamed ==
    /\ op.at = "rename"
    /\ \/ /\ tree[From] # 0 /\ tree[To] = 0 /\ Moved(From, To) /\ UNCHANGED rows
          /\ Turned(op.w, "sync") \/ GivenUp(op.w, Where(op.w))
       \/ UNCHANGED tree /\ \E n \in Unused : Journaled(n) /\ Turned(op.w, "rename") /\ op'.src = op.src
       \/ UNCHANGED <<tree, rows>> /\ GivenUp(op.w, Where(op.w))
       \/ UNCHANGED tree /\ Journaled(None) /\ GivenUp(op.w, {rows[op.w].name})

Others == UNCHANGED <<members, sess, att, runs, starting, root, objs, told, lost, strayed, asked, births>>

LEMMA Archived_step ==
    ASSUME Records, Archive, UNCHANGED births
    PROVE  /\ op.at \in Moving /\ Others
           /\ (UNCHANGED tree /\ (Filed \/ Reconciled \/ Synced)) \/ Renamed
           /\ Distinct' /\ \A v \in Checkouts : RowOK(v)' /\ MemberOK(v)'
           /\ rows' \in [Checkouts -> RowRecords]
<1>0. /\ op.at \in Moving
      /\ UNCHANGED <<members, sess, att, runs, starting, root, objs, told, lost, strayed, asked, births>>
  BY DEF Archive, persist_journal, rename_exclusive_into, sync_archive_parent, reconcile_archive, Moving, fs, history
<1>1. /\ op \in OpRecords /\ op.w \in Checkouts /\ op.w \in op.todo /\ op.kind \in {"delete", "startup"}
      /\ Where(op.w) \in SUBSET Names /\ {rows[op.w].name} \in SUBSET Names
      /\ At(rows[op.w].name) \in Nat /\ MovingOK
      /\ op.at = "journal" => op.kind = "delete"
      /\ op.src \in Nat /\ op.tries \in Nat
  BY <1>0, InArchive DEF OpRecords
<1>k. /\ rows' = rows => /\ Distinct' /\ \A v \in Checkouts : RowOK(v)' /\ MemberOK(v)'
                         /\ rows' \in [Checkouts -> RowRecords]
  <2>1. rows \in [Checkouts -> RowRecords]
    BY DEF Records, Typed
  <2> QED
    BY <1>0, <2>1, RowsKept
<1>j. \A n : \/ n \in Stems \cup Fresh /\ rows' = [rows EXCEPT ![op.w].st = "pending", ![op.w].dest = n] /\ op.kind = "delete"
             \/ n \in Stems \cup Fresh /\ rows' = [rows EXCEPT ![op.w].dest = n] /\ rows[op.w].st = "pending"
             \/ n = None /\ rows' = [rows EXCEPT ![op.w].st = "allocated", ![op.w].dest = None] /\ rows[op.w].st = "pending"
             => /\ Journaled(n) /\ Distinct' /\ \A v \in Checkouts : RowOK(v)' /\ MemberOK(v)'
                /\ rows' \in [Checkouts -> RowRecords]
  BY <1>0, Journals DEF Journaled
<1>g. \A N \in SUBSET Names : GiveUp(op.w, N) => GivenUp(op.w, N)
  BY <1>1, Given_up
<1>t. ASSUME NEW at \in {"rename", "sync"}, NEW m \in Nat,
             op' = [op EXCEPT !.at = at, !.src = m] \/ (m = op.src /\ op' = [op EXCEPT !.at = at])
      PROVE  Turned(op.w, at) /\ op'.src = m
  BY <1>1, <1>t DEF Turned, Quietly, OpRecords, Moving
<1>2. CASE persist_journal
  <2>1. op.at = "journal" /\ UNCHANGED tree
    BY <1>2 DEF persist_journal, fs
  <2>2. CASE (\E n \in Stems : rows' = [rows EXCEPT ![op.w].st = "pending", ![op.w].dest = n])
             /\ op' = [op EXCEPT !.at = "rename"]
    <3>1. PICK n \in Stems : rows' = [rows EXCEPT ![op.w].st = "pending", ![op.w].dest = n]
      BY <2>2
    <3>2. Journaled(n) /\ Distinct' /\ (\A v \in Checkouts : RowOK(v)' /\ MemberOK(v)')
          /\ rows' \in [Checkouts -> RowRecords]
      BY <1>1, <1>j, <2>1, <3>1
    <3>3. Turned(op.w, "rename") /\ op'.src = op.src
      BY <1>1, <1>t, <2>2
    <3> QED
      BY <1>0, <2>1, <3>2, <3>3 DEF Filed, Others
  <2>3. CASE GiveUp(op.w, Where(op.w)) /\ UNCHANGED rows
    BY <1>0, <1>1, <1>g, <1>k, <2>1, <2>3 DEF Filed, Others
  <2> QED
    BY <1>2, <2>2, <2>3 DEF persist_journal
<1>3. CASE sync_archive_parent
  <2>1. op.at = "sync" /\ UNCHANGED <<tree, rows>> /\ (Over \/ GiveUp(op.w, Where(op.w)))
    BY <1>3 DEF sync_archive_parent, fs, Over
  <2> QED
    BY <1>0, <1>1, <1>g, <1>k, <2>1, Is_over DEF Synced, Others
<1>4. CASE rename_exclusive_into
  <2>0. op.at = "rename" /\ rows[op.w].st = "pending"
    BY <1>1, <1>4 DEF rename_exclusive_into, MovingOK
  <2>1. CASE /\ tree[From] # 0 /\ tree[To] = 0 /\ Moved(From, To) /\ UNCHANGED rows
             /\ op' = [op EXCEPT !.at = "sync"] \/ GiveUp(op.w, Where(op.w))
    BY <1>0, <1>1, <1>g, <1>k, <1>t, <2>0, <2>1 DEF Renamed, Others
  <2>2. CASE /\ UNCHANGED tree /\ op' = [op EXCEPT !.tries = @ + 1]
             /\ \E n \in Unused : rows' = [rows EXCEPT ![op.w].dest = n]
    <3>1. PICK n \in Unused : rows' = [rows EXCEPT ![op.w].dest = n]
      BY <2>2
    <3>2. Journaled(n) /\ Distinct' /\ (\A v \in Checkouts : RowOK(v)' /\ MemberOK(v)')
          /\ rows' \in [Checkouts -> RowRecords]
      BY <1>j, <2>0, <3>1 DEF Unused
    <3>3. Turned(op.w, "rename") /\ op'.src = op.src
      BY <1>1, <2>0, <2>2 DEF Turned, Quietly, OpRecords
    <3> QED
      BY <1>0, <2>0, <2>2, <3>2, <3>3 DEF Renamed, Others
  <2>3. CASE UNCHANGED <<tree, rows>> /\ GiveUp(op.w, Where(op.w))
    BY <1>0, <1>1, <1>g, <1>k, <2>0, <2>3 DEF Renamed, Others
  <2>4. CASE UNCHANGED tree /\ unjournal /\ GiveUp(op.w, {rows[op.w].name})
    BY <1>0, <1>1, <1>g, <1>j, <2>0, <2>4 DEF Renamed, Others, unjournal
  <2> QED
    BY <1>4, <2>1, <2>2, <2>3, <2>4 DEF rename_exclusive_into, From, To, repoint_journal
<1>5. CASE reconcile_archive
  <2>0. op.at = "reconcile" /\ rows[op.w].st = "pending" /\ UNCHANGED tree
    BY <1>1, <1>5 DEF reconcile_archive, MovingOK, fs
  <2> DEFINE w == op.w
             dest == At(rows[w].dest)
             done == dest # 0 /\ same_directory(dest, rows[w].id)
             closed == Overlapped(w) \/ ~verified_root(w)
  <2>1. \/ GiveUp(w, Where(w)) /\ UNCHANGED rows
        \/ /\ ~closed /\ done
           /\ op' = [op EXCEPT !.at = "sync", !.src = At(rows[w].name)] /\ UNCHANGED rows
        \/ /\ ~closed /\ ~done /\ Matches(w)
           /\ op' = [op EXCEPT !.at = "rename", !.src = At(rows[w].name)]
           /\ IF dest = 0 THEN UNCHANGED rows ELSE repoint_journal
        \/ ~closed /\ At(rows[w].name) = 0 /\ dest = 0 /\ Over
    BY <1>5 DEF reconcile_archive, Over
  <2>2. CASE GiveUp(w, Where(w)) /\ UNCHANGED rows
    BY <1>0, <1>1, <1>g, <1>k, <2>0, <2>2 DEF Reconciled, Others
  <2>3. CASE /\ ~closed /\ done
             /\ op' = [op EXCEPT !.at = "sync", !.src = At(rows[w].name)] /\ UNCHANGED rows
    BY <1>0, <1>1, <1>k, <1>t, <2>0, <2>3 DEF Reconciled, Others
  <2>4. CASE /\ ~closed /\ ~done /\ Matches(w)
             /\ op' = [op EXCEPT !.at = "rename", !.src = At(rows[w].name)]
             /\ IF dest = 0 THEN UNCHANGED rows ELSE repoint_journal
    <3>1. Turned(w, "rename") /\ op'.src = At(rows[w].name)
      BY <1>1, <1>t, <2>4
    <3>2. CASE dest = 0
      BY <1>0, <1>k, <2>0, <2>4, <3>1, <3>2 DEF Reconciled, Others
    <3>3. CASE dest # 0
      <4>1. PICK n \in Unused : rows' = [rows EXCEPT ![op.w].dest = n]
        BY <2>4, <3>3 DEF repoint_journal
      <4>2. Journaled(n) /\ Distinct' /\ (\A v \in Checkouts : RowOK(v)' /\ MemberOK(v)')
            /\ rows' \in [Checkouts -> RowRecords]
        BY <1>j, <2>0, <4>1 DEF Unused
      <4> QED
        BY <1>0, <2>0, <2>4, <3>1, <3>3, <4>2 DEF Reconciled, Others
    <3> QED
      BY <3>2, <3>3
  <2>5. CASE ~closed /\ At(rows[w].name) = 0 /\ dest = 0 /\ Over
    <3>1. Dropped(w) /\ Quietly /\ rows' = rows
      BY <1>1, <2>5, Is_over DEF Over
    <3>2. verified_root(w) /\ At(rows[w].name) = 0 /\ At(rows[w].dest) = 0
      BY <2>5
    <3> QED
      BY <1>0, <1>k, <2>0, <3>1, <3>2 DEF Reconciled, Others
  <2> QED
    BY <2>1, <2>2, <2>3, <2>4, <2>5
<1> QED
  BY <1>2, <1>3, <1>4, <1>5 DEF Archive

LEMMA ArchiveRecords ==
    ASSUME Records, Archive, UNCHANGED births
    PROVE  Records'
<1>0. op.at \in Moving /\ Others /\ ((UNCHANGED tree /\ (Filed \/ Reconciled \/ Synced)) \/ Renamed)
      /\ Distinct' /\ (\A v \in Checkouts : RowOK(v)' /\ MemberOK(v)')
      /\ rows' \in [Checkouts -> RowRecords]
  BY Archived_step
<1>1. /\ op \in OpRecords /\ op.w \in Checkouts /\ op.kind \in {"delete", "startup"} /\ MovingOK
      /\ op.w \in op.todo /\ rows[op.w].st \in {"allocated", "pending"} /\ rows[op.w].name \in Paths
      /\ (op.kind = "delete" => DeleteOK) /\ (op.kind = "startup" => StartupOK)
      /\ op.at = "journal" => op.kind = "delete"
      /\ rows[op.w] \in RowRecords /\ RowOK(op.w)
  BY <1>0, InArchive
<1>2. tree' \in [Roots \X Names -> 0..Len(objs')]
  <2>1. tree \in [Roots \X Names -> 0..Len(objs)] /\ root \in Roots /\ objs' = objs
    BY <1>0 DEF Records, Typed, Others
  <2>2. rows[op.w].name \in Names /\ (rows[op.w].dest # None => rows[op.w].dest \in Names)
    BY <1>1, Apart DEF RowRecords
  <2>3. Renamed => rows[op.w].dest # None
    BY <1>1 DEF Renamed, MovingOK, RowOK
  <2>4. CASE Moved(From, To) /\ Renamed
    <3>1. From \in Roots \X Names /\ To \in Roots \X Names
      BY <2>1, <2>2, <2>3, <2>4 DEF From, To
    <3>2. tree' = [tree EXCEPT ![To] = tree[From], ![From] = 0]
      BY <2>4 DEF Moved
    <3>3. objs \in Seq(ObjRecords) /\ 0 \in 0..Len(objs)
      BY DEF Records, Typed
    <3> QED
      BY <2>1, <3>1, <3>2, <3>3
  <2>5. CASE UNCHANGED tree
    BY <2>1, <2>5
  <2> QED
    BY <1>0, <2>4, <2>5 DEF Renamed
<1>3. /\ op' \in OpRecords /\ op'.kind = op.kind /\ op'.s = op.s
      /\ \A v \in Checkouts \ {op.w} : rows'[v] = rows[v]
      /\ \/ Dropped(op.w)
         \/ \E at \in {"rename", "sync"} : Turned(op.w, at) /\ rows'[op.w].st = "pending" /\ rows'[op.w].id = rows[op.w].id
  <2>1. Unused \subseteq Stems \cup Fresh
    BY DEF Unused
  <2>2. op.at \in {"reconcile", "rename", "sync"} => rows[op.w].st = "pending"
    BY <1>1 DEF MovingOK
  <2>3. \A n \in Stems \cup Fresh : n # None
    BY Apart
  <2> QED
    BY <1>0, <1>1, <2>1, <2>2, <2>3 DEF Filed, Reconciled, Synced, Renamed, Journaled, GivenUp, Dropped, Turned
<1>4. Typed'
  BY <1>0, <1>2, <1>3 DEF Records, Typed, Others
<1>5. OpOK' /\ op'.at \notin {"sweep", "park"}
  <2>1. CASE Dropped(op.w)
    <3>1. op.kind # "delete" => op'.notices = op.notices
      <4>1. (\E at \in {"rename", "sync"} : Turned(op.w, at)) => FALSE
        BY <2>1 DEF Dropped, Turned
      <4> QED
        BY <1>0, <4>1 DEF Filed, Reconciled, Synced, Renamed, GivenUp, Quietly
    <3>2. op.kind = "startup" => \A v \in op.todo \ {op.w} : rows'[v].st = "pending"
      BY <1>1, <1>3 DEF StartupOK, OpRecords
    <3>3. op'.released \subseteq op.released \cup {op.w}
      <4>1. (\E at \in {"rename", "sync"} : Turned(op.w, at)) => FALSE
        BY <2>1 DEF Dropped, Turned
      <4> QED
        BY <1>0, <4>1 DEF Filed, Reconciled, Synced, Renamed, GivenUp, Quietly, Saying
    <3>4. OpOK'
      BY <1>0, <1>1, <2>1, <3>1, <3>2, <3>3, GoesOn DEF Others
    <3> QED
      BY <2>1, <3>4 DEF Dropped
  <2>2. ASSUME NEW at \in {"rename", "sync"}, Turned(op.w, at), rows'[op.w].st = "pending", rows'[op.w].id = rows[op.w].id
        PROVE  OpOK' /\ op'.at \notin {"sweep", "park"}
    <3>1. /\ op'.kind = op.kind /\ op'.s = op.s /\ op'.w = op.w /\ op'.at = at
          /\ op'.todo = op.todo /\ op'.released = op.released /\ op'.notices = op.notices
      BY <2>2 DEF Turned, Quietly
    <3>2. MovingOK'
      BY <1>0, <1>1, <2>2, <3>1 DEF MovingOK, Others
    <3>3. op.kind = "delete" => DeleteOK'
      BY <1>0, <1>1, <3>1, <3>2 DEF DeleteOK, Others, Moving, Listed
    <3>4. op.kind = "startup" => StartupOK'
      BY <1>0, <1>1, <1>3, <2>2, <3>1, <3>2 DEF StartupOK, Others, OpRecords
    <3> QED
      BY <1>1, <3>1, <3>3, <3>4 DEF OpOK
  <2> QED
    BY <1>3, <2>1, <2>2
<1>6. \A x \in Sessions : SessOK(x)'
  BY <1>0, <1>3, <1>5, SessionsKept DEF Others
<1> QED
  BY <1>0, <1>4, <1>5, <1>6 DEF Records

LEMMA CommitRecords ==
    ASSUME Records, delete_session_archiving_memberships, UNCHANGED births
    PROVE  Records'
<1>0. op.kind = "delete" /\ op.at = "next" /\ op.todo = {} /\ DeleteOK /\ op \in OpRecords /\ op.s \in Sessions
  BY DEF delete_session_archiving_memberships, Records, OpOK, Typed, DeleteOK
<1>t. Typed /\ sess \in [Sessions -> SessRecords]
  BY DEF Records, Typed
<1>u. UNCHANGED <<runs, starting, root, tree, objs, told, lost, strayed, asked, births>>
  BY DEF delete_session_archiving_memberships, fs, history
<1>1. CASE Fault /\ op' = Idle /\ UNCHANGED db /\ att' = [att EXCEPT ![op.s] = IF @ = "parked" THEN "home" ELSE @]
  <2>1. /\ att' \in [Sessions -> {"none", "home", "parked"}]
        /\ \A x \in Sessions : IF x = op.s THEN att'[x] # "parked" /\ (att'[x] = "none" <=> att[x] = "none")
                                            ELSE att'[x] = att[x]
    BY <1>0, <1>t, <1>1 DEF Typed
  <2>2. Typed'
    BY <1>t, <1>u, <1>1, <2>1, IdleOK DEF Typed, db
  <2>3. ASSUME NEW x \in Sessions PROVE SessOK(x)'
    BY <1>0, <1>u, <1>1, <2>1 DEF Records, SessOK, Listed, Idle, db
  <2> QED
    BY <1>u, <1>1, <2>2, <2>3, IdleOK, RowsKept DEF Records, db
<1> DEFINE last == {w \in Checkouts : members[w] = {op.s} /\ Active(w)}
<1>2. CASE /\ rows' = [w \in Checkouts |-> IF w \in last THEN Settled(w) ELSE rows[w]]
           /\ members' = [w \in Checkouts |-> members[w] \ {op.s}]
           /\ sess' = [sess EXCEPT ![op.s].st = "gone"]
           /\ op' = [op EXCEPT !.at = "reply", !.released = {},
                       !.notices = @ \cup {<<w, rows[w].name>> : w \in {v \in last : Late(v)}}]
           /\ UNCHANGED att
  <2>1. /\ sess' \in [Sessions -> SessRecords] /\ sess'[op.s].st = "gone"
        /\ \A x \in Sessions : sess'[x].cwd = sess[x].cwd /\ sess'[x].origin = sess[x].origin
        /\ \A x \in Sessions \ {op.s} : sess'[x] = sess[x]
    BY <1>0, <1>t, <1>2, Outcomes
  <2>2. /\ op' \in OpRecords /\ op'.kind = "delete" /\ op'.at = "reply" /\ op'.s = op.s /\ op'.todo = {}
        /\ op'.released = {}
    <3>1. {<<w, rows[w].name>> : w \in {v \in last : Late(v)}} \in SUBSET (Checkouts \X Names)
      <4>1. \A w \in last : rows[w].name \in Names
        BY Named DEF Active
      <4> QED
        BY <4>1
    <3>2. op.notices \cup {<<w, rows[w].name>> : w \in {v \in last : Late(v)}} \in SUBSET (Checkouts \X Names)
      BY <1>0, <3>1 DEF OpRecords
    <3> QED
      BY <1>0, <1>2, <3>2 DEF OpRecords
  <2>3. ASSUME NEW w \in Checkouts
        PROVE  /\ members'[w] = members[w] \ {op.s}
               /\ \/ rows'[w] = rows[w] /\ (Active(w) => \E x \in members[w] : x # op.s)
                  \/ Active(w) /\ members[w] = {op.s} /\ rows'[w] = NoRow
                  \/ /\ members[w] = {op.s} /\ rows[w].st = "pending" /\ rows'[w].st = "retired"
                     /\ rows'[w].root = rows[w].root /\ rows'[w].name = rows[w].name
                     /\ rows'[w].id = rows[w].id /\ rows'[w].dest = rows[w].dest
                     /\ rows'[w] \in RowRecords
    <3>0. members'[w] = members[w] \ {op.s} /\ rows'[w] = IF w \in last THEN Settled(w) ELSE rows[w]
      BY <1>2
    <3>1. CASE w \notin last
      BY <3>0, <3>1 DEF Records, MemberOK
    <3>2. CASE w \in last
      <4>1. rows[w] \in RowRecords
        BY <1>t DEF Typed
      <4>2. [rows[w] EXCEPT !.st = "retired"] \in RowRecords
        BY <4>1 DEF RowRecords
      <4> QED
        BY <3>0, <3>2, <4>1, <4>2 DEF Settled, RowRecords
    <3> QED
      BY <3>1, <3>2
  <2>4. Typed'
    <3>1. NoRow \in RowRecords
      BY DEF NoRow, RowRecords
    <3>2. rows' \in [Checkouts -> RowRecords]
      <4>1. \A w \in Checkouts : rows'[w] \in RowRecords
        BY <1>t, <2>3, <3>1 DEF Typed
      <4>2. rows' = [w \in Checkouts |-> rows'[w]]
        BY <1>2
      <4> QED
        BY <4>1, <4>2
    <3> QED
      BY <1>t, <1>u, <1>2, <2>1, <2>2, <3>2 DEF Typed
  <2>5. ASSUME NEW w \in Checkouts PROVE RowOK(w)' /\ MemberOK(w)'
    <3>0. RowOK(w) /\ MemberOK(w) /\ members[w] \subseteq Sessions
      BY <1>t DEF Records, Typed
    <3>1. RowOK(w)'
      BY <2>3, <3>0 DEF RowOK, NoRow
    <3>2. \A x \in members'[w] : Listed(x)' /\ sess'[x].cwd = rows[w].name /\ sess'[x].origin = sess[x].origin /\ x \in members[w]
      BY <2>1, <2>3, <3>0 DEF MemberOK, Listed
    <3>3. Active(w)' <=> members'[w] # {}
      BY <2>3, <3>0 DEF MemberOK, Active, NoRow
    <3>4. rows'[w].st \in {"planned", "allocated", "pending"} => rows'[w] = rows[w]
      BY <2>3 DEF NoRow
    <3>5. \A x \in Sessions : Listed(x)' => Listed(x) /\ x # op.s
      BY <2>1 DEF Listed
    <3>6. members'[w] # {} => rows'[w] = rows[w]
      BY <2>3
    <3> QED
      BY <1>u, <2>1, <2>3, <3>0, <3>1, <3>2, <3>3, <3>4, <3>5, <3>6 DEF MemberOK
  <2>6. ASSUME NEW x \in Sessions PROVE SessOK(x)'
    <3>1. SessOK(x)
      BY DEF Records
    <3>2. x = op.s => x \notin runs \cup starting
      BY <1>0 DEF DeleteOK
    <3>3. CASE x = op.s
      BY <1>u, <2>1, <3>2, <3>3 DEF SessOK, Listed
    <3>4. CASE x # op.s
      BY <1>0, <1>u, <1>2, <2>1, <2>2, <2>3, <3>1, <3>4 DEF SessOK, Listed
    <3> QED
      BY <3>3, <3>4
  <2>7. Distinct'
    <3>1. \A w \in Checkouts : Active(w)' => Active(w) /\ rows'[w].name = rows[w].name
      BY <2>3 DEF Active, NoRow
    <3> QED
      BY <2>1, <3>1 DEF Records, Distinct
  <2>8. OpOK'
    BY <1>0, <2>1, <2>2 DEF OpOK, DeleteOK, Moving
  <2> QED
    BY <2>4, <2>5, <2>6, <2>7, <2>8 DEF Records
<1> QED
  BY <1>1, <1>2 DEF delete_session_archiving_memberships

LEMMA ReplyRecords ==
    ASSUME Records, discard_and_reply, UNCHANGED births
    PROVE  Records'
<1>0. op.kind = "delete" /\ op.at = "reply" /\ DeleteOK /\ op \in OpRecords /\ op.s \in Sessions
  BY DEF discard_and_reply, Records, OpOK, Typed, DeleteOK
<1>1. /\ UNCHANGED <<rows, members, sess, runs, starting, root, tree, objs, lost, strayed, asked, births>>
      /\ att' = [att EXCEPT ![op.s] = "none"] /\ told' = told \cup op.notices /\ op' = Idle
  BY DEF discard_and_reply, db, fs
<1>2. ~Listed(op.s)
  BY <1>0 DEF DeleteOK, Listed
<1>3. Typed'
  BY <1>0, <1>1, IdleOK DEF Records, Typed, OpRecords
<1>4. ASSUME NEW x \in Sessions PROVE SessOK(x)'
  <2>1. x # op.s => att'[x] = att[x]
    BY <1>1 DEF Records, Typed
  <2> QED
    BY <1>0, <1>1, <1>2, <2>1 DEF Records, SessOK, Listed, Idle
<1> QED
  BY <1>1, <1>3, <1>4, IdleOK, RowsKept DEF Records

LEMMA CrashRecords ==
    ASSUME Records, crash, UNCHANGED births
    PROVE  Records'
<1>1. /\ UNCHANGED <<rows, members, sess, att, runs, root, tree, objs, told, strayed, asked, births>>
      /\ lost' = lost \cup op.notices /\ starting' = {}
      /\ op' = [Idle EXCEPT !.kind = "startup", !.at = "next",
                            !.todo = {w \in Checkouts : rows[w].st = "pending"}]
  BY DEF crash, db, fs
<1>2. /\ op' \in OpRecords /\ op'.kind = "startup" /\ op'.at = "next" /\ op'.notices = {}
      /\ op'.todo = {w \in Checkouts : rows[w].st = "pending"}
  BY <1>1 DEF Idle, OpRecords
<1>3. Typed'
  BY <1>1, <1>2 DEF Records, Typed, OpRecords
<1>4. ASSUME NEW w \in Checkouts PROVE RowOK(w)' /\ MemberOK(w)'
  BY <1>1 DEF Records, RowOK, MemberOK, Active, Listed
<1>5. ASSUME NEW x \in Sessions PROVE SessOK(x)'
  BY <1>1, <1>2 DEF Records, SessOK, Listed
<1>6. Distinct'
  BY <1>1 DEF Records, Distinct, Active
<1>7. OpOK'
  BY <1>1, <1>2 DEF OpOK, StartupOK
<1> QED
  BY <1>3, <1>4, <1>5, <1>6, <1>7 DEF Records

LEMMA StartupRecords ==
    ASSUME Records, Startup, UNCHANGED births
    PROVE  Records'
<1>0. op.kind = "startup" /\ op.at = "next" /\ StartupOK /\ op \in OpRecords
  BY DEF Startup, startup_next, reconcile_at_startup, Records, OpOK, Typed
<1>u. UNCHANGED <<rows, members, sess, runs, starting, root, tree, objs, told, lost, strayed, asked, births>>
  BY DEF Startup, startup_next, reconcile_at_startup, db, fs, history
<1>1. CASE startup_next
  <2>1. PICK w \in op.todo : Begin(w, "reconcile")
    BY <1>1 DEF startup_next
  <2>2. w \in Checkouts /\ rows[w].st = "pending" /\ RowOK(w)
    BY <1>0 DEF StartupOK, OpRecords, Records
  <2>3. At(rows[w].name) \in Nat
    BY <2>2, Named
  <2>4. Turned(w, "reconcile")
    BY <1>0, <2>1, <2>2, <2>3, Begun
  <2>5. OpOK'
    BY <1>0, <1>u, <2>2, <2>4 DEF OpOK, StartupOK, MovingOK, Turned, Quietly, RowOK
  <2>6. Typed'
    BY <1>u, <1>1, <2>4 DEF Records, Typed, Turned, startup_next
  <2> QED
    BY <1>u, <1>1, <2>4, <2>5, <2>6, RowsKept, SessionsKept DEF Records, Turned, startup_next
<1>2. CASE reconcile_at_startup
  <2>1. /\ op' = Idle
        /\ att' = [s \in Sessions |-> IF ~Listed(s) THEN "none" ELSE IF att[s] = "parked" THEN "home" ELSE att[s]]
    BY <1>2 DEF reconcile_at_startup
  <2>2. att' \in [Sessions -> {"none", "home", "parked"}]
    BY <2>1 DEF Records, Typed
  <2>3. Typed'
    BY <1>u, <2>1, <2>2, IdleOK DEF Records, Typed
  <2>4. ASSUME NEW x \in Sessions PROVE SessOK(x)'
    BY <1>u, <2>1 DEF Records, SessOK, Listed, Idle
  <2> QED
    BY <1>u, <2>1, <2>3, <2>4, IdleOK, RowsKept DEF Records
<1> QED
  BY <1>1, <1>2 DEF Startup

LEMMA TrashRecords ==
    ASSUME Records, NEW w \in Checkouts, list(w) \/ delete(w), UNCHANGED births
    PROVE  Records'
<1>0. rows[w].st = "retired" /\ members[w] = {} /\ RowOK(w) /\ rows[w] \in RowRecords
  BY DEF list, delete, Archived, Records, Typed
<1>u. UNCHANGED <<members, sess, att, runs, starting, root, tree, objs, lost, strayed, asked, births>>
  BY DEF list, delete, fs, history
<1>1. /\ \/ forget_retired(w) /\ op' = op /\ op.kind # "startup"
         \/ op = Idle /\ UNCHANGED rows /\ op' = [Idle EXCEPT !.kind = "trash", !.at = "remove", !.w = w, !.src = At(rows[w].dest)]
      /\ told' = told \/ told' = told \cup {<<w, rows[w].dest>>}
  BY DEF list, delete, history, Idle
<1>2. At(rows[w].dest) \in Nat /\ rows[w].dest \in Names
  BY <1>0, Named DEF RowOK
<1>3. CASE forget_retired(w) /\ op' = op /\ op.kind # "startup"
  <2>1. rows' = [rows EXCEPT ![w] = NoRow]
    BY <1>3 DEF forget_retired
  <2>2. /\ rows'[w] = NoRow /\ \A v \in Checkouts \ {w} : rows'[v] = rows[v]
        /\ rows' \in [Checkouts -> RowRecords]
    BY <2>1 DEF Records, Typed, NoRow, RowRecords
  <2>3. Typed'
    BY <1>u, <1>1, <1>2, <1>3, <2>2 DEF Records, Typed
  <2>4. ASSUME NEW v \in Checkouts PROVE RowOK(v)' /\ MemberOK(v)'
    <3>1. RowOK(v) /\ MemberOK(v)
      BY DEF Records
    <3>2. CASE v = w
      BY <1>0, <1>u, <2>2, <3>2 DEF RowOK, MemberOK, Active, NoRow
    <3>3. CASE v # w
      BY <1>u, <2>2, <3>1, <3>3 DEF RowOK, MemberOK, Active, Listed
    <3> QED
      BY <3>2, <3>3
  <2>5. ASSUME NEW x \in Sessions PROVE SessOK(x)'
    BY <1>u, <1>3 DEF Records, SessOK, Listed
  <2>6. Distinct'
    <3>1. \A v \in Checkouts : Active(v)' => Active(v) /\ rows'[v].name = rows[v].name
      BY <1>0, <2>2 DEF Active, NoRow
    <3> QED
      BY <1>u, <3>1 DEF Records, Distinct
  <2>7. OpOK'
    <3>1. OpOK /\ op \in OpRecords
      BY DEF Records, Typed
    <3>2. op.kind = "create" => CreateOK'
      BY <1>0, <1>u, <1>3, <2>2, <3>1 DEF OpOK, CreateOK
    <3>3. op.kind = "delete" => DeleteOK'
      <4>1. op.kind = "delete" => DeleteOK
        BY <3>1 DEF OpOK
      <4>2. MovingOK /\ op.kind = "delete" => MovingOK'
        BY <1>0, <1>u, <1>3, <2>2, <3>1 DEF MovingOK, OpRecords
      <4> QED
        BY <1>u, <1>3, <4>1, <4>2 DEF DeleteOK, Listed
    <3>4. op.kind = "trash" => TrashOK'
      BY <1>0, <1>u, <1>3, <2>2, <3>1 DEF OpOK, TrashOK, NoRow
    <3> QED
      BY <1>3, <3>1, <3>2, <3>3, <3>4 DEF OpOK
  <2> QED
    BY <2>3, <2>4, <2>5, <2>6, <2>7 DEF Records
<1>4. CASE /\ op = Idle /\ UNCHANGED rows
           /\ op' = [Idle EXCEPT !.kind = "trash", !.at = "remove", !.w = w, !.src = At(rows[w].dest)]
  <2>1. op'.kind = "trash" /\ op'.at = "remove" /\ op'.w = w /\ op'.notices = {} /\ op' \in OpRecords
    BY <1>2, <1>4 DEF Idle, OpRecords
  <2>2. Typed'
    BY <1>u, <1>1, <1>2, <1>4, <2>1 DEF Records, Typed
  <2>3. OpOK'
    BY <1>0, <1>4, <2>1 DEF OpOK, TrashOK
  <2>4. ASSUME NEW x \in Sessions PROVE SessOK(x)'
    BY <1>u, <1>4 DEF Records, SessOK, Listed, Idle
  <2> QED
    BY <1>u, <1>4, <2>2, <2>3, <2>4, RowsKept DEF Records
<1> QED
  BY <1>1, <1>3, <1>4

LEMMA RemoveRecords ==
    ASSUME Records, remove_archive, UNCHANGED births
    PROVE  Records'
<1>0. op.kind = "trash" /\ TrashOK /\ op.w \in Checkouts
  BY DEF remove_archive, Records, OpOK, TrashOK
<1>1. /\ UNCHANGED <<members, sess, att, runs, starting, root, objs, told, lost, strayed, asked, births>>
      /\ op' = Idle
      /\ \/ /\ tree' = [q \in DOMAIN tree |-> IF tree[q] = op.src THEN 0 ELSE tree[q]]
            /\ rows' = [rows EXCEPT ![op.w] = NoRow]
         \/ UNCHANGED <<tree, rows>>
  BY DEF remove_archive, history, forget_retired
<1>2. rows[op.w].st \in {"retired", "none"} /\ MemberOK(op.w)
  BY <1>0 DEF TrashOK, Records
<1>3. /\ rows' \in [Checkouts -> RowRecords]
      /\ \A v \in Checkouts : rows'[v] = rows[v] \/ (v = op.w /\ rows'[v] = NoRow)
  BY <1>0, <1>1 DEF Records, Typed, NoRow, RowRecords
<1>4. tree' \in [Roots \X Names -> 0..Len(objs')]
  <2>1. tree \in [Roots \X Names -> 0..Len(objs)] /\ objs' = objs /\ 0 \in 0..Len(objs)
    BY <1>1 DEF Records, Typed
  <2> QED
    BY <1>1, <2>1
<1>5. Typed'
  BY <1>1, <1>3, <1>4, IdleOK DEF Records, Typed
<1>6. ASSUME NEW v \in Checkouts PROVE RowOK(v)' /\ MemberOK(v)'
  <2>1. RowOK(v) /\ MemberOK(v)
    BY DEF Records
  <2>2. CASE v = op.w /\ rows'[v] = NoRow
    BY <1>1, <1>2, <2>2 DEF RowOK, MemberOK, Active, NoRow
  <2>3. CASE rows'[v] = rows[v]
    BY <1>1, <2>1, <2>3 DEF RowOK, MemberOK, Active, Listed
  <2> QED
    BY <1>3, <2>2, <2>3
<1>7. ASSUME NEW x \in Sessions PROVE SessOK(x)'
  BY <1>0, <1>1 DEF Records, SessOK, Listed, Idle
<1>8. Distinct'
  <2>1. \A v \in Checkouts : Active(v)' => Active(v) /\ rows'[v].name = rows[v].name
    BY <1>3 DEF Active, NoRow
  <2> QED
    BY <1>1, <2>1 DEF Records, Distinct
<1> QED
  BY <1>1, <1>5, <1>6, <1>7, <1>8, IdleOK DEF Records

LEMMA UserRecords ==
    ASSUME Records, UserActs, UNCHANGED births
    PROVE  Records'
<1>1. UNCHANGED <<rows, members, sess, att, runs, starting, op, told, lost, asked, births>>
  BY DEF UserActs, put, take_away, move, swap_root, Rest, db
<1>2. /\ objs \in Seq(ObjRecords) /\ Len(objs) \in Nat /\ root \in Roots
      /\ tree \in [Roots \X Names -> 0..Len(objs)]
  BY DEF Records, Typed
<1> DEFINE Changed ==
      /\ objs' \in Seq(ObjRecords) /\ root' \in Roots /\ tree' \in [Roots \X Names -> 0..Len(objs')]
      /\ DOMAIN objs \subseteq DOMAIN objs'
<1>3. Changed
  <2>1. ASSUME NEW n \in Paths \cup Stems, put(n)
        PROVE  Changed
    <3>1. PICK ino \in 1..(Len(objs) + 1) : Made(<<root, n>>, ino, User)
      BY <2>1 DEF put
    <3>2. [ino |-> ino, by |-> User, birth |-> IF births THEN Len(objs) + 1 ELSE 0] \in ObjRecords
      BY <1>2 DEF ObjRecords
    <3>3. objs' \in Seq(ObjRecords) /\ Len(objs') = Len(objs) + 1
      BY <1>2, <3>1, <3>2 DEF Made
    <3>4. tree' = [tree EXCEPT ![<<root, n>>] = Len(objs) + 1] /\ root' = root
      BY <3>1 DEF Made
    <3>5. (\A k \in 0..Len(objs) : k \in 0..Len(objs')) /\ Len(objs) + 1 \in 0..Len(objs')
      BY <1>2, <3>3
    <3>6. tree' \in [Roots \X Names -> 0..Len(objs')]
      BY <1>2, <3>4, <3>5
    <3> QED
      BY <1>2, <3>3, <3>4, <3>6
  <2>2. ASSUME NEW n \in Paths \cup Stems, take_away(n)
        PROVE  Changed
    <3>1. tree' = [tree EXCEPT ![<<root, n>>] = 0] /\ root' = root /\ objs' = objs /\ 0 \in 0..Len(objs)
      BY <1>2, <2>2 DEF take_away
    <3> QED
      BY <1>2, <3>1
  <2>3. ASSUME NEW n \in Names, NEW m \in Paths \cup Stems, move(n, m)
        PROVE  Changed
    <3>1. <<root, n>> \in Roots \X Names /\ objs' = objs /\ root' = root
          /\ tree' = [tree EXCEPT ![<<root, m>>] = tree[<<root, n>>], ![<<root, n>>] = 0]
      BY <1>2, <2>3 DEF move, Moved
    <3>2. tree[<<root, n>>] \in 0..Len(objs) /\ 0 \in 0..Len(objs)
      BY <1>2, <3>1
    <3> QED
      BY <1>2, <3>1, <3>2
  <2>4. ASSUME swap_root
        PROVE  Changed
    BY <1>2, <2>4 DEF swap_root
  <2> QED
    BY <2>1, <2>2, <2>3, <2>4 DEF UserActs
<1>4. Typed'
  BY <1>1, <1>3 DEF Records, Typed
<1>5. \A x \in Sessions : SessOK(x)'
  BY <1>1 DEF Records, SessOK, Listed
<1>6. OpOK'
  <2>1. OpOK
    BY DEF Records
  <2>2. op.kind = "create" => CreateOK'
    BY <1>1, <1>3, <2>1 DEF OpOK, CreateOK
  <2> QED
    BY <1>1, <2>1, <2>2 DEF OpOK, DeleteOK, StartupOK, TrashOK, MovingOK, Listed
<1> QED
  BY <1>1, <1>4, <1>5, <1>6, RowsKept DEF Records

LEMMA RecordsStep == Records /\ [Next]_<<vars, births>> => Records'
<1> SUFFICES ASSUME Records, [Next]_<<vars, births>> PROVE Records'
  OBVIOUS
<1>1. CASE UNCHANGED <<vars, births>>
  <2>1. UNCHANGED <<rows, members, sess, att, runs, starting, root, tree, objs, op, told, lost, strayed, asked, births>>
    BY <1>1 DEF vars
  <2>2. Typed'
    BY <2>1 DEF Records, Typed
  <2>3. OpOK'
    BY <2>1 DEF Records, OpOK, CreateOK, DeleteOK, StartupOK, TrashOK, MovingOK, Listed
  <2>4. \A x \in Sessions : SessOK(x)'
    BY <2>1 DEF Records, SessOK, Listed
  <2> QED
    BY <2>1, <2>2, <2>3, <2>4, RowsKept DEF Records
<1>2. ASSUME Create, UNCHANGED births PROVE Records'
  BY <1>2, InsertRecords, MkdirRecords, AllocateRecords, LaunchRecords, RetryRecords, ExistingRecords DEF Create
<1>3. ASSUME Restart, UNCHANGED births PROVE Records'
  BY <1>3, RestartRecords DEF Restart
<1>4. ASSUME Delete, UNCHANGED births PROVE Records'
  BY <1>4, SweepRecords, DecideRecords, CommitRecords, ReplyRecords DEF Delete
<1>5. ASSUME Trash, UNCHANGED births PROVE Records'
  BY <1>5, TrashRecords DEF Trash
<1> QED
  BY <1>1, <1>2, <1>3, <1>4, <1>5, ArchiveRecords, StartupRecords, DeleteStartRecords, RemoveRecords,
     CrashRecords, UserRecords DEF Next, Steps

\* What the database, the attachments and the operation hold, in every
\* reachable state: the invariant the rest is proved from.
THEOREM RecordsHold == Spec => []Records
<1> QED
  BY InitRecords, RecordsStep, PTL DEF Spec

\* Rows, members, sessions and attachments belong together, whichever step of
\* a create, a Delete or a startup failed or was cut.
THEOREM CopiesAreConsistent == Spec => []Consistent
<1>1. Records => Consistent
  <2> SUFFICES ASSUME Records PROVE Consistent
    OBVIOUS
  <2>1. TypeOK
    BY Apart DEF Records, Typed, RowOK, TypeOK, RowRecords
  <2>2. MembersHold
    BY DEF Records, MemberOK, MembersHold, Active
  <2>3. MembersAreSessions
    BY DEF Records, MemberOK, MembersAreSessions
  <2>4. AttachmentsKept
    BY DEF Records, SessOK, AttachmentsKept
  <2> QED
    BY <2>1, <2>2, <2>3, <2>4 DEF Consistent
<1> QED
  BY <1>1, RecordsHold, PTL

-----------------------------------------------------------------------------
(* Directories: what is where, and whose it is.                            *)

LEMMA InitDirectories == Init => Directories
<1> SUFFICES ASSUME Init PROVE Directories
  OBVIOUS
<1>1. objs = << >> /\ (\A q \in Spots : tree[q] = 0) /\ DOMAIN objs = {}
  BY DEF Init, Spots
<1>2. \A w, q : q \in Spots => ~Own(w, q)
  BY <1>1 DEF Own
<1>3. ObjectsOK
  BY <1>1 DEF ObjectsOK, Init, NoRow
<1>4. SeenOK
  BY DEF Init, SeenOK, Idle
<1> QED
  BY <1>2, <1>3, <1>4 DEF Directories, Places, SettledPlaces

\* What is known of the file system in every state.
LEMMA Shapes ==
    ASSUME Records
    PROVE  /\ objs \in Seq(ObjRecords) /\ Len(objs) \in Nat /\ DOMAIN objs = 1..Len(objs)
           /\ \A o \in DOMAIN objs : objs[o] \in ObjRecords
           /\ root \in Roots /\ births \in BOOLEAN
           /\ tree \in [Spots -> 0..Len(objs)]
           /\ \A q \in Spots : tree[q] # 0 => tree[q] \in DOMAIN objs
           /\ \A n \in Names : <<root, n>> \in Spots /\ At(n) = tree[<<root, n>>]
BY DEF Records, Typed, Spots, At

\* With creation times, a recorded identity is that of one object, which was
\* made for the row that records it.
LEMMA OneObject ==
    ASSUME Records, Directories, NEW w \in Checkouts,
           rows[w].st \in {"allocated", "pending", "retired"}, rows[w].id.birth # 0,
           NEW o \in DOMAIN objs, same_directory(o, rows[w].id)
    PROVE  /\ objs[o].by = w /\ Identity(o) = rows[w].id
           /\ \A q \in Spots : Own(w, q) => tree[q] = o
<1>1. PICK x \in DOMAIN objs : objs[x].by = w /\ Identity(x) = rows[w].id
  BY DEF Directories, ObjectsOK
<1>2. objs[x].birth = rows[w].id.birth /\ objs[x].birth = objs[o].birth
  BY <1>1 DEF Identity, same_directory
<1>3. births /\ \A y \in DOMAIN objs : objs[y].birth = y
  BY <1>2 DEF Directories, ObjectsOK
<1>4. x = o
  BY <1>2, <1>3
<1>5. ASSUME NEW q \in Spots, Own(w, q) PROVE tree[q] = o
  <2>1. Identity(tree[q]) = rows[w].id /\ tree[q] \in DOMAIN objs
    BY <1>5, Shapes DEF Directories, Places, PlaceOK, Own
  <2>a. objs[tree[q]].birth = rows[w].id.birth
    BY <2>1 DEF Identity
  <2>2. objs[tree[q]].birth = objs[o].birth
    BY <1>2, <2>a
  <2> QED
    BY <1>3, <2>1, <2>2
<1> QED
  BY <1>1, <1>4, <1>5

\* Steps that leave the file system and the rows alone.
LEMMA SameObjects ==
    ASSUME Records, Directories, UNCHANGED <<objs, tree, births>>,
           \A s \in Sessions : sess[s].origin \in Checkouts => sess'[s].origin = sess[s].origin,
           \A w \in Checkouts : rows'[w].st \in {"allocated", "pending", "retired"} =>
               rows[w].st \in {"allocated", "pending", "retired"} /\ rows'[w].id = rows[w].id
    PROVE  ObjectsOK'
<1>1. \A o \in DOMAIN objs : objs[o].by # User => objs[o].by \in Checkouts
  BY Shapes DEF ObjRecords
<1>2. \A o \in DOMAIN objs' : objs'[o].by # User => \E s \in Sessions : sess'[s].origin = objs'[o].by
  BY <1>1 DEF Directories, ObjectsOK
<1> QED
  BY <1>2 DEF Directories, ObjectsOK, Identity

\* The user alone strays directories; a step of Farhelm's own that moves none.
LEMMA SamePlaces ==
    ASSUME Records, Directories, UNCHANGED <<rows, root, tree, objs, strayed>>,
           told \cup lost \subseteq told' \cup lost',
           op.at = "reply" => op.notices \subseteq told' \cup lost'
    PROVE  Places' /\ \A w, q : Own(w, q)' <=> Own(w, q)
BY DEF Directories, Places, PlaceOK, Own, Identity

\* Steps at which no Delete settles anything, and no check is kept in mind.
LEMMA Elsewhere ==
    ASSUME op'.at \notin {"mkdir", "record", "journal", "rename", "sync", "remove"}
    PROVE  /\ SeenOK'
           /\ op'.kind # "delete" \/ op'.at \in {"sweep", "park", "reply"} => SettledPlaces'
BY DEF SeenOK, SettledPlaces, Moving

LEMMA InsertDirectories ==
    ASSUME Records, Directories, NEW s \in Sessions, NEW w \in Checkouts, NEW p \in Paths,
           insert_session_with_plan(s, w, p), UNCHANGED births
    PROVE  Directories'
<1>1. /\ UNCHANGED <<root, tree, objs, strayed, told, lost, births>> /\ op = Idle
      /\ op' = [Idle EXCEPT !.kind = "create", !.at = "mkdir", !.s = s, !.w = w]
  BY DEF insert_session_with_plan, fs, history
<1>2. /\ \A v \in Checkouts \ {w} : rows'[v] = rows[v]
      /\ rows'[w].st = "planned"
      /\ \A x \in Sessions \ {s} : sess'[x] = sess[x]
      /\ sess[s].st = "new" /\ \A x \in Sessions : sess[x].origin # w
  BY DEF insert_session_with_plan, Records, Typed, NoRow
<1>3. sess[s].origin = None
  BY <1>2 DEF Records, SessOK
<1>4. \A o \in DOMAIN objs : objs[o].by # w
  BY <1>2, Apart DEF Directories, ObjectsOK
<1>5. op'.kind = "create" /\ op'.at = "mkdir" /\ op'.w = w
  BY <1>1 DEF Idle
<1>6. ObjectsOK'
  BY <1>1, <1>2, <1>3, Apart, SameObjects
<1>7. \A v, q : Own(v, q)' <=> Own(v, q)
  BY <1>1 DEF Own
<1>8. \A q \in Spots : ~Own(w, q)
  BY <1>4, Shapes DEF Own
<1>9. Places'
  <2> SUFFICES ASSUME NEW v \in Checkouts, NEW q \in Spots, Own(v, q) PROVE PlaceOK(v, q)'
    BY <1>7 DEF Places
  <2>1. v # w /\ PlaceOK(v, q)
    BY <1>8 DEF Directories, Places
  <2> QED
    BY <1>1, <1>2, <1>5, <2>1 DEF PlaceOK, Idle, Identity
<1>10. SettledPlaces' /\ SeenOK'
  BY <1>5, <1>7, <1>8 DEF SettledPlaces, SeenOK
<1> QED
  BY <1>6, <1>9, <1>10 DEF Directories

\* A new directory at a free place: who owns what afterwards.
LEMMA Making ==
    ASSUME Records, Directories, NEW n \in Names, At(n) = 0, NEW ino \in Nat,
           NEW by \in Checkouts \cup {User}, Made(<<root, n>>, ino, by),
           UNCHANGED births, strayed' = strayed,
           \A s \in Sessions : sess'[s].origin = sess[s].origin,
           by # User => \E s \in Sessions : sess[s].origin = by,
           UNCHANGED rows
    PROVE  /\ ObjectsOK' /\ root' = root
           /\ DOMAIN objs' = 1..(Len(objs) + 1) /\ Len(objs) + 1 \notin DOMAIN objs
           /\ Len(objs) + 1 \in DOMAIN objs' /\ objs'[Len(objs) + 1].by = by
           /\ \A o \in DOMAIN objs : o \in DOMAIN objs' /\ objs'[o] = objs[o]
           /\ tree'[<<root, n>>] = Len(objs) + 1
           /\ \A q \in Spots : q # <<root, n>> => tree'[q] = tree[q]
           /\ \A w \in Checkouts, q \in Spots : Own(w, q)' =>
                  Own(w, q) \/ (w = by /\ q = <<root, n>>)
<1> DEFINE r == [ino |-> ino, by |-> by, birth |-> IF births THEN Len(objs) + 1 ELSE 0]
<1>s. /\ objs \in Seq(ObjRecords) /\ Len(objs) \in Nat /\ DOMAIN objs = 1..Len(objs)
      /\ \A o \in DOMAIN objs : objs[o] \in ObjRecords
      /\ root \in Roots /\ births \in BOOLEAN
      /\ tree \in [Spots -> 0..Len(objs)]
      /\ \A q \in Spots : tree[q] # 0 => tree[q] \in DOMAIN objs
      /\ <<root, n>> \in Spots /\ tree[<<root, n>>] = 0
  BY Shapes
<1>1. objs' = Append(objs, r) /\ tree' = [tree EXCEPT ![<<root, n>>] = Len(objs) + 1] /\ root' = root
  BY DEF Made
<1>2. r \in ObjRecords /\ r.by = by /\ r.birth = IF births THEN Len(objs) + 1 ELSE 0
  BY <1>s DEF ObjRecords
<1> HIDE DEF r
<1>3. /\ DOMAIN objs' = 1..(Len(objs) + 1) /\ objs'[Len(objs) + 1] = r
      /\ \A o \in DOMAIN objs : o \in DOMAIN objs' /\ objs'[o] = objs[o]
  BY <1>s, <1>1, <1>2
<1>4. Len(objs) + 1 \notin DOMAIN objs /\ Len(objs) + 1 \in 1..(Len(objs) + 1) /\ Len(objs) + 1 # 0
  BY <1>s
<1>5. tree'[<<root, n>>] = Len(objs) + 1 /\ \A q \in Spots : q # <<root, n>> => tree'[q] = tree[q]
  BY <1>s, <1>1
<1>6. \A o \in DOMAIN objs' : o \in DOMAIN objs \/ o = Len(objs) + 1
  BY <1>s, <1>3
<1>7. ObjectsOK'
  <2>1. \A o \in DOMAIN objs' : objs'[o].birth = IF births THEN o ELSE 0
    BY <1>2, <1>3, <1>6 DEF Directories, ObjectsOK
  <2>2. \A o \in DOMAIN objs' : objs'[o].by # User => \E s \in Sessions : sess'[s].origin = objs'[o].by
    BY <1>2, <1>3, <1>6 DEF Directories, ObjectsOK
  <2>3. \A q \in Spots, p \in Spots : tree'[q] = tree'[p] /\ tree'[q] # 0 => q = p
    <3>1. \A q \in Spots : q # <<root, n>> => tree'[q] # Len(objs) + 1
      BY <1>s, <1>4, <1>5
    <3> QED
      BY <1>4, <1>5, <3>1 DEF Directories, ObjectsOK
  <2>4. \A w \in Checkouts : rows'[w].st \in {"allocated", "pending", "retired"} =>
          \E o \in DOMAIN objs' : objs'[o].by = w /\ Identity(o)' = rows'[w].id
    <3> SUFFICES ASSUME NEW w \in Checkouts, rows[w].st \in {"allocated", "pending", "retired"}
                 PROVE  \E o \in DOMAIN objs' : objs'[o].by = w /\ Identity(o)' = rows[w].id
      OBVIOUS
    <3>1. PICK o \in DOMAIN objs : objs[o].by = w /\ Identity(o) = rows[w].id
      BY DEF Directories, ObjectsOK
    <3> QED
      BY <1>3, <3>1 DEF Identity
  <2> QED
    BY <2>1, <2>2, <2>3, <2>4 DEF ObjectsOK
<1>8. ASSUME NEW w \in Checkouts, NEW q \in Spots, Own(w, q)'
      PROVE  Own(w, q) \/ (w = by /\ q = <<root, n>>)
  <2>1. CASE q = <<root, n>>
    BY <1>2, <1>3, <1>5, <1>8, <2>1 DEF Own
  <2>2. CASE q # <<root, n>>
    BY <1>s, <1>3, <1>5, <1>8, <2>2 DEF Own
  <2> QED
    BY <2>1, <2>2
<1> QED
  BY <1>1, <1>2, <1>3, <1>4, <1>5, <1>7, <1>8

LEMMA MkdirDirectories ==
    ASSUME Records, Directories, mkdir, UNCHANGED births
    PROVE  Directories'
<1>0. /\ op.kind = "create" /\ op.at = "mkdir" /\ CreateOK /\ op.s \in Sessions /\ op.w \in Checkouts
      /\ op \in OpRecords /\ rows[op.w].st = "planned" /\ rows[op.w].name \in Names
      /\ sess[op.s].origin = op.w
  BY Named DEF mkdir, Records, OpOK, Typed, CreateOK
<1>1. \A q \in Spots : ~Own(op.w, q)
  BY <1>0 DEF Directories, SeenOK
<1>u. UNCHANGED <<told, lost, strayed, births>>
  BY DEF mkdir, history
<1>s. Len(objs) \in Nat
  BY Shapes
<1>2. CASE rollback_pre_mkdir_create /\ UNCHANGED fs
  <2>1. /\ rows' = [rows EXCEPT ![op.w] = NoRow] /\ sess' = [sess EXCEPT ![op.s].st = "gone"] /\ op' = Idle
        /\ UNCHANGED <<root, tree, objs>>
    BY <1>2 DEF rollback_pre_mkdir_create, fs
  <2>2. /\ rows'[op.w].st = "none" /\ \A v \in Checkouts \ {op.w} : rows'[v] = rows[v]
    BY <1>0, <2>1 DEF Records, Typed, NoRow
  <2>3. \A x \in Sessions : sess'[x].origin = sess[x].origin
    BY <1>0, <2>1, Outcomes DEF Records, Typed
  <2>4. ObjectsOK'
    BY <1>u, <2>1, <2>2, <2>3, SameObjects
  <2>5. Places'
    <3> SUFFICES ASSUME NEW v \in Checkouts, NEW q \in Spots, Own(v, q)' PROVE PlaceOK(v, q)'
      BY DEF Places
    <3>1. Own(v, q)
      BY <1>u, <2>1 DEF Own
    <3>2. v # op.w /\ PlaceOK(v, q)
      BY <1>1, <3>1 DEF Directories, Places
    <3> QED
      BY <1>0, <1>u, <2>1, <2>2, <3>2 DEF PlaceOK, Identity
  <2> QED
    BY <2>1, <2>4, <2>5, Elsewhere DEF Directories, Idle
<1>3. ASSUME verified_root(op.w), At(rows[op.w].name) = 0,
             Made(<<root, rows[op.w].name>>, Len(objs) + 1, op.w),
             UNCHANGED rows,
             \/ /\ op' = [op EXCEPT !.at = "record", !.src = Len(objs) + 1]
                /\ UNCHANGED sess
             \/ op' = Idle /\ sess' = [sess EXCEPT ![op.s].st = "error"]
      PROVE  Directories'
  <2>1. \A x \in Sessions : sess'[x].origin = sess[x].origin
    BY <1>0, <1>3, Outcomes DEF Records, Typed
  <2>2. /\ ObjectsOK' /\ root' = root
        /\ Len(objs) + 1 \in DOMAIN objs' /\ objs'[Len(objs) + 1].by = op.w
        /\ \A o \in DOMAIN objs : o \in DOMAIN objs' /\ objs'[o] = objs[o]
        /\ tree'[<<root, rows[op.w].name>>] = Len(objs) + 1
        /\ \A q \in Spots : q # <<root, rows[op.w].name>> => tree'[q] = tree[q]
        /\ \A w \in Checkouts, q \in Spots : Own(w, q)' =>
               Own(w, q) \/ (w = op.w /\ q = <<root, rows[op.w].name>>)
    BY <1>0, <1>u, <1>s, <1>3, <2>1, Making
  <2>3. \/ op' = Idle
        \/ op'.kind = "create" /\ op'.at = "record" /\ op'.w = op.w /\ op'.src = Len(objs) + 1
    BY <1>0, <1>3 DEF OpRecords
  <2>4. Places'
    <3> SUFFICES ASSUME NEW v \in Checkouts, NEW q \in Spots, Own(v, q)' PROVE PlaceOK(v, q)'
      BY DEF Places
    <3>1. CASE v = op.w
      <4>1. q = <<root, rows[op.w].name>>
        BY <1>1, <2>2, <3>1
      <4> QED
        BY <1>0, <1>3, <2>2, <3>1, <4>1 DEF PlaceOK, verified_root
    <3>2. CASE v # op.w
      <4>1. Own(v, q) /\ PlaceOK(v, q) /\ tree[q] \in DOMAIN objs
        BY <2>2, <3>2, Shapes DEF Directories, Places, Own
      <4>2. tree'[q] = tree[q] /\ Identity(tree[q])' = Identity(tree[q])
        <5>1. q # <<root, rows[op.w].name>>
          BY <1>0, <1>3, <4>1, Shapes DEF Own
        <5> QED
          BY <2>2, <4>1, <5>1 DEF Identity
      <4> QED
        BY <1>0, <1>u, <1>3, <2>2, <2>3, <4>1, <4>2 DEF PlaceOK, Idle
    <3> QED
      BY <3>1, <3>2
  <2>5. SettledPlaces' /\ SeenOK'
    <3>1. CASE op' = Idle
      BY <3>1, Elsewhere DEF Idle
    <3>2. CASE op'.kind = "create" /\ op'.at = "record" /\ op'.w = op.w /\ op'.src = Len(objs) + 1
      BY <1>0, <1>1, <2>2, <3>2 DEF SettledPlaces, SeenOK, SourceOK
    <3> QED
      BY <2>3, <3>1, <3>2
  <2> QED
    BY <2>2, <2>4, <2>5 DEF Directories
<1>4. CASE UNCHANGED fs /\ retain_create_refusal(op.s)
  <2>1. /\ UNCHANGED <<rows, root, tree, objs>> /\ op' = Idle /\ sess' = [sess EXCEPT ![op.s].st = "error"]
    BY <1>4 DEF retain_create_refusal, fs
  <2>2. \A x \in Sessions : sess'[x].origin = sess[x].origin
    BY <1>0, <2>1, Outcomes DEF Records, Typed
  <2>3. ObjectsOK' /\ Places'
    BY <1>0, <1>u, <2>1, <2>2, SameObjects, SamePlaces
  <2> QED
    BY <2>1, <2>3, Elsewhere DEF Directories, Idle
<1> QED
  BY <1>2, <1>3, <1>4 DEF mkdir, retain_create_refusal, db

LEMMA AllocateDirectories ==
    ASSUME Records, Directories, allocate, UNCHANGED births
    PROVE  Directories'
<1>0. /\ op.kind = "create" /\ op.at = "record" /\ CreateOK /\ op.s \in Sessions /\ op.w \in Checkouts
      /\ op \in OpRecords /\ rows[op.w].st = "planned" /\ rows[op.w] \in RowRecords
  BY DEF allocate, Records, OpOK, Typed, CreateOK
<1>1. SourceOK /\ \A q \in Spots : Own(op.w, q) => tree[q] = op.src
  BY <1>0 DEF Directories, SeenOK
<1>u. UNCHANGED <<root, tree, objs, told, lost, strayed, births>>
  BY DEF allocate, fs, history
<1>2. CASE /\ rows' = [rows EXCEPT ![op.w].st = "allocated", ![op.w].root = root,
                                   ![op.w].id = Identity(op.src)]
           /\ op' = [op EXCEPT !.at = "launch"] /\ UNCHANGED sess
  <2>1. op'.kind = "create" /\ op'.at = "launch"
    BY <1>0, <1>2 DEF OpRecords
  <2>2. /\ rows'[op.w].st = "allocated" /\ rows'[op.w].root = root /\ rows'[op.w].id = Identity(op.src)
        /\ rows'[op.w].name = rows[op.w].name
    BY <1>0, <1>2 DEF Records, Typed, RowRecords
  <2>3. \A v \in Checkouts \ {op.w} : rows'[v] = rows[v]
    BY <1>0, <1>2 DEF Records, Typed
  <2>4. ObjectsOK'
    <3>1. \A w \in Checkouts : rows'[w].st \in {"allocated", "pending", "retired"} =>
            \E o \in DOMAIN objs : objs[o].by = w /\ Identity(o) = rows'[w].id
      BY <1>0, <1>1, <2>2, <2>3 DEF Directories, ObjectsOK, SourceOK
    <3>2. \A o \in DOMAIN objs : Identity(o)' = Identity(o)
      BY <1>u DEF Identity
    <3>3. \A o \in DOMAIN objs' : objs'[o].by # User => \E x \in Sessions : sess'[x].origin = objs'[o].by
      BY <1>u, <1>2 DEF Directories, ObjectsOK
    <3>4. \A w \in Checkouts : rows'[w].st \in {"allocated", "pending", "retired"} =>
            \E o \in DOMAIN objs' : objs'[o].by = w /\ Identity(o)' = rows'[w].id
      BY <1>u, <3>1, <3>2
    <3> QED
      BY <1>u, <3>3, <3>4 DEF Directories, ObjectsOK
  <2>5. Places'
    <3> SUFFICES ASSUME NEW v \in Checkouts, NEW q \in Spots, Own(v, q)' PROVE PlaceOK(v, q)'
      BY DEF Places
    <3>1. Own(v, q) /\ PlaceOK(v, q)
      BY <1>u DEF Own, Directories, Places
    <3>2. CASE v = op.w
      BY <1>0, <1>1, <1>u, <2>2, <3>1, <3>2 DEF PlaceOK, Identity
    <3>3. CASE v # op.w
      BY <1>0, <1>u, <2>1, <2>3, <3>1, <3>3 DEF PlaceOK, Identity
    <3> QED
      BY <3>2, <3>3
  <2> QED
    BY <2>1, <2>4, <2>5, Elsewhere DEF Directories
<1>3. CASE retain_create_refusal(op.s)
  <2>1. /\ UNCHANGED rows /\ op' = Idle /\ sess' = [sess EXCEPT ![op.s].st = "error"]
    BY <1>3 DEF retain_create_refusal
  <2>2. \A x \in Sessions : sess'[x].origin = sess[x].origin
    BY <1>0, <2>1, Outcomes DEF Records, Typed
  <2>3. ObjectsOK' /\ Places'
    BY <1>0, <1>u, <2>1, <2>2, SameObjects, SamePlaces
  <2> QED
    BY <2>1, <2>3, Elsewhere DEF Directories, Idle
<1> QED
  BY <1>2, <1>3 DEF allocate

\* The steps that touch neither the file system nor a row, and after which
\* nothing a check saw is kept in mind.
LEMMA PlainDirectories ==
    ASSUME Records, Directories,
           UNCHANGED <<rows, root, tree, objs, told, lost, strayed, births>>,
           op.kind # "delete" \/ op.at # "reply",
           \A s \in Sessions : sess[s].origin \in Checkouts => sess'[s].origin = sess[s].origin,
           op'.at \notin {"mkdir", "record", "journal", "rename", "sync", "remove"},
           op'.kind # "delete" \/ op'.at \in {"sweep", "park", "reply"}
    PROVE  Directories'
<1>1. op.at # "reply"
  BY DEF Records, OpOK, CreateOK, StartupOK, TrashOK, Idle, Typed, OpRecords
<1> QED
  BY <1>1, SameObjects, SamePlaces, Elsewhere DEF Directories

LEMMA LaunchDirectories ==
    ASSUME Records, Directories, launch, UNCHANGED births
    PROVE  Directories'
<1>0. op.kind = "create" /\ op.s \in Sessions
  BY DEF launch, Records, OpOK, CreateOK
<1>1. /\ UNCHANGED <<rows, root, tree, objs, told, lost, strayed, births>> /\ op' = Idle
      /\ sess' = [sess EXCEPT ![op.s].st = "live"] \/ sess' = [sess EXCEPT ![op.s].st = "error"]
  BY DEF launch, fs, history, retain_create_refusal
<1>2. \A x \in Sessions : sess'[x].origin = sess[x].origin
  BY <1>0, <1>1, Outcomes DEF Records, Typed
<1> QED
  BY <1>0, <1>1, <1>2, PlainDirectories DEF Idle

LEMMA RetryDirectories ==
    ASSUME Records, Directories, NEW s \in Sessions, retry_create(s), UNCHANGED births
    PROVE  Directories'
<1>t. op = Idle /\ sess[s].st = "launching"
  BY DEF retry_create
<1>u. UNCHANGED <<rows, root, tree, objs, told, lost, strayed, births>>
  BY DEF retry_create, fs, history, db, retain_create_refusal
<1> DEFINE w == sess[s].origin
<1>1. CASE retain_create_refusal(s)
  <2>1. op' = Idle /\ sess' = [sess EXCEPT ![s].st = "error"]
    BY <1>1 DEF retain_create_refusal
  <2>2. \A x \in Sessions : sess'[x].origin = sess[x].origin
    BY <2>1, Outcomes DEF Records, Typed
  <2> QED
    BY <1>t, <1>u, <2>1, <2>2, PlainDirectories DEF Idle
<1>2. CASE UNCHANGED db /\ op' = [Idle EXCEPT !.kind = "create", !.at = "launch", !.s = s, !.w = w]
  BY <1>t, <1>u, <1>2, PlainDirectories DEF Idle, db
<1>3. CASE /\ rows[w].st = "planned" /\ At(rows[w].name) = 0 /\ UNCHANGED db
           /\ op' = [Idle EXCEPT !.kind = "create", !.at = "mkdir", !.s = s, !.w = w]
  <2>1. op'.kind = "create" /\ op'.at = "mkdir" /\ op'.w = w
    BY <1>3 DEF Idle
  <2>2. w \in Checkouts
    BY <1>t DEF Records, SessOK
  <2>3. \A q \in Spots : ~Own(w, q)
    BY <1>3, <2>2 DEF Directories, Places, PlaceOK, Own, At
  <2>4. Places' /\ ObjectsOK' /\ \A v, q : Own(v, q)' <=> Own(v, q)
    BY <1>t, <1>u, <1>3, SameObjects, SamePlaces DEF Idle, db
  <2> QED
    BY <2>1, <2>3, <2>4 DEF Directories, SettledPlaces, SeenOK
<1> QED
  BY <1>1, <1>2, <1>3 DEF retry_create

LEMMA ExistingDirectories ==
    ASSUME Records, Directories, NEW s \in Sessions, NEW n \in Names, create_existing(s, n), UNCHANGED births
    PROVE  Directories'
<1>1. /\ UNCHANGED <<rows, root, tree, objs, told, lost, strayed, births, op>> /\ op = Idle /\ sess[s].st = "new"
      /\ sess' = [sess EXCEPT ![s] = [st |-> "live", cwd |-> n, origin |-> None]]
  BY DEF create_existing, fs, history
<1>2. \A x \in Sessions : sess'[x].origin = sess[x].origin
  BY <1>1 DEF Records, SessOK, Typed
<1> QED
  BY <1>1, <1>2, PlainDirectories DEF Idle

LEMMA DeleteStartDirectories ==
    ASSUME Records, Directories, NEW s \in Sessions, delete_start(s), UNCHANGED births
    PROVE  Directories'
<1>1. /\ UNCHANGED <<rows, sess, root, tree, objs, told, lost, strayed, births>> /\ op = Idle
      /\ op' = [Idle EXCEPT !.kind = "delete", !.at = "sweep", !.s = s]
  BY DEF delete_start, fs, db
<1> QED
  BY <1>1, PlainDirectories DEF Idle

\* A restart changes nothing here.
LEMMA RestartDirectories ==
    ASSUME Records, Directories, NEW s \in Sessions, restart_check(s) \/ restart_launch(s), UNCHANGED births
    PROVE  Directories'
<1>1. UNCHANGED <<rows, members, sess, root, tree, objs, told, lost, strayed, births, op>>
  BY DEF restart_check, restart_launch, db, fs, history
<1> QED
  BY <1>1 DEF Directories, ObjectsOK, Places, SettledPlaces, SeenOK, PlaceOK, SettledOK, Own, SourceOK, Identity,
     At, InUse, Listed

LEMMA SweepDirectories ==
    ASSUME Records, Directories, delete_sweep \/ quarantine_session_dir, UNCHANGED births
    PROVE  Directories'
<1>0. op.kind = "delete" /\ op.at \in {"sweep", "park"} /\ DeleteOK /\ op \in OpRecords
  BY DEF delete_sweep, quarantine_session_dir, Records, OpOK, Typed
<1>u. UNCHANGED <<rows, members, sess, root, tree, objs, told, lost, strayed, births>>
  BY DEF delete_sweep, quarantine_session_dir, db, fs, history
<1>1. \/ op' = Idle \/ op' = [op EXCEPT !.at = "park"]
      \/ op' = [op EXCEPT !.at = "next", !.todo = {w \in Checkouts : op.s \in members[w]}]
  BY DEF delete_sweep, quarantine_session_dir
<1>2. CASE op' = Idle \/ op' = [op EXCEPT !.at = "park"]
  <2>1. op'.at \in {"idle", "park"} /\ op'.kind \in {"idle", "delete"} /\ (op'.at = "idle" => op'.kind = "idle")
    BY <1>0, <1>2 DEF Idle, OpRecords
  <2> QED
    BY <1>0, <1>u, <2>1, PlainDirectories
<1>3. CASE op' = [op EXCEPT !.at = "next", !.todo = {w \in Checkouts : op.s \in members[w]}]
  <2>1. op'.at = "next" /\ op'.s = op.s /\ op'.todo = {w \in Checkouts : op.s \in members[w]}
    BY <1>0, <1>3 DEF OpRecords
  <2>2. ObjectsOK' /\ Places'
    BY <1>0, <1>u, SameObjects, SamePlaces
  <2>3. SettledPlaces'
    BY <1>u, <2>1 DEF SettledPlaces
  <2> QED
    BY <2>1, <2>2, <2>3, Elsewhere DEF Directories
<1> QED
  BY <1>1, <1>2, <1>3

\* A Delete that turns to the next checkout: what it settled stays settled,
\* and so is what it settles now.
LEMMA SettlesNext ==
    ASSUME Records, Directories, op.kind \in {"delete", "startup"}, op.at \in Moving \cup {"next"},
           NEW w \in op.todo, Dropped(w) \/ \E at \in Moving : Turned(w, at),
           members' = members,
           op.notices \subseteq op'.notices,
           op'.released = op.released \/ op'.released = op.released \cup {w},
           \A v \in Checkouts : v # w => /\ rows'[v] = rows[v]
                                         /\ \A q \in Spots : Own(v, q)' => Own(v, q),
           op.kind = "delete" /\ Dropped(w) /\ members[w] = {op.s} =>
               \A q \in Spots : Own(w, q)' => SettledOK(w, q)'
    PROVE  SettledPlaces'
<1> SUFFICES ASSUME op'.kind = "delete", NEW v \in Checkouts, v \notin op'.todo, NEW q \in Spots,
                    members'[v] = {op'.s}, Own(v, q)'
             PROVE  SettledOK(v, q)'
  BY DEF SettledPlaces
<1>1. op'.kind = op.kind /\ op'.s = op.s /\ (op'.todo = op.todo \/ (op'.todo = op.todo \ {w} /\ Dropped(w)))
  BY DEF Dropped, Turned
<1>2. CASE v = w
  BY <1>1, <1>2
<1>3. CASE v # w
  <2>1. v \notin op.todo /\ SettledOK(v, q)
    BY <1>1, <1>3 DEF Directories, SettledPlaces
  <2> QED
    BY <1>3, <2>1 DEF SettledOK
<1> QED
  BY <1>2, <1>3

\* Notices that name every place of a row.
LEMMA NamesIt ==
    ASSUME Records, NEW w \in Checkouts, NEW q \in Spots, PlaceOK(w, q),
           rows[w].st \in {"planned", "allocated", "pending"}
    PROVE  /\ q[2] \in Where(w)
           /\ rows[w].st # "pending" => q[2] = rows[w].name
<1>1. RowOK(w)
  BY DEF Records
<1>2. rows[w].st = "pending" => rows[w].dest # None
  BY <1>1 DEF RowOK
<1> QED
  BY <1>2 DEF PlaceOK, Where

LEMMA DecideDirectories ==
    ASSUME Records, Directories, decide, UNCHANGED births
    PROVE  Directories'
<1>0. op.kind = "delete" /\ op.at = "next" /\ DeleteOK /\ op \in OpRecords
  BY DEF decide, Records, OpOK, Typed
<1>u. UNCHANGED <<rows, members, sess, root, tree, objs, told, lost, strayed, births>>
  BY DEF decide, db, fs, history
<1>1. PICK w \in op.todo : w \in Checkouts /\ rows[w].st \notin {"none", "retired"} /\ Decision(w)
  BY Decided
<1>2. ObjectsOK' /\ Places' /\ \A v, q : Own(v, q)' <=> Own(v, q)
  BY <1>0, <1>u, SameObjects, SamePlaces
<1>3. w \notin op.released /\ RowOK(w) /\ rows[w] \in RowRecords
  BY <1>0, <1>1 DEF DeleteOK, Records, Typed
<1>4. rows[w].st \in {"planned", "allocated", "pending"}
  BY <1>1, <1>3 DEF RowRecords
<1>5. \A q \in Spots : Own(w, q) =>
        /\ PlaceOK(w, q) /\ q[2] \in Where(w)
        /\ rows[w].st # "pending" => q[2] = rows[w].name
  BY <1>1, <1>4, NamesIt DEF Directories, Places
<1>6. /\ Dropped(w) \/ \E at \in Moving : Turned(w, at)
      /\ op.notices \subseteq op'.notices
      /\ op'.released = op.released \/ op'.released = op.released \cup {w}
  BY <1>0, <1>1 DEF Decision, Skipped, GivenUp, Begins, Saying, Turned, Quietly, Moving
<1>7. ASSUME Dropped(w), members[w] = {op.s}, NEW q \in Spots, Own(w, q)'
      PROVE  SettledOK(w, q)'
  <2>0. Own(w, q) /\ PlaceOK(w, q) /\ q[2] \in Where(w) /\ (rows[w].st # "pending" => q[2] = rows[w].name)
    BY <1>2, <1>5, <1>7
  <2>1. CASE Skipped(w)
    <3>1. CASE rows[w].st = "planned"
      <4>1. At(rows[w].name) # 0
        BY <2>0, <3>1 DEF PlaceOK, Own, At
      <4>2. <<w, q[2]>> \in op'.notices
        BY <2>0, <2>1, <3>1, <4>1 DEF Skipped
      <4> QED
        BY <1>u, <3>1, <4>2 DEF SettledOK
    <3>2. CASE rows[w].st = "allocated" /\ verified_root(w) /\ At(rows[w].name) = 0
      BY <2>0, <3>2 DEF PlaceOK, Own, At, verified_root
    <3> QED
      BY <1>7, <2>1, <3>1, <3>2 DEF Skipped
  <2>2. CASE GivenUp(w, Where(w)) \/ (rows[w].st = "allocated" /\ GivenUp(w, {rows[w].name}))
    <3>1. w \in op'.released /\ <<w, q[2]>> \in op'.notices
      BY <1>0, <2>0, <2>2 DEF GivenUp, Saying
    <3> QED
      BY <3>1 DEF SettledOK
  <2>3. CASE Begins(w)
    BY <1>7, <2>3 DEF Begins, Turned, Dropped
  <2> QED
    BY <1>1, <2>1, <2>2, <2>3 DEF Decision
<1>8. SettledPlaces'
  BY <1>0, <1>u, <1>2, <1>6, <1>7, SettlesNext
<1>9. SeenOK'
  <2>1. CASE op'.at = "journal"
    <3>1. /\ Turned(w, "journal") /\ op'.src = At(rows[w].name) /\ rows[w].st = "allocated"
          /\ verified_root(w) /\ Matches(w)
          /\ ~creation_time_unconfirmed(At(rows[w].name), rows[w].id)
      BY <1>1, <2>1 DEF Decision, Skipped, GivenUp, Begins, Turned, Dropped
    <3>2. op'.src \in DOMAIN objs /\ rows[w].name \in Names /\ op'.src = tree[<<root, rows[w].name>>]
      BY <1>1, <3>1, Named, Shapes DEF Matches, At
    <3>3. rows[w].id.birth # 0 /\ same_directory(op'.src, rows[w].id)
      BY <3>1 DEF Matches, creation_time_unconfirmed, same_directory
    <3>4. objs[op'.src].by = w
      BY <1>1, <3>1, <3>2, <3>3, OneObject
    <3>5. \A q \in Spots : Own(w, q) => q = <<root, rows[w].name>>
      BY <3>1, <1>5 DEF PlaceOK, verified_root
    <3>6. op'.w = w
      BY <3>1 DEF Turned
    <3> QED
      BY <1>u, <1>2, <2>1, <3>1, <3>2, <3>4, <3>5, <3>6 DEF SeenOK, SourceOK, At
  <2>2. CASE op'.at # "journal"
    <3>1. op'.at \in {"next", "reconcile"}
      BY <1>1, <2>2 DEF Decision, Skipped, GivenUp, Begins, Turned, Dropped
    <3> QED
      BY <3>1, Elsewhere
  <2> QED
    BY <2>1, <2>2
<1> QED
  BY <1>2, <1>8, <1>9 DEF Directories

\* The rows and places after a step of the archive of op.w: the others' are as
\* they were, and its own directory is at the source or at the journaled name.
LEMMA ArchivePlaces ==
    ASSUME Records, Directories, op.at \in Moving, Others, NEW w, w = op.w,
           \A v \in Checkouts \ {w} : rows'[v] = rows[v],
           rows'[w].st \in {"allocated", "pending"}, rows'[w].name = rows[w].name,
           rows'[w].root = rows[w].root, rows'[w].id = rows[w].id,
           \A v \in Checkouts \ {w}, q \in Spots : Own(v, q)' => Own(v, q) /\ tree'[q] = tree[q],
           \A q \in Spots : Own(w, q)' => \E p \in Spots : Own(w, p) /\ tree'[q] = tree[p],
           \A q \in Spots : Own(w, q)' =>
               \/ q = <<rows[w].root, rows[w].name>>
               \/ rows'[w].st = "pending" /\ q = <<rows[w].root, rows'[w].dest>>
    PROVE  Places'
<1>0. w \in Checkouts /\ rows[w].st \in {"allocated", "pending"}
  BY InArchive
<1>u. UNCHANGED <<root, objs, told, lost>> /\ op.at # "reply"
  BY DEF Others, Moving
<1> SUFFICES ASSUME NEW v \in Checkouts, NEW q \in Spots, Own(v, q)' PROVE PlaceOK(v, q)'
  BY DEF Places
<1>1. CASE v = w
  <2>1. PICK p \in Spots : Own(w, p) /\ tree'[q] = tree[p]
    BY <1>1
  <2>2. Identity(tree[p]) = rows[w].id
    BY <1>0, <2>1 DEF Directories, Places, PlaceOK
  <2>3. Identity(tree[q])' = rows'[w].id
    BY <1>u, <2>1, <2>2 DEF Identity
  <2> QED
    BY <1>1, <2>3 DEF PlaceOK
<1>2. CASE v # w
  <2>1. PlaceOK(v, q) /\ tree'[q] = tree[q] /\ rows'[v] = rows[v]
    BY <1>2 DEF Directories, Places
  <2> QED
    BY <1>u, <2>1 DEF PlaceOK, Identity
<1> QED
  BY <1>1, <1>2

\* An archive that comes to an end, and what a Delete then says of it.
LEMMA ArchiveEnds ==
    ASSUME Records, Directories, op.at \in Moving, Others, ObjectsOK', Places', NEW w, w = op.w,
           \A v \in Checkouts \ {w} : rows'[v] = rows[v] /\ \A q \in Spots : Own(v, q)' => Own(v, q),
           NEW N, GivenUp(w, N) \/ (Dropped(w) /\ Quietly),
           op.kind = "delete" =>
               \/ GivenUp(w, N) /\ \A q \in Spots : Own(w, q)' => q[2] \in N
               \/ /\ Quietly /\ rows'[w].st = "pending"
                  /\ \A q \in Spots : Own(w, q)' => q = <<rows'[w].root, rows'[w].dest>>
    PROVE  Directories'
<1>0. /\ op.kind \in {"delete", "startup"} /\ w \in op.todo /\ w \in Checkouts
      /\ op.kind = "delete" => op.released \cap op.todo = {}
  BY InArchive DEF DeleteOK
<1>1. /\ Dropped(w) /\ op.notices \subseteq op'.notices
      /\ op'.released = op.released \/ op'.released = op.released \cup {w}
  BY DEF GivenUp, Saying, Quietly
<1>2. ASSUME op.kind = "delete", NEW q \in Spots, Own(w, q)' PROVE SettledOK(w, q)'
  <2>1. CASE GivenUp(w, N) /\ q[2] \in N
    BY <1>2, <2>1 DEF GivenUp, Saying, SettledOK
  <2>2. CASE Quietly /\ rows'[w].st = "pending" /\ q = <<rows'[w].root, rows'[w].dest>>
    BY <1>0, <1>2, <2>2 DEF Quietly, SettledOK
  <2> QED
    BY <1>2, <2>1, <2>2
<1>3. members' = members
  BY DEF Others
<1>4. SettledPlaces'
  BY <1>0, <1>1, <1>2, <1>3, SettlesNext
<1>5. SeenOK'
  BY <1>1, Elsewhere DEF Dropped
<1> QED
  BY <1>4, <1>5 DEF Directories

\* An archive that goes on, with what the next step relies on.
LEMMA ArchiveGoesOn ==
    ASSUME Records, Directories, op.at \in Moving, Others, ObjectsOK', Places', NEW w, w = op.w,
           \A v \in Checkouts \ {w} : rows'[v] = rows[v] /\ \A q \in Spots : Own(v, q)' => Own(v, q),
           NEW at \in Moving, Turned(w, at), SeenOK'
    PROVE  Directories'
<1>0. /\ op.kind \in {"delete", "startup"} /\ w \in op.todo /\ w \in Checkouts
  BY InArchive
<1>1. /\ op.notices \subseteq op'.notices /\ op'.released = op.released /\ ~Dropped(w) /\ members' = members
  BY DEF Turned, Quietly, Dropped, Moving, Others
<1>4. SettledPlaces'
  BY <1>0, <1>1, SettlesNext
<1> QED
  BY <1>4 DEF Directories

\* A directory that is renamed to a free place: nothing else moves.
LEMMA Relocated ==
    ASSUME Records, Directories, NEW from \in Spots, NEW to \in Spots, tree[from] # 0, tree[to] = 0,
           Moved(from, to), UNCHANGED <<objs, births, sess, rows>>
    PROVE  /\ ObjectsOK' /\ from # to
           /\ tree'[to] = tree[from] /\ tree'[from] = 0
           /\ \A q \in Spots : q # from /\ q # to => tree'[q] = tree[q]
<1>1. from # to /\ tree' = [tree EXCEPT ![to] = tree[from], ![from] = 0] /\ tree \in [Spots -> 0..Len(objs)]
  BY Shapes DEF Moved
<1>2. /\ tree'[to] = tree[from] /\ tree'[from] = 0
      /\ \A q \in Spots : q # from /\ q # to => tree'[q] = tree[q]
  BY <1>1
<1>3. \A q \in Spots, p \in Spots : tree'[q] = tree'[p] /\ tree'[q] # 0 => q = p
  <2> SUFFICES ASSUME NEW q \in Spots, NEW p \in Spots, tree'[q] = tree'[p], tree'[q] # 0 PROVE q = p
    OBVIOUS
  <2>1. q # from /\ p # from
    BY <1>2
  <2>2. \A x \in Spots, y \in Spots : tree[x] = tree[y] /\ tree[x] # 0 => x = y
    BY DEF Directories, ObjectsOK
  <2>3. CASE q = to
    BY <1>2, <2>1, <2>2, <2>3
  <2>4. CASE q # to
    BY <1>2, <2>1, <2>2, <2>4
  <2> QED
    BY <2>3, <2>4
<1>4. ObjectsOK'
  BY <1>3 DEF Directories, ObjectsOK, Identity
<1> QED
  BY <1>1, <1>2, <1>4

LEMMA ArchiveDirectories ==
    ASSUME Records, Directories, Archive, UNCHANGED births
    PROVE  Directories'
<1>0. op.at \in Moving /\ Others /\ ((UNCHANGED tree /\ (Filed \/ Reconciled \/ Synced)) \/ Renamed)
  BY Archived_step
<1>1. PICK w \in Checkouts : w = op.w
  BY <1>0, InArchive
<1>2. /\ MovingOK /\ RowOK(w) /\ rows[w].st \in {"allocated", "pending"} /\ rows[w].name \in Paths
      /\ rows[w].root \in Roots /\ rows[w] \in RowRecords
      /\ op.kind = "startup" => op.at # "journal"
  BY <1>0, <1>1, InArchive
<1>3. /\ rows[w].st = IF op.at = "journal" THEN "allocated" ELSE "pending"
      /\ rows[w].id.birth # 0
      /\ rows[w].st = "pending" => rows[w].dest \in Stems \cup Fresh
  BY <1>1, <1>2, Apart DEF MovingOK, RowOK, RowRecords
<1>4. rows[w].name # rows[w].dest
  BY <1>2, <1>3, Apart DEF RowOK
<1>u. UNCHANGED <<members, sess, root, objs, told, lost, strayed, births>>
  BY <1>0 DEF Others
<1>5. \A q \in Spots : Own(w, q) =>
        /\ PlaceOK(w, q) /\ q[2] \in Where(w)
        /\ rows[w].st # "pending" => q[2] = rows[w].name
  BY <1>2, NamesIt DEF Directories, Places
<1>6. op.at \in {"journal", "rename"} =>
        \A q \in Spots : Own(w, q) => q = <<root, rows[w].name>> /\ q = <<rows[w].root, rows[w].name>>
  <2> SUFFICES ASSUME op.at \in {"journal", "rename"}, NEW q \in Spots, Own(w, q)
               PROVE  q = <<root, rows[w].name>> /\ q = <<rows[w].root, rows[w].name>>
    OBVIOUS
  <2>1. q = <<root, rows[w].name>>
    BY <1>1 DEF Directories, SeenOK
  <2>2. q = <<rows[w].root, rows[w].name>> \/ q = <<rows[w].root, rows[w].dest>>
    BY <1>2, <1>5 DEF PlaceOK
  <2> QED
    BY <1>4, <2>1, <2>2
\* Nothing moves.
<1>7. ASSUME UNCHANGED tree, UNCHANGED rows \/ \E n : Journaled(n)
      PROVE  /\ ObjectsOK' /\ \A v, q : Own(v, q)' <=> Own(v, q)
             /\ \A v \in Checkouts \ {w} : rows'[v] = rows[v]
             /\ rows'[w].st \in {"allocated", "pending"} /\ rows'[w].name = rows[w].name
             /\ rows'[w].root = rows[w].root /\ rows'[w].id = rows[w].id
  <2>1. /\ \A v \in Checkouts \ {w} : rows'[v] = rows[v]
        /\ rows'[w].st \in {"allocated", "pending"} /\ rows'[w].name = rows[w].name
        /\ rows'[w].root = rows[w].root /\ rows'[w].id = rows[w].id
    BY <1>1, <1>2, <1>7 DEF Journaled
  <2>2. \A v \in Checkouts : rows'[v].st \in {"allocated", "pending", "retired"} =>
           rows[v].st \in {"allocated", "pending", "retired"} /\ rows'[v].id = rows[v].id
    BY <1>2, <2>1
  <2>3. ObjectsOK'
    BY <1>u, <1>7, <2>2, SameObjects
  <2> QED
    BY <1>u, <1>7, <2>1, <2>3 DEF Own
<1>8. ASSUME UNCHANGED <<tree, rows>>, GivenUp(op.w, Where(op.w)) PROVE Directories'
  <2>1. Places'
    <3>1. \A q \in Spots : Own(w, q) =>
             \/ q = <<rows[w].root, rows[w].name>>
             \/ rows[w].st = "pending" /\ q = <<rows[w].root, rows[w].dest>>
      BY <1>2, <1>5 DEF PlaceOK
    <3> QED
      BY <1>0, <1>1, <1>7, <1>8, <3>1, ArchivePlaces
  <2>2. PICK N : N = Where(w)
    OBVIOUS
  <2>3. GivenUp(w, N)
    BY <1>1, <1>8, <2>2
  <2>4. \A q \in Spots : Own(w, q)' => q[2] \in N
    BY <1>5, <1>7, <1>8, <2>2
  <2> QED
    BY <1>0, <1>1, <1>7, <1>8, <2>1, <2>3, <2>4, ArchiveEnds
\* The source is what was checked, and the row has a journal.
<1>9. ASSUME UNCHANGED tree, UNCHANGED rows \/ \E n : Journaled(n), rows'[w].st = "pending",
             \A q \in Spots : Own(w, q) => q = <<root, rows[w].name>> /\ q = <<rows[w].root, rows[w].name>>,
             Turned(op.w, "rename"), op'.src \in DOMAIN objs, objs[op'.src].by = w,
             At(rows[w].name) # 0 =>
                 \/ At(rows[w].name) = op'.src \/ At(rows[w].name) \in strayed
                 \/ objs[At(rows[w].name)].by = User
      PROVE  Directories'
  <2>1. Places'
    BY <1>0, <1>1, <1>7, <1>9, ArchivePlaces
  <2>2. Turned(w, "rename") /\ op'.w = w /\ op'.at = "rename"
    BY <1>1, <1>9 DEF Turned
  <2>3. SeenOK'
    <3>1. \A q \in Spots : Own(w, q)' => q = <<root, rows[w].name>>
      BY <1>7, <1>9
    <3>2. At(rows[w].name)' = At(rows[w].name)
      BY <1>u, <1>7, <1>9 DEF At
    <3>3. rows'[w].name = rows[w].name
      BY <1>7, <1>9
    <3>4. SourceOK'
      BY <1>u, <1>9, <2>2 DEF SourceOK
    <3>5. (At(rows[w].name) # 0 =>
               \/ At(rows[w].name) = op.src \/ At(rows[w].name) \in strayed
               \/ objs[At(rows[w].name)].by = User)'
      BY <1>u, <1>9, <3>2
    <3> QED
      BY <1>u, <2>2, <3>1, <3>3, <3>4, <3>5 DEF SeenOK
  <2> QED
    BY <1>0, <1>1, <1>7, <1>9, <2>1, <2>2, <2>3, ArchiveGoesOn DEF Moving
<1>10. ASSUME op.at \in {"journal", "rename"}, UNCHANGED tree, NEW n \in Stems \cup Fresh, Journaled(n),
              Turned(op.w, "rename"), op'.src = op.src
       PROVE  Directories'
  <2>1. rows'[w].st = "pending"
    BY <1>1, <1>10, Apart DEF Journaled
  <2>2. /\ op.src \in DOMAIN objs /\ objs[op.src].by = w
        /\ At(rows[w].name) # 0 =>
               \/ At(rows[w].name) = op.src \/ At(rows[w].name) \in strayed
               \/ objs[At(rows[w].name)].by = User
    BY <1>1, <1>10 DEF Directories, SeenOK, SourceOK
  <2> QED
    BY <1>6, <1>9, <1>10, <2>1, <2>2
<1>11. CASE UNCHANGED tree /\ Filed
  BY <1>8, <1>10, <1>11 DEF Filed
<1>12. CASE UNCHANGED tree /\ Synced
  <2>1. op.at = "sync" /\ UNCHANGED rows /\ ((Dropped(w) /\ Quietly) \/ GivenUp(op.w, Where(op.w)))
    BY <1>1, <1>12 DEF Synced
  <2>2. CASE Dropped(w) /\ Quietly
    <3>1. rows[w].st = "pending"
      BY <1>3, <2>1
    <3>2. \A q \in Spots : Own(w, q) => q = <<rows[w].root, rows[w].dest>>
      BY <1>1, <2>1 DEF Directories, SeenOK
    <3>3. Places'
      BY <1>0, <1>1, <1>7, <1>12, <2>1, <3>1, <3>2, ArchivePlaces
    <3> QED
      BY <1>0, <1>1, <1>7, <1>12, <2>1, <2>2, <3>1, <3>2, <3>3, ArchiveEnds
  <2> QED
    BY <1>8, <1>12, <2>1, <2>2
<1>13. CASE UNCHANGED tree /\ Reconciled
  <2>0. op.at = "reconcile" /\ rows[w].st = "pending" /\ rows[w].dest \in Names /\ rows[w].name \in Names
    BY <1>2, <1>3, <1>13, Apart DEF Reconciled
  <2>1. CASE /\ verified_root(op.w) /\ At(rows[op.w].dest) # 0
             /\ same_directory(At(rows[op.w].dest), rows[op.w].id)
             /\ Turned(op.w, "sync") /\ UNCHANGED rows
    <3>1. At(rows[w].dest) \in DOMAIN objs /\ At(rows[w].dest) = tree[<<root, rows[w].dest>>]
          /\ <<root, rows[w].dest>> \in Spots
      BY <1>1, <2>0, <2>1, Shapes
    <3>2. \A q \in Spots : Own(w, q) => tree[q] = tree[<<root, rows[w].dest>>]
      BY <1>1, <1>2, <1>3, <2>1, <3>1, OneObject
    <3>3. \A q \in Spots : Own(w, q) => q = <<rows[w].root, rows[w].dest>>
      BY <1>1, <2>1, <3>1, <3>2 DEF Directories, ObjectsOK, Own, verified_root
    <3>4. Places'
      BY <1>0, <1>1, <1>7, <1>13, <2>0, <2>1, <3>3, ArchivePlaces
    <3>5. Turned(w, "sync") /\ op'.at = "sync" /\ op'.w = w
      BY <1>1, <2>1 DEF Turned
    <3>6. SeenOK'
      BY <1>7, <1>13, <2>1, <3>3, <3>5 DEF SeenOK
    <3> QED
      BY <1>0, <1>1, <1>7, <1>13, <2>1, <3>4, <3>5, <3>6, ArchiveGoesOn DEF Moving
  <2>2. CASE /\ verified_root(op.w) /\ Matches(op.w)
             /\ Turned(op.w, "rename") /\ op'.src = At(rows[op.w].name)
             /\ \/ UNCHANGED rows
                \/ \E n \in Unused : Journaled(n)
    <3>1. At(rows[w].name) \in DOMAIN objs /\ At(rows[w].name) = tree[<<root, rows[w].name>>]
          /\ <<root, rows[w].name>> \in Spots
      BY <1>1, <2>0, <2>2, Shapes DEF Matches
    <3>2. objs[At(rows[w].name)].by = w /\ \A q \in Spots : Own(w, q) => tree[q] = tree[<<root, rows[w].name>>]
      BY <1>1, <1>2, <1>3, <2>2, <3>1, OneObject DEF Matches
    <3>3. \A q \in Spots : Own(w, q) => q = <<root, rows[w].name>> /\ q = <<rows[w].root, rows[w].name>>
      BY <1>1, <2>2, <3>1, <3>2 DEF Directories, ObjectsOK, Own, verified_root
    <3>4. rows'[w].st = "pending"
      <4>1. Unused \subseteq Stems \cup Fresh
        BY DEF Unused
      <4> QED
        BY <1>1, <2>0, <2>2, <4>1, Apart DEF Journaled
    <3> QED
      BY <1>1, <1>9, <1>13, <2>2, <3>1, <3>2, <3>3, <3>4
  <2>3. CASE /\ verified_root(op.w) /\ At(rows[op.w].name) = 0 /\ At(rows[op.w].dest) = 0
             /\ Dropped(op.w) /\ Quietly /\ UNCHANGED rows
    <3>1. \A q \in Spots : ~Own(w, q)
      BY <1>1, <1>5, <2>0, <2>3 DEF PlaceOK, verified_root, At, Own
    <3>2. Dropped(w)
      BY <1>1, <2>3
    <3>3. Places'
      BY <1>0, <1>1, <1>7, <1>13, <2>3, <3>1, ArchivePlaces
    <3> QED
      BY <1>0, <1>1, <1>7, <1>13, <2>0, <2>3, <3>1, <3>2, <3>3, ArchiveEnds
  <2> QED
    BY <1>8, <1>13, <2>1, <2>2, <2>3 DEF Reconciled
<1>14. CASE Renamed
  <2>0. op.at = "rename" /\ rows[w].st = "pending" /\ rows[w].dest \in Names /\ rows[w].name \in Names
    BY <1>2, <1>3, <1>14, Apart DEF Renamed
  <2>1. CASE /\ tree[From] # 0 /\ tree[To] = 0 /\ Moved(From, To) /\ UNCHANGED rows
             /\ Turned(op.w, "sync") \/ GivenUp(op.w, Where(op.w))
    <3>1. From = <<root, rows[w].name>> /\ To = <<root, rows[w].dest>> /\ From \in Spots /\ To \in Spots
      BY <1>1, <2>0, Shapes DEF From, To
    <3>2. PICK f \in Spots, t \in Spots : f = From /\ t = To
      BY <3>1
    <3>3. tree[f] # 0 /\ tree[t] = 0 /\ Moved(f, t)
      BY <2>1, <3>2
    <3>4. /\ ObjectsOK' /\ f # t /\ tree'[t] = tree[f] /\ tree'[f] = 0
          /\ \A q \in Spots : q # f /\ q # t => tree'[q] = tree[q]
      BY <1>u, <2>1, <3>3, Relocated
    <3>5. /\ tree[f] = op.src \/ tree[f] \in strayed \/ objs[tree[f]].by = User
          /\ objs[op.src].by = w
      <4>1. tree[f] = At(rows[op.w].name)
        BY <1>1, <3>1, <3>2 DEF At
      <4> QED
        BY <1>1, <2>0, <3>3, <4>1 DEF Directories, SeenOK, SourceOK
    <3>6. ASSUME NEW v \in Checkouts \ {w}, NEW q \in Spots, Own(v, q)' PROVE Own(v, q) /\ tree'[q] = tree[q]
      <4>1. q # f /\ q # t
        BY <1>u, <3>4, <3>5, <3>6, Apart DEF Own
      <4> QED
        BY <1>u, <3>4, <3>6, <4>1 DEF Own
    <3>7. ASSUME NEW q \in Spots, Own(w, q)'
          PROVE  q = t /\ Own(w, f) /\ tree'[q] = tree[f]
      <4>1. CASE q = t
        BY <1>u, <3>4, <3>7, <4>1 DEF Own
      <4>2. CASE q # t
        <5>1. q # f /\ Own(w, q)
          BY <1>u, <3>4, <3>7, <4>2 DEF Own
        <5> QED
          BY <1>6, <2>0, <3>1, <3>2, <5>1
      <4> QED
        BY <4>1, <4>2
    <3>8. \A q \in Spots : Own(w, q)' => q = <<rows[w].root, rows[w].dest>> /\ q[2] = rows[w].dest
      <4>1. Own(w, f) => f = <<root, rows[w].name>> /\ f = <<rows[w].root, rows[w].name>>
        BY <1>6, <2>0
      <4>2. Own(w, f) => root = rows[w].root
        BY <4>1
      <4> QED
        BY <3>1, <3>2, <3>7, <4>2
    <3>9. Places'
      BY <1>0, <1>1, <1>2, <2>0, <2>1, <3>6, <3>7, <3>8, ArchivePlaces
    <3>10. CASE Turned(op.w, "sync")
      <4>1. Turned(w, "sync") /\ op'.at = "sync" /\ op'.w = w
        BY <1>1, <3>10 DEF Turned
      <4>2. SeenOK'
        BY <2>1, <3>8, <4>1 DEF SeenOK
      <4> QED
        BY <1>0, <1>1, <2>1, <3>4, <3>6, <3>9, <4>1, <4>2, ArchiveGoesOn DEF Moving
    <3>11. CASE GivenUp(op.w, Where(op.w))
      <4>1. PICK N : N = Where(w)
        OBVIOUS
      <4>2. GivenUp(w, N)
        BY <1>1, <3>11, <4>1
      <4>3. \A q \in Spots : Own(w, q)' => q[2] \in N
        BY <1>3, <2>0, <3>8, <4>1, Apart DEF Where
      <4> QED
        BY <1>0, <1>1, <2>1, <3>4, <3>6, <3>9, <4>2, <4>3, ArchiveEnds
    <3> QED
      BY <2>1, <3>10, <3>11
  <2>2. CASE UNCHANGED tree /\ \E n \in Unused : Journaled(n) /\ Turned(op.w, "rename") /\ op'.src = op.src
    <3>1. Unused \subseteq Stems \cup Fresh
      BY DEF Unused
    <3> QED
      BY <1>10, <2>0, <2>2, <3>1
  <2>3. CASE UNCHANGED <<tree, rows>> /\ GivenUp(op.w, Where(op.w))
    BY <1>8, <2>3
  <2>4. CASE UNCHANGED tree /\ Journaled(None) /\ GivenUp(op.w, {rows[op.w].name})
    <3>1. \A q \in Spots : Own(w, q) => q = <<rows[w].root, rows[w].name>> /\ q[2] = rows[w].name
      BY <1>6, <2>0
    <3>2. Places'
      BY <1>0, <1>1, <1>7, <2>4, <3>1, ArchivePlaces
    <3>3. PICK N : N = {rows[w].name}
      OBVIOUS
    <3>4. GivenUp(w, N)
      BY <1>1, <2>4, <3>3
    <3>5. \A q \in Spots : Own(w, q)' => q[2] \in N
      BY <1>7, <2>4, <3>1, <3>3
    <3> QED
      BY <1>0, <1>1, <1>7, <2>4, <3>2, <3>4, <3>5, ArchiveEnds
  <2> QED
    BY <1>14, <2>1, <2>2, <2>3, <2>4 DEF Renamed
<1> QED
  BY <1>0, <1>11, <1>12, <1>13, <1>14

LEMMA CommitDirectories ==
    ASSUME Records, Directories, delete_session_archiving_memberships, UNCHANGED births
    PROVE  Directories'
<1>0. /\ op.kind = "delete" /\ op.at = "next" /\ op.todo = {} /\ op \in OpRecords /\ op.s \in Sessions
  BY DEF delete_session_archiving_memberships, Records, OpOK, Typed, DeleteOK
<1>t. sess \in [Sessions -> SessRecords] /\ rows \in [Checkouts -> RowRecords]
  BY DEF Records, Typed
<1>u. UNCHANGED <<root, tree, objs, told, lost, strayed, births>>
  BY DEF delete_session_archiving_memberships, fs, history
<1> DEFINE last == {w \in Checkouts : members[w] = {op.s} /\ Active(w)}
<1>1. CASE op' = Idle /\ UNCHANGED db
  BY <1>0, <1>u, <1>1, PlainDirectories DEF Idle, db
<1>2. CASE /\ rows' = [w \in Checkouts |-> IF w \in last THEN Settled(w) ELSE rows[w]]
           /\ sess' = [sess EXCEPT ![op.s].st = "gone"]
           /\ op' = [op EXCEPT !.at = "reply", !.released = {},
                       !.notices = @ \cup {<<w, rows[w].name>> : w \in {v \in last : Late(v)}}]
  <2>1. \A x \in Sessions : sess'[x].origin = sess[x].origin
    BY <1>0, <1>t, <1>2, Outcomes
  <2>2. op'.at = "reply" /\ op.notices \subseteq op'.notices
    BY <1>0, <1>2 DEF OpRecords
  <2>3. ASSUME NEW w \in Checkouts
        PROVE  \/ rows'[w] = rows[w] /\ w \notin last
               \/ w \in last /\ rows'[w].st = "none"
                  /\ (w \in op.released \/ rows[w].st # "pending")
               \/ /\ w \in last /\ rows[w].st = "pending" /\ rows'[w].st = "retired" /\ w \notin op.released
                  /\ rows'[w].root = rows[w].root /\ rows'[w].id = rows[w].id /\ rows'[w].dest = rows[w].dest
    <3>1. rows'[w] = IF w \in last THEN Settled(w) ELSE rows[w]
      BY <1>2
    <3> QED
      BY <1>t, <3>1 DEF Settled, NoRow, RowRecords
  <2>4. ObjectsOK'
    <3>1. \A w \in Checkouts : rows'[w].st \in {"allocated", "pending", "retired"} =>
             rows[w].st \in {"allocated", "pending", "retired"} /\ rows'[w].id = rows[w].id
      BY <2>3
    <3> QED
      BY <1>u, <2>1, <3>1, SameObjects
  <2>5. Places'
    <3> SUFFICES ASSUME NEW v \in Checkouts, NEW q \in Spots, Own(v, q)' PROVE PlaceOK(v, q)'
      BY DEF Places
    <3>1. Own(v, q) /\ PlaceOK(v, q) /\ Identity(tree[q])' = Identity(tree[q])
      BY <1>u DEF Own, Directories, Places, Identity
    <3>2. CASE v \notin last
      BY <1>0, <1>u, <2>3, <3>1, <3>2 DEF PlaceOK
    <3>3. CASE v \in last
      <4>1. SettledOK(v, q)
        BY <1>0, <3>1, <3>3 DEF Directories, SettledPlaces
      <4>2. rows'[v].st = "none" => <<v, q[2]>> \in op'.notices
        BY <2>2, <2>3, <3>3, <4>1 DEF SettledOK
      <4>3. rows'[v].st = "retired" => q = <<rows[v].root, rows[v].dest>>
        BY <2>3, <3>3, <4>1 DEF SettledOK
      <4> QED
        BY <1>u, <2>2, <2>3, <3>1, <3>3, <4>2, <4>3 DEF PlaceOK
    <3> QED
      BY <3>2, <3>3
  <2> QED
    BY <2>2, <2>4, <2>5, Elsewhere DEF Directories
<1> QED
  BY <1>1, <1>2 DEF delete_session_archiving_memberships

LEMMA ReplyDirectories ==
    ASSUME Records, Directories, discard_and_reply, UNCHANGED births
    PROVE  Directories'
<1>1. /\ UNCHANGED <<rows, members, sess, root, tree, objs, lost, strayed, births>>
      /\ told' = told \cup op.notices /\ op' = Idle
  BY DEF discard_and_reply, db, fs
<1>2. ObjectsOK' /\ Places'
  BY <1>1, SameObjects, SamePlaces
<1> QED
  BY <1>1, <1>2, Elsewhere DEF Directories, Idle

LEMMA CrashDirectories ==
    ASSUME Records, Directories, crash, UNCHANGED births
    PROVE  Directories'
<1>1. /\ UNCHANGED <<rows, members, sess, root, tree, objs, told, strayed, births>>
      /\ lost' = lost \cup op.notices /\ op'.kind = "startup" /\ op'.at = "next"
  BY DEF crash, db, fs, Idle
<1>2. ObjectsOK' /\ Places'
  BY <1>1, SameObjects, SamePlaces
<1> QED
  BY <1>1, <1>2, Elsewhere DEF Directories, SettledPlaces

LEMMA StartupDirectories ==
    ASSUME Records, Directories, Startup, UNCHANGED births
    PROVE  Directories'
<1>0. op.kind = "startup" /\ op.at = "next" /\ op \in OpRecords
  BY DEF Startup, startup_next, reconcile_at_startup, Records, OpOK, Typed
<1>u. UNCHANGED <<rows, members, sess, root, tree, objs, told, lost, strayed, births>>
  BY DEF Startup, startup_next, reconcile_at_startup, db, fs, history
<1>1. op'.kind # "delete" /\ op'.at \in {"reconcile", "idle"}
  <2>1. CASE startup_next
    <3>1. PICK w \in op.todo : Begin(w, "reconcile")
      BY <2>1 DEF startup_next
    <3> QED
      BY <1>0, <3>1 DEF Begin, OpRecords
  <2>2. CASE reconcile_at_startup
    BY <2>2 DEF reconcile_at_startup, Idle
  <2> QED
    BY <2>1, <2>2 DEF Startup
<1> QED
  BY <1>0, <1>u, <1>1, PlainDirectories

LEMMA TrashDirectories ==
    ASSUME Records, Directories, NEW w \in Checkouts, list(w) \/ delete(w), UNCHANGED births
    PROVE  Directories'
<1>0. rows[w].st = "retired" /\ members[w] = {} /\ RowOK(w) /\ rows \in [Checkouts -> RowRecords]
  BY DEF list, delete, Archived, Records, Typed
<1>u. UNCHANGED <<members, sess, root, tree, objs, lost, strayed, births>>
  BY DEF list, delete, fs, history
<1>a. rows[w].dest \in Names /\ rows[w].id.birth # 0
  BY <1>0, Apart DEF RowOK, RowRecords, Names
<1>b. \A q \in Spots : Own(w, q) => q = <<rows[w].root, rows[w].dest>>
  BY <1>0 DEF Directories, Places, PlaceOK
<1>1. CASE /\ forget_retired(w) /\ op' = op
           /\ \/ verified_root(w) /\ At(rows[w].dest) = 0 /\ told' = told
              \/ told' = told \cup {<<w, rows[w].dest>>} /\ op = Idle
  <2>1. rows'[w].st = "none" /\ \A v \in Checkouts \ {w} : rows'[v] = rows[v]
    BY <1>0, <1>1 DEF forget_retired, NoRow
  <2>2. ObjectsOK'
    BY <1>u, <2>1, SameObjects
  <2>3. \A v, q : Own(v, q)' <=> Own(v, q)
    BY <1>u DEF Own
  <2>4. Places'
    <3> SUFFICES ASSUME NEW v \in Checkouts, NEW q \in Spots, Own(v, q)' PROVE PlaceOK(v, q)'
      BY DEF Places
    <3>1. Own(v, q) /\ PlaceOK(v, q) /\ Identity(tree[q])' = Identity(tree[q])
      BY <1>u, <2>3 DEF Directories, Places, Identity
    <3>2. CASE v = w
      <4>1. ~(verified_root(w) /\ At(rows[w].dest) = 0)
        BY <1>b, <3>1, <3>2 DEF verified_root, At, Own
      <4>2. <<v, q[2]>> \in told'
        BY <1>b, <1>1, <3>1, <3>2, <4>1
      <4> QED
        BY <2>1, <3>2, <4>2 DEF PlaceOK
    <3>3. CASE v # w
      <4>1. told \subseteq told'
        BY <1>1
      <4> QED
        BY <1>u, <1>1, <2>1, <3>1, <3>3, <4>1 DEF PlaceOK
    <3> QED
      BY <3>2, <3>3
  <2>5. SettledPlaces'
    <3> SUFFICES ASSUME op'.kind = "delete", op'.at \in Moving \cup {"next"}, NEW v \in Checkouts,
                        v \notin op'.todo, NEW q \in Spots, members'[v] = {op'.s}, Own(v, q)'
                 PROVE  SettledOK(v, q)'
      BY DEF SettledPlaces
    <3>1. SettledOK(v, q) /\ v # w
      BY <1>0, <1>u, <1>1, <2>3 DEF Directories, SettledPlaces
    <3> QED
      BY <1>1, <2>1, <3>1 DEF SettledOK
  <2>6. SeenOK'
    <3>0. OpOK /\ op \in OpRecords
      BY DEF Records, Typed
    <3>1. op.at \in {"mkdir", "record"} \cup Moving => op.w # w
      <4>1. op.at \in Moving => op.w # w
        BY <1>0, InArchive
      <4>2. op.at \in {"mkdir", "record"} => op.w # w
        BY <1>0, <3>0 DEF OpOK, CreateOK, DeleteOK, StartupOK, TrashOK, Idle, Moving, OpRecords
      <4> QED
        BY <4>1, <4>2
    <3>2. op.at \in {"mkdir", "record"} \cup Moving => op.w \in Checkouts
      <4>1. op.at \in {"mkdir", "record"} => op.w \in Checkouts
        BY <3>0 DEF OpOK, CreateOK, DeleteOK, StartupOK, TrashOK, Idle, Moving, OpRecords
      <4> QED
        BY <4>1, InArchive
    <3>3. op.at \in Moving => rows'[op.w] = rows[op.w]
      BY <2>1, <3>1, <3>2
    <3>4. op.at = "remove" => op.w \in Checkouts
      BY <3>0 DEF OpOK, CreateOK, DeleteOK, StartupOK, TrashOK, Idle, Moving, OpRecords
    <3>5. op.at = "remove" => (rows'[op.w].st = "retired" => rows'[op.w] = rows[op.w])
      BY <2>1, <3>4
    <3>6. op.at \in {"journal", "rename"} =>
             (/\ SourceOK
              /\ \A q \in Spots : Own(op.w, q) => q = <<root, rows[op.w].name>>
              /\ LET o == At(rows[op.w].name) IN
                   o # 0 => o = op.src \/ o \in strayed \/ objs[o].by = User)'
      BY <1>u, <1>1, <2>3, <3>3 DEF Directories, SeenOK, SourceOK, At, Moving, Own
    <3>7. op.at = "sync" => (\A q \in Spots : Own(op.w, q) => q = <<rows[op.w].root, rows[op.w].dest>>)'
      BY <1>u, <1>1, <2>3, <3>3 DEF Directories, SeenOK, Moving, Own
    <3>8. op.at = "remove" =>
             (/\ SourceOK
              /\ rows[op.w].st = "retired" => Identity(op.src) = rows[op.w].id
              /\ op.src \notin strayed => \A q \in Spots : tree[q] = op.src => ~InUse(q[2]))'
      BY <1>u, <1>1, <3>5 DEF Directories, SeenOK, SourceOK, InUse, Listed, Identity
    <3>9. (op.at = "mkdir" => \A q \in Spots : ~Own(op.w, q))'
      BY <1>u, <1>1, <2>3 DEF Directories, SeenOK, Own
    <3>10. (op.at = "record" => SourceOK /\ \A q \in Spots : Own(op.w, q) => tree[q] = op.src)'
      BY <1>u, <1>1, <2>3 DEF Directories, SeenOK, SourceOK, Own
    <3> QED
      BY <1>1, <3>6, <3>7, <3>8, <3>9, <3>10 DEF SeenOK
  <2> QED
    BY <2>2, <2>4, <2>5, <2>6 DEF Directories
<1>2. CASE /\ op = Idle /\ verified_root(w) /\ At(rows[w].dest) # 0 /\ MatchesArchive(w) /\ ~InUse(rows[w].dest)
           /\ op' = [Idle EXCEPT !.kind = "trash", !.at = "remove", !.w = w, !.src = At(rows[w].dest)]
           /\ UNCHANGED <<rows, told>>
  <2>1. op'.kind = "trash" /\ op'.at = "remove" /\ op'.w = w /\ op'.src = At(rows[w].dest)
    BY <1>2 DEF Idle
  <2>2. ObjectsOK' /\ Places'
    BY <1>u, <1>2, SameObjects, SamePlaces DEF Idle
  <2>3. /\ op'.src \in DOMAIN objs /\ op'.src = tree[<<root, rows[w].dest>>] /\ <<root, rows[w].dest>> \in Spots
        /\ op'.src # 0
    BY <1>a, <1>2, <2>1, Shapes
  <2>4. objs[op'.src].by = w /\ Identity(op'.src) = rows[w].id
    BY <1>0, <1>a, <1>2, <2>1, <2>3, OneObject DEF MatchesArchive
  <2>5. \A q \in Spots : tree[q] = op'.src => q = <<root, rows[w].dest>>
    BY <2>3 DEF Directories, ObjectsOK
  <2>6. \A q \in Spots : tree[q] = op'.src => ~InUse(q[2])
    BY <1>2, <2>5
  <2>7. SeenOK'
    <3>1. SourceOK' /\ (Identity(op.src) = rows[op.w].id)'
      BY <1>u, <1>2, <2>1, <2>3, <2>4 DEF SourceOK, Identity
    <3>2. (\A q \in Spots : tree[q] = op.src => ~InUse(q[2]))'
      BY <1>u, <2>6 DEF InUse, Listed
    <3> QED
      BY <2>1, <3>1, <3>2 DEF SeenOK
  <2> QED
    BY <2>1, <2>2, <2>7 DEF Directories, SettledPlaces
<1> QED
  BY <1>1, <1>2 DEF list, delete, history

LEMMA RemoveDirectories ==
    ASSUME Records, Directories, remove_archive, UNCHANGED births
    PROVE  Directories'
<1>0. op.kind = "trash" /\ op.at = "remove" /\ op.w \in Checkouts /\ rows[op.w].st \in {"retired", "none"}
      /\ rows \in [Checkouts -> RowRecords]
  BY DEF remove_archive, Records, OpOK, TrashOK, Typed
<1>p. PICK w \in Checkouts : w = op.w
  BY <1>0
<1>s. /\ op.src \in DOMAIN objs /\ op.src # 0
      /\ rows[w].st = "retired" => same_directory(op.src, rows[w].id) /\ rows[w].id.birth # 0
  <2>1. op.src \in DOMAIN objs /\ (rows[w].st = "retired" => Identity(op.src) = rows[w].id)
    BY <1>0, <1>p DEF Directories, SeenOK, SourceOK
  <2>2. rows[w].st = "retired" => rows[w].id.birth # 0
    BY DEF Records, RowOK
  <2>3. Identity(op.src).ino = objs[op.src].ino /\ Identity(op.src).birth = objs[op.src].birth
    BY DEF Identity
  <2> QED
    BY <2>1, <2>2, <2>3, Shapes DEF same_directory
<1>1. /\ UNCHANGED <<members, sess, root, objs, told, lost, strayed, births>> /\ op' = Idle
      /\ \/ /\ tree' = [q \in DOMAIN tree |-> IF tree[q] = op.src THEN 0 ELSE tree[q]]
            /\ rows' = [rows EXCEPT ![op.w] = NoRow]
         \/ UNCHANGED <<tree, rows>>
  BY DEF remove_archive, history, forget_retired
<1>2. CASE UNCHANGED <<tree, rows>>
  BY <1>0, <1>1, <1>2, PlainDirectories DEF Idle
<1>3. CASE /\ tree' = [q \in DOMAIN tree |-> IF tree[q] = op.src THEN 0 ELSE tree[q]]
           /\ rows' = [rows EXCEPT ![op.w] = NoRow]
  <2>1. rows'[w].st = "none" /\ \A v \in Checkouts \ {w} : rows'[v] = rows[v]
    BY <1>0, <1>p, <1>3 DEF NoRow
  <2>2. \A q \in Spots : tree'[q] = IF tree[q] = op.src THEN 0 ELSE tree[q]
    BY <1>3, Shapes
  <2>3. ASSUME NEW v \in Checkouts, NEW q \in Spots, Own(v, q)' PROVE Own(v, q) /\ tree'[q] = tree[q] /\ tree[q] # op.src
    BY <1>1, <2>2, <2>3 DEF Own
  <2>4. ObjectsOK'
    <3>1. \A q \in Spots, p \in Spots : tree'[q] = tree'[p] /\ tree'[q] # 0 => q = p
      BY <2>2 DEF Directories, ObjectsOK
    <3>2. \A v \in Checkouts : rows'[v].st \in {"allocated", "pending", "retired"} => rows'[v] = rows[v]
      BY <2>1
    <3> QED
      BY <1>1, <3>1, <3>2 DEF Directories, ObjectsOK, Identity
  <2>5. Places'
    <3> SUFFICES ASSUME NEW v \in Checkouts, NEW q \in Spots, Own(v, q)' PROVE PlaceOK(v, q)'
      BY DEF Places
    <3>1. Own(v, q) /\ PlaceOK(v, q) /\ tree'[q] = tree[q] /\ tree[q] # op.src
          /\ Identity(tree[q])' = Identity(tree[q])
      BY <1>1, <2>3 DEF Directories, Places, Identity
    <3>2. CASE v = w /\ rows[w].st = "retired"
      BY <1>s, <3>1, <3>2, OneObject
    <3>3. CASE v = w /\ rows[w].st = "none"
      BY <1>0, <1>1, <2>1, <3>1, <3>3 DEF PlaceOK
    <3>4. CASE v # w
      BY <1>0, <1>1, <2>1, <3>1, <3>4 DEF PlaceOK
    <3> QED
      BY <1>0, <1>p, <3>2, <3>3, <3>4
  <2> QED
    BY <1>1, <2>4, <2>5, Elsewhere DEF Directories, Idle
<1> QED
  BY <1>1, <1>2, <1>3

\* What the user does to the file system between the steps of an operation:
\* no directory of a checkout comes to another place without being strayed.
LEMMA UserPlaces ==
    ASSUME Records, Directories, UNCHANGED <<rows, members, sess, op, told, lost, births>>,
           \A o \in DOMAIN objs : o \in DOMAIN objs' /\ objs'[o] = objs[o],
           strayed \subseteq strayed',
           \A v \in Checkouts, q \in Spots : Own(v, q)' =>
               /\ Own(v, q) /\ tree'[q] = tree[q]
               /\ root' = root \/ (rows[v].st # "planned" /\ op.at \notin {"journal", "rename"}),
           op.at \in {"journal", "rename"} =>
               (At(rows[op.w].name) # 0 =>
                    \/ At(rows[op.w].name) = op.src \/ At(rows[op.w].name) \in strayed
                    \/ objs[At(rows[op.w].name)].by = User)',
           \A q \in Spots : tree'[q] \in DOMAIN objs \ strayed' => tree[q] = tree'[q]
    PROVE  Places' /\ SettledPlaces' /\ SeenOK'
<1>1. Places'
  <2> SUFFICES ASSUME NEW v \in Checkouts, NEW q \in Spots, Own(v, q)' PROVE PlaceOK(v, q)'
    BY DEF Places
  <2>1. Own(v, q) /\ PlaceOK(v, q) /\ tree'[q] = tree[q] /\ (root' = root \/ rows[v].st # "planned")
    BY DEF Directories, Places
  <2>2. tree[q] \in DOMAIN objs
    BY <2>1, Shapes DEF Own
  <2>3. Identity(tree[q])' = Identity(tree[q])
    BY <2>1, <2>2 DEF Identity
  <2> QED
    BY <2>1, <2>3 DEF PlaceOK
<1>2. SettledPlaces'
  BY DEF Directories, SettledPlaces, SettledOK
<1>3. SeenOK'
  <2>1. op.at \in {"mkdir", "record", "journal", "rename", "sync"} => op.w \in Checkouts
    <3>1. OpOK /\ op \in OpRecords
      BY DEF Records, Typed
    <3> QED
      BY <3>1, InArchive DEF OpOK, CreateOK, DeleteOK, StartupOK, TrashOK, Idle, Moving, OpRecords
  <2>2. SourceOK => SourceOK'
    BY DEF SourceOK
  <2>3. (op.at = "mkdir" => \A q \in Spots : ~Own(op.w, q))'
    BY <2>1 DEF Directories, SeenOK
  <2>4. (op.at = "record" => SourceOK /\ \A q \in Spots : Own(op.w, q) => tree[q] = op.src)'
    BY <2>1, <2>2 DEF Directories, SeenOK
  <2>5. op.at \in {"journal", "rename"} =>
           (SourceOK /\ \A q \in Spots : Own(op.w, q) => q = <<root, rows[op.w].name>>)'
    BY <2>1, <2>2 DEF Directories, SeenOK
  <2>6. op.at = "sync" => (\A q \in Spots : Own(op.w, q) => q = <<rows[op.w].root, rows[op.w].dest>>)'
    BY <2>1 DEF Directories, SeenOK
  <2>7. op.at = "remove" =>
           (/\ SourceOK
            /\ rows[op.w].st = "retired" => Identity(op.src) = rows[op.w].id
            /\ op.src \notin strayed => \A q \in Spots : tree[q] = op.src => ~InUse(q[2]))'
    <3> SUFFICES ASSUME op.at = "remove"
                 PROVE  (/\ SourceOK
                         /\ rows[op.w].st = "retired" => Identity(op.src) = rows[op.w].id
                         /\ op.src \notin strayed => \A q \in Spots : tree[q] = op.src => ~InUse(q[2]))'
      OBVIOUS
    <3>1. /\ SourceOK /\ op.src \in DOMAIN objs
          /\ rows[op.w].st = "retired" => Identity(op.src) = rows[op.w].id
          /\ op.src \notin strayed => \A q \in Spots : tree[q] = op.src => ~InUse(q[2])
      BY DEF Directories, SeenOK, SourceOK
    <3>2. Identity(op.src)' = Identity(op.src)
      BY <3>1 DEF Identity
    <3>3. (op.src \notin strayed => \A q \in Spots : tree[q] = op.src => ~InUse(q[2]))'
      BY <3>1 DEF InUse, Listed
    <3>4. (rows[op.w].st = "retired" => Identity(op.src) = rows[op.w].id)'
      BY <3>1, <3>2
    <3> QED
      BY <2>2, <3>1, <3>3, <3>4
  <2> QED
    BY <2>3, <2>4, <2>5, <2>6, <2>7 DEF SeenOK
<1> QED
  BY <1>1, <1>2, <1>3

LEMMA UserDirectories ==
    ASSUME Records, Directories, UserActs, UNCHANGED births
    PROVE  Directories'
<1>1. UNCHANGED <<rows, members, sess, op, told, lost, births>>
  BY DEF UserActs, put, take_away, move, swap_root, Rest, db
<1>s. /\ Len(objs) \in Nat /\ DOMAIN objs = 1..Len(objs)
      /\ tree \in [Spots -> 0..Len(objs)]
      /\ \A q \in Spots : tree[q] # 0 => tree[q] \in DOMAIN objs
      /\ \A n \in Names : <<root, n>> \in Spots /\ At(n) = tree[<<root, n>>]
  BY Shapes
<1>w. op.at \in {"journal", "rename"} =>
         /\ rows[op.w].name \in Names
         /\ At(rows[op.w].name) # 0 =>
                \/ At(rows[op.w].name) = op.src \/ At(rows[op.w].name) \in strayed
                \/ objs[At(rows[op.w].name)].by = User
  BY InArchive, Apart DEF Directories, SeenOK, Moving
<1>2. ASSUME NEW n \in Names, put(n) PROVE Directories'
  <2>1. PICK ino \in 1..(Len(objs) + 1) : Made(<<root, n>>, ino, User)
    BY <1>2 DEF put
  <2>2. At(n) = 0 /\ strayed' = strayed
    BY <1>2 DEF put
  <2>3. /\ ObjectsOK' /\ root' = root
        /\ DOMAIN objs' = 1..(Len(objs) + 1) /\ Len(objs) + 1 \notin DOMAIN objs
        /\ Len(objs) + 1 \in DOMAIN objs' /\ objs'[Len(objs) + 1].by = User
        /\ \A o \in DOMAIN objs : o \in DOMAIN objs' /\ objs'[o] = objs[o]
        /\ tree'[<<root, n>>] = Len(objs) + 1
        /\ \A q \in Spots : q # <<root, n>> => tree'[q] = tree[q]
        /\ \A w \in Checkouts, q \in Spots : Own(w, q)' =>
               Own(w, q) \/ (w = User /\ q = <<root, n>>)
    <3>1. ino \in Nat
      BY <1>s
    <3> QED
      BY <1>1, <2>1, <2>2, <3>1, Making
  <2>4. \A v \in Checkouts, q \in Spots : Own(v, q)' => Own(v, q) /\ tree'[q] = tree[q]
    BY <1>s, <2>2, <2>3, Apart DEF Own
  <2>5. op.at \in {"journal", "rename"} =>
               (At(rows[op.w].name) # 0 =>
                    \/ At(rows[op.w].name) = op.src \/ At(rows[op.w].name) \in strayed
                    \/ objs[At(rows[op.w].name)].by = User)'
    <3> SUFFICES ASSUME op.at \in {"journal", "rename"}
                 PROVE  (At(rows[op.w].name) # 0 =>
                           \/ At(rows[op.w].name) = op.src \/ At(rows[op.w].name) \in strayed
                           \/ objs[At(rows[op.w].name)].by = User)'
      OBVIOUS
    <3>1. CASE rows[op.w].name = n
      <4>1. At(rows[op.w].name)' = Len(objs) + 1
        BY <1>1, <2>3, <3>1 DEF At
      <4> QED
        BY <2>3, <4>1
    <3>2. CASE rows[op.w].name # n
      <4>1. At(rows[op.w].name)' = At(rows[op.w].name)
        BY <1>1, <1>s, <1>w, <2>3, <3>2 DEF At
      <4>2. At(rows[op.w].name) # 0 => At(rows[op.w].name) \in DOMAIN objs
        BY <1>s, <1>w
      <4> QED
        BY <1>1, <1>w, <2>2, <2>3, <4>1, <4>2
    <3> QED
      BY <3>1, <3>2
  <2>6. \A q \in Spots : tree'[q] \in DOMAIN objs \ strayed' => tree[q] = tree'[q]
    BY <2>3
  <2>7. Places' /\ SettledPlaces' /\ SeenOK'
    BY <1>1, <2>2, <2>3, <2>4, <2>5, <2>6, UserPlaces
  <2> QED
    BY <2>3, <2>7 DEF Directories
<1>3. ASSUME NEW n \in Names, take_away(n) PROVE Directories'
  <2>1. tree' = [tree EXCEPT ![<<root, n>>] = 0] /\ UNCHANGED <<root, objs, strayed>>
    BY <1>3 DEF take_away
  <2>2. \A q \in Spots : tree'[q] = 0 \/ tree'[q] = tree[q]
    BY <1>s, <2>1
  <2>3. ObjectsOK'
    BY <1>1, <2>1, <2>2 DEF Directories, ObjectsOK, Identity
  <2>4. \A v \in Checkouts, q \in Spots : Own(v, q)' => Own(v, q) /\ tree'[q] = tree[q]
    BY <2>1, <2>2 DEF Own
  <2>5. op.at \in {"journal", "rename"} =>
               (At(rows[op.w].name) # 0 =>
                    \/ At(rows[op.w].name) = op.src \/ At(rows[op.w].name) \in strayed
                    \/ objs[At(rows[op.w].name)].by = User)'
    <3>1. op.at \in {"journal", "rename"} =>
             At(rows[op.w].name)' = 0 \/ At(rows[op.w].name)' = At(rows[op.w].name)
      BY <1>1, <1>s, <1>w, <2>1, <2>2 DEF At
    <3> QED
      BY <1>1, <1>w, <2>1, <3>1
  <2>6. \A q \in Spots : tree'[q] \in DOMAIN objs \ strayed' => tree[q] = tree'[q]
    BY <1>s, <2>2
  <2>7. Places' /\ SettledPlaces' /\ SeenOK'
    BY <1>1, <2>1, <2>4, <2>5, <2>6, UserPlaces
  <2> QED
    BY <2>3, <2>7 DEF Directories
<1>4. ASSUME NEW n \in Names, NEW m \in Names, move(n, m) PROVE Directories'
  <2>1. /\ Moved(<<root, n>>, <<root, m>>) /\ strayed' = strayed \cup {At(n)} /\ UNCHANGED <<root, objs>>
        /\ At(n) # 0 /\ At(m) = 0
    BY <1>4 DEF move
  <2>2. PICK f \in Spots, t \in Spots : f = <<root, n>> /\ t = <<root, m>>
    BY <1>s
  <2>3. tree[f] = At(n) /\ tree[f] # 0 /\ tree[t] = 0 /\ Moved(f, t)
    BY <2>1, <2>2 DEF At
  <2>4. /\ ObjectsOK' /\ f # t /\ tree'[t] = tree[f] /\ tree'[f] = 0
        /\ \A q \in Spots : q # f /\ q # t => tree'[q] = tree[q]
    BY <1>1, <2>1, <2>3, Relocated
  <2>5. tree[f] \in strayed' /\ strayed \subseteq strayed'
    BY <2>1, <2>3
  <2>6. \A v \in Checkouts, q \in Spots : Own(v, q)' => Own(v, q) /\ tree'[q] = tree[q]
    BY <2>1, <2>4, <2>5 DEF Own
  <2>7. op.at \in {"journal", "rename"} =>
               (At(rows[op.w].name) # 0 =>
                    \/ At(rows[op.w].name) = op.src \/ At(rows[op.w].name) \in strayed
                    \/ objs[At(rows[op.w].name)].by = User)'
    <3>1. op.at \in {"journal", "rename"} =>
             \/ At(rows[op.w].name)' = 0 \/ At(rows[op.w].name)' \in strayed'
             \/ At(rows[op.w].name)' = At(rows[op.w].name)
      BY <1>1, <1>s, <1>w, <2>1, <2>4, <2>5 DEF At
    <3> QED
      BY <1>1, <1>w, <2>1, <2>5, <3>1
  <2>8. \A q \in Spots : tree'[q] \in DOMAIN objs \ strayed' => tree[q] = tree'[q]
    BY <1>s, <2>4, <2>5
  <2>9. Places' /\ SettledPlaces' /\ SeenOK'
    BY <1>1, <2>1, <2>5, <2>6, <2>7, <2>8, UserPlaces
  <2> QED
    BY <2>4, <2>9 DEF Directories
<1>5. ASSUME swap_root PROVE Directories'
  <2>1. /\ UNCHANGED <<tree, objs>> /\ strayed \subseteq strayed' /\ root' \in Roots
        /\ \A o \in DOMAIN objs : objs[o].by # User /\ rows[objs[o].by].st = "planned" => o \in strayed'
        /\ op.at \in {"journal", "rename"} => DOMAIN objs \subseteq strayed'
    BY <1>5 DEF swap_root
  <2>2. ObjectsOK'
    BY <1>1, <2>1 DEF Directories, ObjectsOK, Identity
  <2>3. ASSUME NEW v \in Checkouts, NEW q \in Spots, Own(v, q)'
        PROVE  Own(v, q) /\ rows[v].st # "planned" /\ op.at \notin {"journal", "rename"}
    <3>1. tree[q] # 0 /\ objs[tree[q]].by = v /\ tree[q] \notin strayed'
      BY <2>1, <2>3 DEF Own
    <3>2. tree[q] \in DOMAIN objs /\ v # User
      BY <1>s, <3>1, Apart
    <3> QED
      BY <2>1, <3>1, <3>2 DEF Own
  <2>4. op.at \in {"journal", "rename"} =>
               (At(rows[op.w].name) # 0 =>
                    \/ At(rows[op.w].name) = op.src \/ At(rows[op.w].name) \in strayed
                    \/ objs[At(rows[op.w].name)].by = User)'
    <3>1. op.at \in {"journal", "rename"} =>
             (At(rows[op.w].name)' # 0 => At(rows[op.w].name)' \in DOMAIN objs)
      BY <1>1, <1>s, <1>w, <2>1 DEF At, Spots
    <3> QED
      BY <2>1, <3>1
  <2>5. Places' /\ SettledPlaces' /\ SeenOK'
    BY <1>1, <2>1, <2>3, <2>4, UserPlaces
  <2> QED
    BY <2>2, <2>5 DEF Directories
<1>6. Paths \cup Stems \subseteq Names
  BY Apart
<1> QED
  BY <1>2, <1>3, <1>4, <1>5, <1>6 DEF UserActs

LEMMA DirectoriesStep == Records /\ Directories /\ [Next]_<<vars, births>> => Directories'
<1> SUFFICES ASSUME Records, Directories, [Next]_<<vars, births>> PROVE Directories'
  OBVIOUS
<1>1. CASE UNCHANGED <<vars, births>>
  <2>1. UNCHANGED <<rows, members, sess, att, runs, starting, root, tree, objs, op, told, lost, strayed, asked, births>>
    BY <1>1 DEF vars
  <2>2. ObjectsOK'
    BY <2>1 DEF Directories, ObjectsOK, Identity
  <2>3. Places'
    BY <2>1 DEF Directories, Places, PlaceOK, Own, Identity
  <2>4. SettledPlaces'
    BY <2>1 DEF Directories, SettledPlaces, SettledOK, Own
  <2>5. SeenOK'
    BY <2>1 DEF Directories, SeenOK, Own, SourceOK, Identity, At, InUse, Listed
  <2> QED
    BY <2>2, <2>3, <2>4, <2>5 DEF Directories
<1>2. ASSUME Create, UNCHANGED births PROVE Directories'
  BY <1>2, InsertDirectories, MkdirDirectories, AllocateDirectories, LaunchDirectories, RetryDirectories,
     ExistingDirectories DEF Create
<1>3. ASSUME Restart, UNCHANGED births PROVE Directories'
  BY <1>3, RestartDirectories DEF Restart
<1>4. ASSUME Delete, UNCHANGED births PROVE Directories'
  BY <1>4, SweepDirectories, DecideDirectories, CommitDirectories, ReplyDirectories DEF Delete
<1>5. ASSUME Trash, UNCHANGED births PROVE Directories'
  BY <1>5, TrashDirectories DEF Trash
<1> QED
  BY <1>1, <1>2, <1>3, <1>4, <1>5, ArchiveDirectories, StartupDirectories, DeleteStartDirectories,
     RemoveDirectories, CrashDirectories, UserDirectories DEF Next, Steps

\* What the file system holds, and what the operation in progress knows of it,
\* in every reachable state.
THEOREM DirectoriesHold == Spec => [](Records /\ Directories)
<1>1. Init => Records /\ Directories
  BY InitRecords, InitDirectories
<1>2. Records /\ Directories /\ [Next]_<<vars, births>> => (Records /\ Directories)'
  BY RecordsStep, DirectoriesStep
<1> QED
  BY <1>1, <1>2, PTL DEF Spec

\* A directory Farhelm made is where its record says, or where a notice said,
\* for as long as the user leaves it there.
THEOREM DirectoriesAreKnown == Spec => []KnownOrTold
<1>1. Records /\ Directories => KnownOrTold
  <2> SUFFICES ASSUME Records, Directories, NEW o \in DOMAIN objs, ~Left(o)
               PROVE  \/ Placed(o)
                      \/ \E q \in DOMAIN tree : tree[q] = o /\ <<objs[o].by, q[2]>> \in lost
    BY DEF KnownOrTold
  <2> DEFINE w == objs[o].by
  <2>1. w \in Checkouts /\ o # 0 /\ o \notin strayed /\ DOMAIN tree = Spots
    BY Shapes DEF Left, ObjRecords
  <2>2. \A q \in Spots, p \in Spots : tree[q] = o /\ tree[p] = o => q = p
    BY <2>1 DEF Directories, ObjectsOK
  <2>3. ASSUME NEW q \in Spots, tree[q] = o, <<w, q[2]>> \notin lost PROVE Placed(o)
    <3>1. PlaceOK(w, q)
      BY <2>1, <2>3 DEF Directories, Places, Own
    <3>2. \/ rows[w].st # "none" /\ q[2] \in {rows[w].name, rows[w].dest}
          \/ <<w, q[2]>> \in told \cup op.notices
      <4>1. CASE rows[w].st = "none"
        BY <2>3, <3>1, <4>1 DEF PlaceOK
      <4>2. CASE rows[w].st # "none"
        <5>1. rows[w].st \in {"planned", "allocated", "pending", "retired"}
          BY <2>1, <4>2 DEF Records, Typed, RowRecords
        <5> QED
          BY <3>1, <5>1 DEF PlaceOK
      <4> QED
        BY <4>1, <4>2
    <3> QED
      BY <2>1, <2>2, <2>3, <3>2 DEF Placed
  <2>4. CASE \A q \in Spots : tree[q] # o
    BY <2>1, <2>4 DEF Placed
  <2> QED
    BY <2>1, <2>3, <2>4
<1> QED
  BY <1>1, DirectoriesHold, PTL

-----------------------------------------------------------------------------
(* What Farhelm's own steps do to the directories.  The user's steps are   *)
(* the ones that spend an act.                                             *)

Counted == spent \in [faults : Nat, acts : Nat, crashes : Nat]

LEMMA Spends ==
    ASSUME Counted, [Next]_<<vars, births>>
    PROVE  Counted' /\ (UserActs => spent'.acts # spent.acts)
<1>1. Act => Counted' /\ spent'.acts # spent.acts
  BY DEF Act, Counted
<1>2. UserActs => Act
  BY DEF UserActs, put, take_away, move, swap_root
<1>3. Fault \/ Works \/ UNCHANGED spent \/ Act \/ spent' = [spent EXCEPT !.crashes = @ + 1] => Counted'
  BY DEF Counted, Fault, Works, Act
<1>4. Create \/ Restart => Fault \/ Works \/ UNCHANGED spent
  BY DEF Create, Restart, insert_session_with_plan, mkdir, allocate, launch, retry_create, create_existing,
     restart_check, restart_launch
<1>5. Archive => Fault \/ Works \/ UNCHANGED spent
  BY DEF Archive, persist_journal, rename_exclusive_into, sync_archive_parent, reconcile_archive
<1>6. Delete => Fault \/ Works \/ UNCHANGED spent
  BY DEF Delete, delete_sweep, quarantine_session_dir, decide, delete_session_archiving_memberships,
     discard_and_reply
<1>7. Startup \/ Trash \/ remove_archive \/ (\E s \in Sessions : delete_start(s)) => Fault \/ Works \/ UNCHANGED spent
  BY DEF Startup, startup_next, reconcile_at_startup, Trash, list, delete, remove_archive, delete_start
<1>8. crash => spent' = [spent EXCEPT !.crashes = @ + 1]
  BY DEF crash
<1>9. UNCHANGED <<vars, births>> => UNCHANGED spent
  BY DEF vars
<1> QED
  BY <1>1, <1>2, <1>3, <1>4, <1>5, <1>6, <1>7, <1>8, <1>9 DEF Next, Steps

LEMMA CountsHold == Spec => []Counted
<1>1. Init => Counted
  BY CopiesConstants DEF Init, Counted
<1> QED
  BY <1>1, Spends, PTL DEF Spec

\* Two steps of Farhelm take a directory from its place: the rename of an
\* archive, by path, and the removal of the one that was opened.
LEMMA Touches ==
    ASSUME Records, Directories, Counted, [Next]_<<vars, births>>, NEW o \in Touched
    PROVE  /\ o \in DOMAIN objs /\ o # 0
           /\ \/ op.at = "rename" /\ o = At(rows[op.w].name)
              \/ op.at = "remove" /\ o = op.src
<1>1. PICK q \in Spots : tree[q] = o /\ tree'[q] # o
  BY Shapes DEF Touched
<1>2. o \in DOMAIN objs /\ o # 0 /\ spent'.acts = spent.acts
  BY Shapes DEF Touched
<1>3. ~UserActs /\ tree' # tree
  BY <1>1, <1>2, Spends
<1>4. ASSUME mkdir PROVE FALSE
  <2>1. op.kind = "create" /\ CreateOK
    BY <1>4 DEF mkdir, Records, OpOK
  <2>2. rows[op.w].name \in Names
    BY <2>1, Named DEF CreateOK
  <2>3. tree[<<root, rows[op.w].name>>] = 0 /\ Made(<<root, rows[op.w].name>>, Len(objs) + 1, op.w)
    BY <1>3, <1>4 DEF mkdir, At, fs
  <2> QED
    BY <1>1, <1>2, <2>3, Shapes DEF Made
<1>5. ASSUME rename_exclusive_into PROVE op.at = "rename" /\ o = At(rows[op.w].name)
  <2>1. op.at = "rename" /\ tree[From] # 0 /\ tree[To] = 0 /\ Moved(From, To)
    BY <1>3, <1>5 DEF rename_exclusive_into, From, To
  <2>2. q = From
    BY <1>1, <1>2, <2>1, Shapes DEF Moved
  <2> QED
    BY <1>1, <2>1, <2>2 DEF From, At
<1>6. ASSUME remove_archive PROVE op.at = "remove" /\ o = op.src
  <2>1. op.at = "remove"
    BY <1>6 DEF remove_archive, Records, OpOK, TrashOK
  <2>2. tree' = [p \in DOMAIN tree |-> IF tree[p] = op.src THEN 0 ELSE tree[p]]
    BY <1>3, <1>6 DEF remove_archive
  <2> QED
    BY <1>1, <2>1, <2>2, Shapes
<1>7. Create => mkdir
  BY <1>3 DEF Create, insert_session_with_plan, allocate, launch, retry_create, create_existing, fs
<1>8. Archive => rename_exclusive_into
  BY <1>3 DEF Archive, persist_journal, sync_archive_parent, reconcile_archive, fs
<1>9. ~Delete /\ ~Restart
  BY <1>3 DEF Delete, delete_sweep, quarantine_session_dir, decide, delete_session_archiving_memberships,
     discard_and_reply, Restart, restart_check, restart_launch, fs
<1>10. ~Startup /\ ~Trash /\ ~crash /\ ~(\E s \in Sessions : delete_start(s))
  BY <1>3 DEF Startup, startup_next, reconcile_at_startup, Trash, list, delete, crash, delete_start, fs
<1>11. ~UNCHANGED <<vars, births>>
  BY <1>3 DEF vars
<1> QED
  BY <1>2, <1>3, <1>4, <1>5, <1>6, <1>7, <1>8, <1>9, <1>10, <1>11 DEF Next, Steps

\* A directory that an archive moves or the trash deletes, if it is the one
\* that was checked, was made for the checkout it is moved or deleted for.
THEOREM OnlyOwnMoves == Spec => OwnMoved
<1>1. Records /\ Directories /\ Counted /\ [Next]_<<vars, births>>
        => [\A o \in Touched : o = op.src => objs[o].by = op.w]_vars
  <2> SUFFICES ASSUME Records, Directories, Counted, [Next]_<<vars, births>>, NEW o \in Touched, o = op.src
               PROVE  objs[o].by = op.w
    OBVIOUS
  <2>1. op.at \in {"rename", "remove"}
    BY Touches
  <2> QED
    BY <2>1 DEF Directories, SeenOK, SourceOK
<1> QED
  BY <1>1, DirectoriesHold, CountsHold, PTL DEF Spec, OwnMoved

\* No directory goes from under a session nobody asked to delete, nor from
\* under an agent that runs, and none is started where an archive is pending.
THEOREM DirectoriesInUseStay == Spec => InUseStays
<1> DEFINE Stays ==
      /\ \A o \in Touched \ strayed, n \in Names :
             At(n) = o => /\ \A s \in Sessions : Listed(s) /\ sess[s].cwd = n => s \in asked
                          /\ \A s \in runs : sess[s].cwd # n
      /\ \A s \in runs' \ runs, w \in Checkouts :
             s \in members[w] \/ sess'[s].cwd = rows[w].name => rows[w].st # "pending"
<1>1. Records /\ Directories /\ Counted /\ [Next]_<<vars, births>> => [Stays]_vars
  <2> SUFFICES ASSUME Records, Directories, Counted, [Next]_<<vars, births>> PROVE Stays
    OBVIOUS
  <2>r. runs \subseteq Sessions /\ \A s \in runs : Listed(s)
    BY DEF Records, Typed, SessOK, Listed
  <2>1. ASSUME NEW o \in Touched \ strayed, NEW n \in Names, At(n) = o
        PROVE  /\ \A s \in Sessions : Listed(s) /\ sess[s].cwd = n => s \in asked
               /\ \A s \in runs : sess[s].cwd # n
    <3>0. /\ o \in DOMAIN objs /\ o # 0
          /\ \/ op.at = "rename" /\ o = At(rows[op.w].name)
             \/ op.at = "remove" /\ o = op.src
      BY Touches
    <3>n. <<root, n>> \in Spots /\ tree[<<root, n>>] = o
      BY <2>1, Shapes
    <3>1. CASE op.at = "rename" /\ o = At(rows[op.w].name)
      <4>1. rows[op.w].name \in Names /\ MemberOK(op.w) /\ MovingOK
        BY <3>1, InArchive, Apart DEF Moving
      <4>2. n = rows[op.w].name
        <5>1. <<root, rows[op.w].name>> \in Spots /\ tree[<<root, rows[op.w].name>>] = o
          BY <3>1, <4>1, Shapes
        <5>2. <<root, n>> = <<root, rows[op.w].name>>
          BY <3>0, <3>n, <5>1 DEF Directories, ObjectsOK
        <5> QED
          BY <5>2
      <4>3. rows[op.w].st = "pending"
        BY <3>1, <4>1 DEF MovingOK
      <4> QED
        BY <2>r, <4>1, <4>2, <4>3 DEF MemberOK
    <3>2. CASE op.at = "remove" /\ o = op.src
      <4>1. ~InUse(<<root, n>>[2])
        BY <2>1, <3>2, <3>n DEF Directories, SeenOK
      <4> QED
        BY <2>r, <4>1 DEF InUse
    <3> QED
      BY <3>0, <3>1, <3>2
  <2>2. ASSUME NEW s \in runs' \ runs, NEW w \in Checkouts, s \in members[w] \/ sess'[s].cwd = rows[w].name
        PROVE  rows[w].st # "pending"
    <3> SUFFICES ASSUME rows[w].st = "pending" PROVE FALSE
      OBVIOUS
    <3>0. s \in Sessions /\ MemberOK(w)
      <4>1. Records'
        BY RecordsStep
      <4> QED
        BY <2>2, <4>1 DEF Records, Typed
    <3>1. ASSUME launch PROVE FALSE
      <4>1. op.kind = "create" /\ op.at = "launch" /\ CreateOK /\ s = op.s
        BY <2>2, <3>1 DEF launch, Records, OpOK
      <4>2. op.w \in Checkouts /\ rows[op.w].st = "allocated" /\ op.s \in members[op.w] /\ op.s \in Sessions
        BY <4>1 DEF CreateOK
      <4>3. sess[op.s].cwd = rows[op.w].name /\ sess'[op.s].cwd = sess[op.s].cwd
        <5>1. sess[op.s].cwd = rows[op.w].name /\ sess \in [Sessions -> SessRecords]
          BY <4>2 DEF Records, MemberOK, Typed
        <5>2. sess' = [sess EXCEPT ![op.s].st = "live"] \/ sess' = [sess EXCEPT ![op.s].st = "error"]
          BY <3>1 DEF launch, retain_create_refusal
        <5> QED
          BY <4>2, <5>1, <5>2, Outcomes
      <4>4. rows[w].name = rows[op.w].name
        BY <2>2, <3>0, <4>1, <4>3 DEF MemberOK
      <4> QED
        BY <4>2, <4>4 DEF Records, Distinct, Active
    <3>2. ASSUME NEW x \in Sessions, NEW n \in Names, create_existing(x, n) PROVE FALSE
      <4>1. s = x /\ sess[s].st = "new" /\ refuse_pending_archive(n)
            /\ sess' = [sess EXCEPT ![x] = [st |-> "live", cwd |-> n, origin |-> None]]
        BY <2>2, <3>2 DEF create_existing
      <4>2. sess'[s].cwd = n
        BY <3>0, <4>1 DEF Records, Typed
      <4> QED
        BY <2>2, <3>0, <4>1, <4>2 DEF MemberOK, Listed, refuse_pending_archive
    <3>3. ASSUME NEW x \in Sessions, restart_launch(x) PROVE FALSE
      <4>1. s = x /\ s \in starting /\ sess' = sess
        BY <2>2, <3>3 DEF restart_launch, db
      <4>2. Listed(s)
        BY <3>0, <4>1 DEF Records, SessOK, Listed
      <4> QED
        BY <2>2, <3>0, <4>1, <4>2 DEF MemberOK
    <3>u. runs' # runs
      BY <2>2
    <3>4. Create => launch \/ \E x \in Sessions, n \in Names : create_existing(x, n)
      BY <3>u DEF Create, insert_session_with_plan, mkdir, allocate, retry_create
    <3>5. Restart => \E x \in Sessions : restart_launch(x)
      BY <3>u DEF Restart, restart_check
    <3>6. ~Archive
      BY <3>u DEF Archive, persist_journal, rename_exclusive_into, sync_archive_parent, reconcile_archive
    <3>7. ~Delete
      BY <2>2 DEF Delete, delete_sweep, quarantine_session_dir, decide, delete_session_archiving_memberships,
         discard_and_reply
    <3>8. ~Startup /\ ~Trash /\ ~remove_archive /\ ~crash /\ ~UserActs /\ ~(\E x \in Sessions : delete_start(x))
      BY <3>u DEF Startup, startup_next, reconcile_at_startup, Trash, list, delete, remove_archive, crash, delete_start,
         UserActs, put, take_away, move, swap_root, Rest
    <3>9. ~UNCHANGED <<vars, births>>
      BY <3>u DEF vars
    <3> QED
      BY <3>1, <3>2, <3>3, <3>4, <3>5, <3>6, <3>7, <3>8, <3>9 DEF Next, Steps
  <2> QED
    BY <2>1, <2>2
<1>2. InUseStays <=> [][Stays]_vars
  BY DEF InUseStays
<1> QED
  BY <1>1, <1>2, DirectoriesHold, CountsHold, PTL DEF Spec
=============================================================================
