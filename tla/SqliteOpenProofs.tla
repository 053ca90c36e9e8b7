--------------------------- MODULE SqliteOpenProofs ---------------------------
(***************************************************************************)
(* Proofs about SqliteOpen, for any number of openers, any number of       *)
(* attempts that end early, and any file a release may have left.          *)
(***************************************************************************)
EXTENDS SqliteOpen, SequenceTheorems, TLAPS

Versioned == Formats \cup {"schema_version"}

Statement == {Create(t) : t \in Tables} \cup {Branch} \cup {Write(k) : k \in Keys}
               \cup {Ensure(k) : k \in Keys \ {"schema_version"}}

(* The members of a list, and what is left of an opener's.                 *)
E(s) == {s[i] : i \in DOMAIN s}

Left(o) == {opener[o].todo[i] : i \in DOMAIN opener[o].todo}

(* An attempt that is under way, or whose open returned Ok.                *)
Busy(o) == opener[o].status \in {"opening", "open"}

------------------------------------------------------------------------------
(* Statements                                                              *)

(* The names of this release, spelled out.                                 *)
LEMMA Names ==
  /\ Keys = {"schema_version", "op_format_version", "snapshot_format_version",
             "station_instance_id"}
  /\ \A k \in Keys : Release[k] = 1
  BY DEF Keys, Release, DB_SCHEMA_VERSION

(* A list of statements is its first one and the others.                   *)
LEMMA HeadAndTail ==
  ASSUME NEW S, NEW s \in Seq(S), s # << >>
  PROVE  /\ Head(s) \in S /\ Tail(s) \in Seq(S) /\ Len(s) >= 1
         /\ Len(Tail(s)) = Len(s) - 1
         /\ \A i \in 1..(Len(s) - 1) : Tail(s)[i] = s[i + 1]
         /\ Head(s) = s[1]
         /\ E(s) = {Head(s)} \cup E(Tail(s))
<1>1. /\ Head(s) \in S /\ Tail(s) \in Seq(S) /\ Len(s) \in Nat /\ Len(s) >= 1
      /\ Len(Tail(s)) = Len(s) - 1 /\ Head(s) = s[1]
  OBVIOUS
<1>2. \A i \in 1..(Len(s) - 1) : Tail(s)[i] = s[i + 1]
  OBVIOUS
<1>3. DOMAIN s = 1..Len(s) /\ DOMAIN Tail(s) = 1..(Len(s) - 1)
  BY <1>1
<1>4. ASSUME NEW i \in DOMAIN s
      PROVE  s[i] \in {Head(s)} \cup {Tail(s)[j] : j \in DOMAIN Tail(s)}
  <2>1. CASE i = 1
    BY <2>1, <1>1
  <2>2. CASE i # 1
    <3>1. i - 1 \in DOMAIN Tail(s) /\ Tail(s)[i - 1] = s[i]
      BY <2>2, <1>1, <1>2, <1>3
    <3> QED BY <3>1
  <2> QED BY <2>1, <2>2
<1>5. ASSUME NEW i \in DOMAIN Tail(s)
      PROVE  Tail(s)[i] \in {s[j] : j \in DOMAIN s}
  <2>1. i + 1 \in DOMAIN s /\ Tail(s)[i] = s[i + 1]
    BY <1>1, <1>2, <1>3
  <2> QED BY <2>1
<1>6. Head(s) \in {s[j] : j \in DOMAIN s}
  BY <1>1, <1>3
<1> QED
  BY <1>1, <1>2, <1>4, <1>5, <1>6 DEF E

(* Lists written out.                                                      *)
LEMMA Tuples ==
  ASSUME NEW S, NEW a \in S, NEW b \in S, NEW c \in S
  PROVE  /\ <<a, b, c>> \in Seq(S) /\ Len(<<a, b, c>>) = 3
         /\ \A d \in S : <<a, b, c, d>> \in Seq(S)
  OBVIOUS

(* Two lists in a row.                                                     *)
LEMMA InARow ==
  ASSUME NEW S, NEW s \in Seq(S), NEW t \in Seq(S)
  PROVE  /\ s \o t \in Seq(S) /\ Len(s \o t) = Len(s) + Len(t)
         /\ \A i \in 1..Len(s) : (s \o t)[i] = s[i]
         /\ \A i \in 1..Len(t) : (s \o t)[Len(s) + i] = t[i]
         /\ E(s \o t) = E(s) \cup E(t)
<1>1. /\ s \o t \in Seq(S) /\ Len(s \o t) = Len(s) + Len(t)
      /\ \A i \in 1..(Len(s) + Len(t)) :
           (s \o t)[i] = IF i <= Len(s) THEN s[i] ELSE t[i - Len(s)]
  BY ConcatProperties
<1>2. /\ DOMAIN s = 1..Len(s) /\ DOMAIN t = 1..Len(t) /\ Len(s) \in Nat /\ Len(t) \in Nat
      /\ DOMAIN (s \o t) = 1..(Len(s) + Len(t))
  BY <1>1
<1> DEFINE u == s \o t
<1> HIDE DEF u
<1>3. \A i \in 1..Len(s) : u[i] = s[i]
  BY <1>1, <1>2 DEF u
<1>4. \A i \in 1..Len(t) : u[Len(s) + i] = t[i]
  <2> TAKE i \in 1..Len(t)
  <2>1. Len(s) + i \in 1..(Len(s) + Len(t)) /\ ~ (Len(s) + i <= Len(s)) /\ (Len(s) + i) - Len(s) = i
    BY <1>2
  <2> QED BY <1>1, <2>1 DEF u
<1>5. \A i \in DOMAIN u : u[i] \in {s[j] : j \in DOMAIN s} \cup {t[j] : j \in DOMAIN t}
  <2> TAKE i \in DOMAIN u
  <2>1. CASE i <= Len(s)
    BY <2>1, <1>2, <1>3 DEF u
  <2>2. CASE ~ (i <= Len(s))
    <3>1. i - Len(s) \in DOMAIN t /\ u[i] = t[i - Len(s)]
      BY <2>2, <1>1, <1>2 DEF u
    <3> QED BY <3>1
  <2> QED BY <2>1, <2>2
<1>6. \A j \in DOMAIN s : s[j] \in {u[i] : i \in DOMAIN u}
  BY <1>2, <1>3 DEF u
<1>7. \A j \in DOMAIN t : t[j] \in {u[i] : i \in DOMAIN u}
  <2> TAKE j \in DOMAIN t
  <2>1. Len(s) + j \in DOMAIN u /\ u[Len(s) + j] = t[j]
    BY <1>2, <1>4 DEF u
  <2> QED BY <2>1
<1>8. E(u) = E(s) \cup E(t)
  BY <1>5, <1>6, <1>7 DEF E
<1> QED
  BY <1>1, <1>3, <1>4, <1>8 DEF u

(* The lists the code starts with.                                         *)
FirstList   == SchemaSql \o <<Branch>>
MigrateList == MigrateSchema \o EnsureMetaDefaults

LEMMA ShortLists ==
  /\ SchemaSql \in Seq(Statement) /\ Len(SchemaSql) = 3 /\ E(SchemaSql) = {Create(t) : t \in Tables}
  /\ <<Branch>> \in Seq(Statement) /\ Len(<<Branch>>) = 1 /\ E(<<Branch>>) = {Branch}
  /\ \A k \in Keys : <<Write(k)>> \in Seq(Statement) /\ Len(<<Write(k)>>) = 1
                       /\ E(<<Write(k)>>) = {Write(k)}
  /\ InitializeMeta \in Seq(Statement) /\ E(InitializeMeta) = {Write(k) : k \in Keys}
  /\ EnsureMetaDefaults \in Seq(Statement) /\ Len(EnsureMetaDefaults) = 3
  /\ E(EnsureMetaDefaults) = {Ensure(k) : k \in Keys \ {"schema_version"}}
<1> USE Names DEF Create, Branch, Write, Ensure, Tables, Statement, E
<1>1. SchemaSql \in Seq(Statement) /\ Len(SchemaSql) = 3 /\ E(SchemaSql) = {Create(t) : t \in Tables}
  <2>1. DOMAIN SchemaSql = 1..3 /\ SchemaSql[1] = Create("events")
        /\ SchemaSql[2] = Create("snapshots") /\ SchemaSql[3] = Create("meta")
    BY DEF SchemaSql
  <2>2. SchemaSql \in Seq(Statement) /\ Len(SchemaSql) = 3
    BY DEF SchemaSql
  <2> QED BY <2>1, <2>2
<1>2. <<Branch>> \in Seq(Statement) /\ Len(<<Branch>>) = 1 /\ E(<<Branch>>) = {Branch}
  OBVIOUS
<1>3. \A k \in Keys : <<Write(k)>> \in Seq(Statement) /\ Len(<<Write(k)>>) = 1
                        /\ E(<<Write(k)>>) = {Write(k)}
  OBVIOUS
<1>4. InitializeMeta \in Seq(Statement) /\ E(InitializeMeta) = {Write(k) : k \in Keys}
  <2>1. /\ DOMAIN InitializeMeta = 1..4
        /\ InitializeMeta[1] = Write("schema_version") /\ InitializeMeta[2] = Write("op_format_version")
        /\ InitializeMeta[3] = Write("snapshot_format_version")
        /\ InitializeMeta[4] = Write("station_instance_id")
    BY DEF InitializeMeta
  <2>2. InitializeMeta \in Seq(Statement)
    <3>1. /\ Write("schema_version") \in Statement /\ Write("op_format_version") \in Statement
          /\ Write("snapshot_format_version") \in Statement
          /\ Write("station_instance_id") \in Statement
      OBVIOUS
    <3> QED BY ONLY <3>1, Tuples DEF InitializeMeta
  <2> QED BY <2>1, <2>2
<1>5. /\ EnsureMetaDefaults \in Seq(Statement) /\ Len(EnsureMetaDefaults) = 3
      /\ E(EnsureMetaDefaults) = {Ensure(k) : k \in Keys \ {"schema_version"}}
  <2>1. /\ DOMAIN EnsureMetaDefaults = 1..3
        /\ EnsureMetaDefaults[1] = Ensure("op_format_version")
        /\ EnsureMetaDefaults[2] = Ensure("snapshot_format_version")
        /\ EnsureMetaDefaults[3] = Ensure("station_instance_id")
    BY DEF EnsureMetaDefaults
  <2>2. EnsureMetaDefaults \in Seq(Statement) /\ Len(EnsureMetaDefaults) = 3
    <3>1. /\ Ensure("op_format_version") \in Statement
          /\ Ensure("snapshot_format_version") \in Statement
          /\ Ensure("station_instance_id") \in Statement
      OBVIOUS
    <3> QED BY ONLY <3>1, Tuples DEF EnsureMetaDefaults
  <2> QED BY <2>1, <2>2
<1> QED
  BY <1>1, <1>2, <1>3, <1>4, <1>5

------------------------------------------------------------------------------
(* The inductive invariant                                                 *)

FileOK(f) == /\ f = [tables |-> f.tables, meta |-> f.meta]
             /\ f.tables \subseteq Tables
             /\ DOMAIN f.meta \subseteq Keys
             /\ f.meta \in [DOMAIN f.meta -> Nat]

Status == {"down", "opening", "open", "refused"}

Types == /\ FileOK(file) /\ origin \in Files
         /\ opener \in [Openers -> [status : Status, todo : Seq(Statement)]]
         /\ \A o \in Openers : opener[o].status # "opening" => opener[o].todo = << >>

(* The branch on the schema version comes last.                            *)
BranchLast(todo) == \A i \in DOMAIN todo : todo[i] = Branch => i = Len(todo)

(* Whatever the file lacks is among the statements L that are left.        *)
Covered(L, f) ==
  /\ \A t \in Tables : t \in f.tables \/ Create(t) \in L
  /\ \/ Branch \in L \/ Write("schema_version") \in L
     \/ "schema_version" \in DOMAIN f.meta /\ f.meta["schema_version"] = DB_SCHEMA_VERSION
  /\ \A k \in Keys \ {"schema_version"} :
       \/ Branch \in L \/ Write(k) \in L \/ Ensure(k) \in L
       \/ k \in DOMAIN f.meta /\ (k \in Formats => f.meta[k] <= Release[k])

Progress == \A o \in Openers : Busy(o) => Covered(Left(o), file) /\ BranchLast(opener[o].todo)

(* On a file of a newer release an attempt creates tables, reads versions, *)
(* and is refused before it reaches a statement that writes a row.         *)
StillCreating(o) ==
  Branch \in Left(o) /\ \A stmt \in Left(o) : stmt.do \in {"create", "branch"}

StillChecking(o) ==
  /\ origin.meta["schema_version"] = DB_SCHEMA_VERSION
  /\ \/ opener[o].todo = EnsureMetaDefaults
     \/ /\ Newer(origin.meta, "snapshot_format_version")
        /\ opener[o].todo # << >> /\ Head(opener[o].todo) = Ensure("snapshot_format_version")

Untouched ==
  FromNewerRelease =>
    /\ file.meta = origin.meta
    /\ \A o \in Openers : /\ opener[o].status # "open"
                          /\ opener[o].status = "opening" => StillCreating(o) \/ StillChecking(o)

IInv == Types /\ Progress /\ Untouched

(* Statements add tables and rows, and overwrite only with this release.   *)
Grows(f, g) == /\ f.tables \subseteq g.tables
               /\ DOMAIN f.meta \subseteq DOMAIN g.meta
               /\ \A k \in DOMAIN f.meta : g.meta[k] \in {f.meta[k], Release[k]}

(* What the file has, the steps of other openers do not take away.         *)
LEMMA CoveredGrows ==
  ASSUME NEW L, NEW f, NEW g, FileOK(f), Covered(L, f), Grows(f, g)
  PROVE  Covered(L, g)
<1>1. \A t \in Tables : t \in g.tables \/ Create(t) \in L
  BY DEF Covered, Grows
<1>2. \/ Branch \in L \/ Write("schema_version") \in L
      \/ "schema_version" \in DOMAIN g.meta /\ g.meta["schema_version"] = DB_SCHEMA_VERSION
  <2>1. Release["schema_version"] = DB_SCHEMA_VERSION
    BY DEF Release
  <2> QED BY <2>1 DEF Covered, Grows
<1>3. ASSUME NEW k \in Keys \ {"schema_version"}
      PROVE  \/ Branch \in L \/ Write(k) \in L \/ Ensure(k) \in L
             \/ k \in DOMAIN g.meta /\ (k \in Formats => g.meta[k] <= Release[k])
  <2>1. Release[k] = 1
    BY Names
  <2> QED BY <2>1 DEF Covered, Grows
<1> QED
  BY <1>1, <1>2, <1>3 DEF Covered

(* The statements left of an opener's list.                                *)
LEMMA NextStatement ==
  ASSUME Types, NEW o \in Openers, opener[o].todo # << >>
  PROVE  LET todo == opener[o].todo IN
         /\ opener[o].status = "opening"
         /\ todo \in Seq(Statement) /\ Tail(todo) \in Seq(Statement)
         /\ Head(todo) \in Statement /\ Len(todo) \in Nat /\ Len(todo) >= 1
         /\ Len(Tail(todo)) = Len(todo) - 1
         /\ \A i \in 1..(Len(todo) - 1) : Tail(todo)[i] = todo[i + 1]
         /\ Head(todo) = todo[1]
         /\ E(todo) = {Head(todo)} \cup E(Tail(todo)) /\ Left(o) = E(todo)
<1> DEFINE todo == opener[o].todo
<1>1. todo \in Seq(Statement) /\ todo # << >> /\ opener[o].status = "opening"
  BY DEF Types
<1>2. Left(o) = E(todo)
  BY DEF Left, E
<1> HIDE DEF todo
<1>3. /\ Tail(todo) \in Seq(Statement) /\ Head(todo) \in Statement
      /\ Len(todo) \in Nat /\ Len(todo) >= 1 /\ Len(Tail(todo)) = Len(todo) - 1
      /\ \A i \in 1..(Len(todo) - 1) : Tail(todo)[i] = todo[i + 1]
      /\ Head(todo) = todo[1] /\ E(todo) = {Head(todo)} \cup E(Tail(todo))
  BY <1>1, HeadAndTail
<1> QED
  BY <1>1, <1>2, <1>3 DEF todo

(* A list without its first statement still has the branch at its end.     *)
LEMMA BranchLastTail ==
  ASSUME Types, NEW o \in Openers, opener[o].todo # << >>, BranchLast(opener[o].todo)
  PROVE  BranchLast(Tail(opener[o].todo))
<1> DEFINE todo == opener[o].todo
           rest == Tail(todo)
<1>1. /\ rest \in Seq(Statement) /\ Len(todo) \in Nat /\ Len(rest) = Len(todo) - 1
      /\ \A i \in 1..(Len(todo) - 1) : rest[i] = todo[i + 1]
      /\ DOMAIN todo = 1..Len(todo) /\ DOMAIN rest = 1..Len(rest)
  BY NextStatement
<1>2. \A i \in DOMAIN todo : todo[i] = Branch => i = Len(todo)
  BY DEF BranchLast
<1> HIDE DEF todo, rest
<1>3. ASSUME NEW i \in DOMAIN rest, rest[i] = Branch PROVE i = Len(rest)
  <2>1. i + 1 \in DOMAIN todo /\ todo[i + 1] = Branch
    BY <1>1, <1>3
  <2> QED BY <2>1, <1>1, <1>2
<1> QED
  BY <1>3 DEF BranchLast, todo, rest

------------------------------------------------------------------------------
(* The steps                                                               *)

(* One opener moves on to the list `todo`, and the file to `file'`.        *)
LEMMA StepOf ==
  ASSUME IInv, NEW o \in Openers, NEW st \in Status, NEW todo \in Seq(Statement),
         opener' = [opener EXCEPT ![o] = [status |-> st, todo |-> todo]],
         st # "opening" => todo = << >>,
         FileOK(file'), Grows(file, file'), origin' = origin,
         st \in {"opening", "open"} => Covered(E(todo), file') /\ BranchLast(todo)
  PROVE  Types' /\ Progress'
<1> USE DEF IInv
<1>1. /\ opener'[o] = [status |-> st, todo |-> todo]
      /\ \A p \in Openers \ {o} : opener'[p] = opener[p]
  BY DEF Types
<1>2. Types'
  <2>1. opener' \in [Openers -> [status : Status, todo : Seq(Statement)]]
    BY DEF Types
  <2>2. \A p \in Openers : opener'[p].status # "opening" => opener'[p].todo = << >>
    BY <1>1 DEF Types
  <2> QED BY <2>1, <2>2 DEF Types
<1>3. ASSUME NEW p \in Openers, Busy(p)' PROVE Covered(Left(p)', file') /\ BranchLast(opener'[p].todo)
  <2>1. CASE p = o
    <3>1. Left(p)' = E(todo) /\ opener'[p].todo = todo /\ st \in {"opening", "open"}
      BY <2>1, <1>1, <1>3 DEF Left, E, Busy
    <3> QED BY <3>1
  <2>2. CASE p # o
    <3>1. opener'[p] = opener[p]
      BY <2>2, <1>1
    <3>2. Left(p)' = Left(p) /\ Busy(p) /\ opener'[p].todo = opener[p].todo
      BY <3>1, <1>3 DEF Left, Busy
    <3>3. Covered(Left(p), file) /\ BranchLast(opener[p].todo)
      BY <3>2 DEF Progress
    <3>4. Covered(Left(p), file')
      BY <3>3, CoveredGrows DEF Types
    <3> QED BY <3>2, <3>3, <3>4
  <2> QED BY <2>1, <2>2
<1> QED
  BY <1>2, <1>3 DEF Progress

(* On a file of a newer release: the same for what protects its rows.      *)
LEMMA UntouchedStep ==
  ASSUME IInv, NEW o \in Openers, NEW st \in Status, NEW todo \in Seq(Statement),
         opener' = [opener EXCEPT ![o] = [status |-> st, todo |-> todo]],
         origin' = origin, FromNewerRelease => file'.meta = file.meta,
         FromNewerRelease => st # "open",
         FromNewerRelease /\ st = "opening" => StillCreating(o)' \/ StillChecking(o)'
  PROVE  Untouched'
<1> USE DEF IInv
<1>1. /\ opener'[o] = [status |-> st, todo |-> todo]
      /\ \A p \in Openers \ {o} : opener'[p] = opener[p]
  BY DEF Types
<1>2. FromNewerRelease' <=> FromNewerRelease
  BY DEF FromNewerRelease
<1> SUFFICES ASSUME FromNewerRelease
             PROVE  /\ file'.meta = origin'.meta
                    /\ \A p \in Openers :
                         /\ opener'[p].status # "open"
                         /\ opener'[p].status = "opening" => StillCreating(p)' \/ StillChecking(p)'
  BY <1>2 DEF Untouched
<1>3. file'.meta = origin'.meta
  BY DEF Untouched
<1>4. ASSUME NEW p \in Openers
      PROVE  /\ opener'[p].status # "open"
             /\ opener'[p].status = "opening" => StillCreating(p)' \/ StillChecking(p)'
  <2>1. CASE p = o
    BY <2>1, <1>1
  <2>2. CASE p # o
    <3>1. opener'[p] = opener[p]
      BY <2>2, <1>1
    <3>2. StillCreating(p)' <=> StillCreating(p)
      BY <3>1 DEF StillCreating, Left
    <3>3. StillChecking(p)' <=> StillChecking(p)
      BY <3>1 DEF StillChecking
    <3> QED BY <3>1, <3>2, <3>3 DEF Untouched
  <2> QED BY <2>1, <2>2
<1> QED
  BY <1>3, <1>4

(* What a file of a newer release looks like.                              *)
LEMMA NewerFile ==
  ASSUME Types, FromNewerRelease
  PROVE  /\ "schema_version" \in DOMAIN origin.meta
         /\ \/ Newer(origin.meta, "schema_version")
            \/ /\ origin.meta["schema_version"] = DB_SCHEMA_VERSION
               /\ \/ Newer(origin.meta, "op_format_version")
                  \/ /\ Newer(origin.meta, "snapshot_format_version")
                     /\ "op_format_version" \in DOMAIN origin.meta
<1>1. /\ origin.meta \in [DOMAIN origin.meta -> Nat]
      /\ "op_format_version" \in DOMAIN origin.meta => "schema_version" \in DOMAIN origin.meta
      /\ "snapshot_format_version" \in DOMAIN origin.meta => "op_format_version" \in DOMAIN origin.meta
      /\ (\E key \in Formats : Newer(origin.meta, key)) => origin.meta["schema_version"] >= DB_SCHEMA_VERSION
  BY FilesAssumption DEF Types
<1>2. "schema_version" \in DOMAIN origin.meta
  BY <1>1 DEF FromNewerRelease, Newer, Formats
<1>3. origin.meta["schema_version"] \in Nat
  BY <1>1, <1>2
<1>4. Release["schema_version"] = DB_SCHEMA_VERSION /\ DB_SCHEMA_VERSION = 1
  BY DEF Release, DB_SCHEMA_VERSION
<1>5. CASE Newer(origin.meta, "schema_version")
  BY <1>2, <1>5
<1>6. CASE ~ Newer(origin.meta, "schema_version")
  <2>1. \E key \in Formats : Newer(origin.meta, key)
    BY <1>6 DEF FromNewerRelease
  <2>2. origin.meta["schema_version"] = DB_SCHEMA_VERSION
    BY <2>1, <1>1, <1>2, <1>3, <1>4, <1>6 DEF Newer
  <2>3. \/ Newer(origin.meta, "op_format_version")
        \/ /\ Newer(origin.meta, "snapshot_format_version")
           /\ "op_format_version" \in DOMAIN origin.meta
    BY <2>1, <1>1 DEF Newer, Formats
  <2> QED BY <1>2, <2>2, <2>3
<1> QED
  BY <1>5, <1>6

(* An attempt begins with the first four statements.                       *)
LEMMA StartInv ==
  ASSUME IInv, NEW o \in Openers, Start(o)
  PROVE  IInv'
<1> DEFINE todo == FirstList
<1>1. /\ todo \in Seq(Statement) /\ Len(todo) = 4
      /\ E(todo) = {Create(t) : t \in Tables} \cup {Branch}
      /\ BranchLast(todo)
  <2>1. /\ todo \in Seq(Statement) /\ Len(todo) = 3 + 1
        /\ \A i \in 1..3 : todo[i] = SchemaSql[i]
        /\ E(todo) = E(SchemaSql) \cup E(<<Branch>>)
    <3> DEFINE b == <<Branch>>
    <3>1. SchemaSql \in Seq(Statement) /\ b \in Seq(Statement) /\ Len(SchemaSql) = 3 /\ Len(b) = 1
      BY ShortLists
    <3>2. todo = SchemaSql \o b
      BY DEF FirstList
    <3> HIDE DEF b, todo
    <3>4. /\ SchemaSql \o b \in Seq(Statement) /\ Len(SchemaSql \o b) = Len(SchemaSql) + Len(b)
          /\ \A i \in 1..Len(SchemaSql) : (SchemaSql \o b)[i] = SchemaSql[i]
          /\ E(SchemaSql \o b) = E(SchemaSql) \cup E(b)
      BY <3>1, InARow, SMTT(30)
    <3>3. /\ todo \in Seq(Statement) /\ Len(todo) = 3 + 1
          /\ \A i \in 1..3 : todo[i] = SchemaSql[i]
          /\ E(todo) = E(SchemaSql) \cup E(b)
      BY <3>1, <3>2, <3>4
    <3> QED BY <3>3 DEF b
  <2>2. \A i \in 1..3 : SchemaSql[i] \in {Create(t) : t \in Tables}
    <3>1. DOMAIN SchemaSql = 1..3 /\ \A i \in DOMAIN SchemaSql : SchemaSql[i] \in E(SchemaSql)
      BY ShortLists DEF E
    <3> QED BY <3>1, ShortLists
  <2>3. \A t \in Tables : Create(t) # Branch
    BY DEF Create, Branch
  <2>4. DOMAIN todo = 1..4
    BY <2>1
  <2>5. BranchLast(todo)
    BY <2>1, <2>2, <2>3, <2>4 DEF BranchLast
  <2> QED BY <2>1, <2>5, ShortLists
<1> HIDE DEF todo
<1>2. /\ opener' = [opener EXCEPT ![o] = [status |-> "opening", todo |-> todo]]
      /\ file' = file /\ origin' = origin
  BY DEF Start, FirstList, todo
<1>3. Covered(E(todo), file)
  BY <1>1 DEF Covered
<1>4. FileOK(file') /\ Grows(file, file')
  BY <1>2 DEF IInv, Types, Grows
<1>5. Types' /\ Progress'
  BY <1>1, <1>2, <1>3, <1>4, StepOf DEF Status
<1>6. StillCreating(o)'
  <2>1. Left(o)' = E(todo)
    BY <1>2 DEF IInv, Types, Left, E
  <2>2. \A stmt \in E(todo) : stmt.do \in {"create", "branch"}
    BY <1>1 DEF Create, Branch
  <2> QED BY <1>1, <2>1, <2>2 DEF StillCreating
<1>7. Untouched'
  BY <1>1, <1>2, <1>6, UntouchedStep DEF Status
<1> QED
  BY <1>5, <1>7 DEF IInv

(* An attempt ends early, by a crash or a refusal.                         *)
LEMMA EndInv ==
  ASSUME IInv, NEW o \in Openers, NEW st \in {"down", "refused"},
         opener' = [opener EXCEPT ![o] = [status |-> st, todo |-> << >>]],
         UNCHANGED <<file, origin>>
  PROVE  IInv'
<1>1. FileOK(file') /\ Grows(file, file') /\ << >> \in Seq(Statement)
  BY DEF IInv, Types, Grows
<1>2. Types' /\ Progress'
  BY <1>1, StepOf DEF Status
<1>3. Untouched'
  BY <1>1, UntouchedStep DEF Status
<1> QED
  BY <1>2, <1>3 DEF IInv

(* The last statement of an attempt is done.                               *)
LEMMA FinishInv ==
  ASSUME IInv, NEW o \in Openers, Finish(o)
  PROVE  IInv'
<1>1. /\ opener[o].status = "opening" /\ opener[o].todo = << >>
      /\ file' = file /\ origin' = origin /\ << >> \in Seq(Statement)
  BY DEF Finish
<1>2. opener' = [opener EXCEPT ![o] = [status |-> "open", todo |-> << >>]]
  <2>1. opener[o] = [status |-> "opening", todo |-> << >>]
    BY <1>1 DEF IInv, Types
  <2>2. opener' = [opener EXCEPT ![o] = [opener[o] EXCEPT !.status = "open"]]
    BY DEF Finish
  <2>3. [opener[o] EXCEPT !.status = "open"] = [status |-> "open", todo |-> << >>]
    BY <2>1
  <2> QED BY <2>2, <2>3
<1>3. FileOK(file') /\ Grows(file, file')
  BY <1>1 DEF IInv, Types, Grows
<1>4. Left(o) = E(<< >>) /\ E(<< >>) = {}
  BY <1>1 DEF Left, E
<1>5. Covered(E(<< >>), file') /\ BranchLast(<< >>)
  BY <1>1, <1>4 DEF IInv, Progress, Busy
<1>6. Types' /\ Progress'
  BY <1>1, <1>2, <1>3, <1>5, StepOf DEF Status
<1>7. ~ FromNewerRelease
  <2> SUFFICES ASSUME FromNewerRelease PROVE FALSE
    OBVIOUS
  <2>1. StillCreating(o) \/ StillChecking(o)
    BY <1>1 DEF IInv, Untouched
  <2>2. CASE StillCreating(o)
    BY <2>2, <1>4 DEF StillCreating
  <2>3. CASE StillChecking(o)
    BY <2>3, <1>1, ShortLists DEF StillChecking
  <2> QED BY <2>1, <2>2, <2>3
<1>8. Untouched'
  BY <1>1, <1>2, <1>7, UntouchedStep DEF Status
<1> QED
  BY <1>6, <1>8 DEF IInv

(* An opener that keeps opening, with another list.                        *)
LEMMA StepAs ==
  ASSUME Types, NEW o \in Openers, opener[o].todo # << >>, NEW todo, Step(o, todo)
  PROVE  opener' = [opener EXCEPT ![o] = [status |-> "opening", todo |-> todo]]
<1>1. opener[o].status = "opening" /\ opener[o] \in [status : Status, todo : Seq(Statement)]
  BY NextStatement DEF Types
<1>2. [opener[o] EXCEPT !.todo = todo] = [status |-> "opening", todo |-> todo]
  BY <1>1
<1>3. opener' = [opener EXCEPT ![o] = [opener[o] EXCEPT !.todo = todo]]
  BY DEF Step
<1> QED
  BY <1>2, <1>3

(* CREATE TABLE IF NOT EXISTS.                                             *)
LEMMA CreateInv ==
  ASSUME IInv, NEW o \in Openers, opener[o].todo # << >>, origin' = origin,
         CreateTable(o, Head(opener[o].todo), Tail(opener[o].todo))
  PROVE  IInv'
<1> DEFINE todo == opener[o].todo
           stmt == Head(todo)
           rest == Tail(todo)
<1>0. Types /\ Progress /\ Untouched
  BY DEF IInv
<1>1. /\ opener[o].status = "opening" /\ rest \in Seq(Statement) /\ stmt \in Statement
      /\ Left(o) = {stmt} \cup E(rest)
  BY <1>0, NextStatement
<1>2. /\ opener' = [opener EXCEPT ![o] = [status |-> "opening", todo |-> rest]]
      /\ file' = [file EXCEPT !.tables = @ \cup {stmt.what}] /\ stmt.do = "create"
  BY <1>0, StepAs DEF CreateTable
<1>3. Covered(Left(o), file) /\ BranchLast(rest)
  BY <1>0, <1>1, BranchLastTail DEF Progress, Busy
<1> HIDE DEF stmt, rest
<1>4. stmt = Create(stmt.what) /\ stmt.what \in Tables
  BY <1>1, <1>2 DEF Statement, Create, Branch, Write, Ensure
<1>5. file'.tables = file.tables \cup {stmt.what} /\ file'.meta = file.meta /\ FileOK(file')
  BY <1>0, <1>2, <1>4 DEF Types, FileOK
<1>6. Grows(file, file')
  BY <1>5 DEF Grows
<1>7. Covered(E(rest), file')
  <2>1. \A t \in Tables : Create(t) = stmt => t = stmt.what
    BY DEF Create
  <2>2. Branch # stmt /\ \A k : Write(k) # stmt /\ Ensure(k) # stmt
    BY <1>2 DEF Branch, Write, Ensure
  <2> QED BY <1>1, <1>3, <1>5, <2>1, <2>2 DEF Covered
<1>8. Types' /\ Progress'
  BY <1>1, <1>2, <1>3, <1>5, <1>6, <1>7, StepOf DEF Status
<1>9. ASSUME FromNewerRelease PROVE StillCreating(o)'
  <2>1. ~ StillChecking(o)
    <3> SUFFICES ASSUME StillChecking(o) PROVE FALSE
      OBVIOUS
    <3>1. stmt \in {Ensure("op_format_version"), Ensure("snapshot_format_version")}
      BY DEF StillChecking, EnsureMetaDefaults, stmt
    <3> QED BY <3>1, <1>2 DEF Ensure
  <2>2. StillCreating(o)
    BY <1>0, <1>1, <1>9, <2>1 DEF Untouched
  <2>3. Left(o)' = E(rest)
    BY <1>0, <1>2 DEF Types, Left, E
  <2>4. stmt # Branch
    BY <1>2 DEF Branch
  <2> QED BY <1>1, <2>2, <2>3, <2>4 DEF StillCreating
<1>10. Untouched'
  BY <1>1, <1>2, <1>5, <1>9, UntouchedStep DEF Status
<1> QED
  BY <1>8, <1>10 DEF IInv

(* A meta row is written, or only ensured.                                 *)
LEMMA WriteInv ==
  ASSUME IInv, NEW o \in Openers, opener[o].todo # << >>, origin' = origin,
         WriteMeta(o, Head(opener[o].todo), Tail(opener[o].todo))
  PROVE  IInv'
<1> DEFINE todo == opener[o].todo
           stmt == Head(todo)
           rest == Tail(todo)
           key  == stmt.what
<1>0. Types /\ Progress /\ Untouched
  BY DEF IInv
<1>1. /\ opener[o].status = "opening" /\ rest \in Seq(Statement) /\ stmt \in Statement
      /\ Left(o) = {stmt} \cup E(rest)
  BY <1>0, NextStatement
<1>2. /\ opener' = [opener EXCEPT ![o] = [status |-> "opening", todo |-> rest]]
      /\ file' = [file EXCEPT !.meta = [k \in DOMAIN file.meta \cup {key} |->
                                          IF k = key THEN Release[k] ELSE file.meta[k]]]
      /\ stmt.do = "write"
  BY <1>0, StepAs DEF WriteMeta
<1>3. Covered(Left(o), file) /\ BranchLast(rest)
  BY <1>0, <1>1, BranchLastTail DEF Progress, Busy
<1> HIDE DEF stmt, rest
<1>4. stmt = Write(key) /\ key \in Keys
  BY <1>1, <1>2 DEF Statement, Create, Branch, Write, Ensure
<1> HIDE DEF key
<1>5. /\ file'.tables = file.tables
      /\ DOMAIN file'.meta = DOMAIN file.meta \cup {key}
      /\ file'.meta[key] = Release[key]
      /\ \A k \in DOMAIN file.meta \ {key} : file'.meta[k] = file.meta[k]
      /\ file' = [tables |-> file'.tables, meta |-> file'.meta]
  BY <1>0, <1>2 DEF Types, FileOK
<1>6. Release[key] = 1 /\ DB_SCHEMA_VERSION = 1
  BY <1>4, Names DEF DB_SCHEMA_VERSION
<1>7. FileOK(file') /\ Grows(file, file')
  <2>1. file'.meta \in [DOMAIN file'.meta -> Nat]
    BY <1>0, <1>2, <1>4, <1>6 DEF Types, FileOK
  <2> QED BY <1>0, <1>4, <1>5, <2>1 DEF FileOK, Grows, Types
<1>8. Covered(E(rest), file')
  <2>1. \A k : Write(k) = stmt => k = key
    BY <1>4 DEF Write
  <2>2. Branch # stmt /\ \A k : Create(k) # stmt /\ Ensure(k) # stmt
    BY <1>2 DEF Branch, Create, Ensure
  <2>3. Covered(Left(o), file')
    BY <1>0, <1>3, <1>7, CoveredGrows DEF Types
  <2> QED BY <1>1, <1>5, <1>6, <2>1, <2>2, <2>3 DEF Covered
<1>9. Types' /\ Progress'
  BY <1>1, <1>2, <1>3, <1>7, <1>8, StepOf DEF Status
<1>10. ~ FromNewerRelease
  <2> SUFFICES ASSUME FromNewerRelease PROVE FALSE
    OBVIOUS
  <2>1. StillCreating(o) \/ StillChecking(o)
    BY <1>0, <1>1 DEF Untouched
  <2>2. CASE StillCreating(o)
    BY <1>1, <1>2, <2>2 DEF StillCreating
  <2>3. CASE StillChecking(o)
    <3>1. stmt \in {Ensure("op_format_version"), Ensure("snapshot_format_version")}
      BY <2>3 DEF StillChecking, EnsureMetaDefaults, stmt
    <3> QED BY <3>1, <1>2 DEF Ensure
  <2> QED BY <2>1, <2>2, <2>3
<1>11. Untouched'
  BY <1>1, <1>2, <1>10, UntouchedStep DEF Status
<1> QED
  BY <1>9, <1>11 DEF IInv

(* Reading the schema version picks a list that covers what is missing.    *)
LEMMA BranchInv ==
  ASSUME IInv, NEW o \in Openers, opener[o].todo # << >>, UNCHANGED <<origin, file>>,
         Head(opener[o].todo).do = "branch", ~ Unsupported(file.meta, "schema_version"),
         Step(o, StatementsFor(file.meta))
  PROVE  IInv'
<1> DEFINE todo == opener[o].todo
           stmt == Head(todo)
           rest == Tail(todo)
           next == StatementsFor(file.meta)
           meta == file.meta
<1>0. Types /\ Progress /\ Untouched
  BY DEF IInv
<1>1. /\ opener[o].status = "opening" /\ rest \in Seq(Statement) /\ stmt \in Statement
      /\ Left(o) = {stmt} \cup E(rest)
      /\ todo \in Seq(Statement) /\ stmt = todo[1] /\ Len(todo) >= 1 /\ Len(rest) = Len(todo) - 1
  BY <1>0, NextStatement
<1>2. opener' = [opener EXCEPT ![o] = [status |-> "opening", todo |-> next]] /\ stmt.do = "branch"
  BY <1>0, StepAs
<1>3. Covered(Left(o), file) /\ BranchLast(todo)
  BY <1>0, <1>1 DEF Progress, Busy
<1> HIDE DEF todo, stmt, rest, next, meta
<1>4. stmt = Branch
  BY <1>1, <1>2 DEF Statement, Create, Branch, Write, Ensure
<1>5. E(rest) = {}
  <2>1. Len(todo) = 1
    <3>1. 1 \in DOMAIN todo /\ todo[1] = Branch
      BY <1>1, <1>4
    <3> QED BY <3>1, <1>3 DEF BranchLast
  <2>2. rest = << >>
    BY <2>1, <1>1
  <2> QED BY <2>2 DEF E
<1>6. file.tables = Tables
  <2>1. \A t : Create(t) # Branch
    BY DEF Create, Branch
  <2> QED BY <1>0, <1>1, <1>3, <1>4, <1>5, <2>1 DEF Covered, Types, FileOK
<1>7. /\ "schema_version" \in DOMAIN meta => meta["schema_version"] \in Nat /\ meta["schema_version"] <= 1
      /\ DB_SCHEMA_VERSION = 1
  <2>1. Release["schema_version"] = 1 /\ DB_SCHEMA_VERSION = 1
    BY Names DEF DB_SCHEMA_VERSION
  <2> QED BY <1>0, <2>1 DEF Types, FileOK, Unsupported, Newer, meta
<1>8. \/ "schema_version" \notin DOMAIN meta /\ next = InitializeMeta
      \/ /\ "schema_version" \in DOMAIN meta /\ meta["schema_version"] = DB_SCHEMA_VERSION
         /\ next = EnsureMetaDefaults
      \/ /\ "schema_version" \in DOMAIN meta /\ meta["schema_version"] < DB_SCHEMA_VERSION
         /\ next = MigrateList
  <2>1. CASE "schema_version" \notin DOMAIN meta
    <3>1. next = InitializeMeta
      BY <2>1 DEF next, meta, StatementsFor
    <3> QED BY <2>1, <3>1
  <2>2. CASE "schema_version" \in DOMAIN meta /\ meta["schema_version"] = DB_SCHEMA_VERSION
    <3>1. next = EnsureMetaDefaults
      BY <2>2, <1>7 DEF next, meta, StatementsFor
    <3> QED BY <2>2, <3>1
  <2>3. CASE "schema_version" \in DOMAIN meta /\ meta["schema_version"] # DB_SCHEMA_VERSION
    <3>1. meta["schema_version"] < DB_SCHEMA_VERSION
      BY <2>3, <1>7
    <3>2. next = MigrateSchema \o EnsureMetaDefaults
      BY <2>3, <3>1 DEF next, meta, StatementsFor
    <3> QED BY <2>3, <3>1, <3>2 DEF MigrateList
  <2> QED BY <2>1, <2>2, <2>3
<1>9. /\ MigrateList \in Seq(Statement)
      /\ E(MigrateList) = E(SchemaSql) \cup {Write("schema_version")} \cup E(EnsureMetaDefaults)
  <2> DEFINE w == <<Write("schema_version")>>
  <2>1. SchemaSql \in Seq(Statement) /\ w \in Seq(Statement) /\ EnsureMetaDefaults \in Seq(Statement)
        /\ E(w) = {Write("schema_version")}
    BY ShortLists, Names
  <2>2. MigrateSchema = SchemaSql \o w
    BY DEF MigrateSchema
  <2> HIDE DEF w
  <2>3. MigrateSchema \in Seq(Statement) /\ E(MigrateSchema) = E(SchemaSql) \cup E(w)
    BY <2>1, <2>2, InARow
  <2>4. MigrateSchema \o EnsureMetaDefaults \in Seq(Statement)
        /\ E(MigrateSchema \o EnsureMetaDefaults) = E(MigrateSchema) \cup E(EnsureMetaDefaults)
    BY <2>1, <2>3, InARow
  <2> QED BY <2>1, <2>3, <2>4 DEF MigrateList
<1>10. next \in Seq(Statement) /\ Branch \notin E(next)
  <2>1. \A k : Create(k) # Branch /\ Write(k) # Branch /\ Ensure(k) # Branch
    BY DEF Create, Branch, Write, Ensure
  <2>2. /\ Branch \notin {Write(k) : k \in Keys}
        /\ Branch \notin {Ensure(k) : k \in Keys \ {"schema_version"}}
        /\ Branch \notin {Create(t) : t \in Tables}
    BY <2>1
  <2>3. CASE next = InitializeMeta
    BY <2>2, <2>3, ShortLists
  <2>4. CASE next = EnsureMetaDefaults
    BY <2>2, <2>4, ShortLists
  <2>5. CASE next = MigrateList
    BY <1>9, <2>1, <2>2, <2>5, ShortLists
  <2> QED BY <1>8, <2>3, <2>4, <2>5
<1>11. BranchLast(next)
  BY <1>10 DEF BranchLast, E
<1>12. Covered(E(next), file)
  <2>1. CASE next = InitializeMeta
    BY <1>6, <2>1, ShortLists, Names DEF Covered
  <2>2. CASE next # InitializeMeta
    <3>1. \A k \in Keys \ {"schema_version"} : Ensure(k) \in E(next)
      BY <1>8, <1>9, <2>2, ShortLists
    <3>2. \/ Write("schema_version") \in E(next)
          \/ "schema_version" \in DOMAIN meta /\ meta["schema_version"] = DB_SCHEMA_VERSION
      <4>1. Write("schema_version") \in E(MigrateList)
        BY <1>9
      <4>2. CASE next = MigrateList
        BY <4>1, <4>2
      <4>3. CASE next # MigrateList
        BY <1>8, <2>2, <4>3
      <4> QED BY <4>2, <4>3
    <3> QED BY <1>6, <3>1, <3>2 DEF Covered, meta
  <2> QED BY <2>1, <2>2
<1>13. FileOK(file') /\ Grows(file, file')
  BY <1>0 DEF Types, Grows
<1>14. Types' /\ Progress'
  BY <1>2, <1>10, <1>11, <1>12, <1>13, StepOf DEF Status
<1>15. ASSUME FromNewerRelease PROVE StillChecking(o)'
  <2>1. meta = origin.meta
    BY <1>0, <1>15 DEF Untouched, meta
  <2>2. "schema_version" \in DOMAIN meta /\ ~ Newer(meta, "schema_version")
    BY <1>0, <1>15, <2>1, NewerFile DEF Unsupported, meta
  <2>3. origin.meta["schema_version"] = DB_SCHEMA_VERSION
    BY <1>0, <1>15, <2>1, <2>2, NewerFile
  <2>4. next = EnsureMetaDefaults
    BY <1>7, <1>8, <2>1, <2>2, <2>3
  <2>5. opener'[o].todo = next
    BY <1>0, <1>2 DEF Types
  <2> QED BY <2>3, <2>4, <2>5 DEF StillChecking
<1>16. Untouched'
  BY <1>2, <1>10, <1>15, UntouchedStep DEF Status
<1> QED
  BY <1>14, <1>16 DEF IInv

(* A row that is there was read, one that is missing is written next.      *)
LEMMA EnsureInv ==
  ASSUME IInv, NEW o \in Openers, opener[o].todo # << >>, UNCHANGED <<origin, file>>,
         Head(opener[o].todo).do = "ensure", NEW key, key = Head(opener[o].todo).what,
         ~ Unsupported(file.meta, key),
         Step(o, IF key \in DOMAIN file.meta THEN Tail(opener[o].todo)
                 ELSE <<Write(key)>> \o Tail(opener[o].todo))
  PROVE  IInv'
<1> DEFINE todo == opener[o].todo
           stmt == Head(todo)
           rest == Tail(todo)
           w    == <<Write(key)>>
           next == IF key \in DOMAIN file.meta THEN rest ELSE w \o rest
<1>0. Types /\ Progress /\ Untouched
  BY DEF IInv
<1>1. /\ opener[o].status = "opening" /\ rest \in Seq(Statement) /\ stmt \in Statement
      /\ Left(o) = {stmt} \cup E(rest)
  BY <1>0, NextStatement
<1>2. opener' = [opener EXCEPT ![o] = [status |-> "opening", todo |-> next]] /\ stmt.do = "ensure"
  BY <1>0, StepAs
<1>3. Covered(Left(o), file) /\ BranchLast(rest)
  BY <1>0, <1>1, BranchLastTail DEF Progress, Busy
<1>4. stmt = Ensure(key) /\ key \in Keys \ {"schema_version"}
  <2>1. stmt \in {Ensure(k) : k \in Keys \ {"schema_version"}}
    BY <1>1, <1>2 DEF Statement, Create, Branch, Write, Ensure
  <2> QED BY <2>1 DEF Ensure
<1>5. w \in Seq(Statement) /\ Len(w) = 1 /\ E(w) = {Write(key)} /\ w[1] = Write(key)
  BY <1>4, ShortLists
<1> HIDE DEF todo, stmt, rest, w
<1>6. /\ w \o rest \in Seq(Statement) /\ Len(w \o rest) = Len(w) + Len(rest)
      /\ (w \o rest)[1] = w[1]
      /\ \A i \in 1..Len(rest) : (w \o rest)[Len(w) + i] = rest[i]
      /\ E(w \o rest) = E(w) \cup E(rest)
  <2>1. 1 \in 1..Len(w)
    BY <1>5
  <2>2. rest \in Seq(Statement) /\ w \in Seq(Statement)
    BY <1>1, <1>5
  <2>3. /\ w \o rest \in Seq(Statement) /\ Len(w \o rest) = Len(w) + Len(rest)
        /\ \A i \in 1..Len(w) : (w \o rest)[i] = w[i]
        /\ \A i \in 1..Len(rest) : (w \o rest)[Len(w) + i] = rest[i]
        /\ E(w \o rest) = E(w) \cup E(rest)
    BY <2>2, InARow, SMTT(30)
  <2> QED BY <2>1, <2>3
<1>7. /\ next \in Seq(Statement)
      /\ E(next) = IF key \in DOMAIN file.meta THEN E(rest) ELSE {Write(key)} \cup E(rest)
  BY <1>1, <1>5, <1>6
<1>8. BranchLast(next)
  <2>1. CASE key \in DOMAIN file.meta
    BY <2>1, <1>3
  <2>2. CASE key \notin DOMAIN file.meta
    <3> DEFINE v == w \o rest
    <3>1. /\ v \in Seq(Statement) /\ Len(v) = 1 + Len(rest) /\ v[1] = Write(key)
          /\ \A i \in 1..Len(rest) : v[1 + i] = rest[i]
      BY <1>5, <1>6
    <3> HIDE DEF v
    <3>2. Len(rest) \in Nat /\ DOMAIN rest = 1..Len(rest) /\ DOMAIN v = 1..(1 + Len(rest))
      BY <1>1, <3>1
    <3>3. ASSUME NEW i \in DOMAIN v, v[i] = Branch PROVE i = Len(v)
      <4>1. i # 1
        BY <3>1, <3>3 DEF Branch, Write
      <4>2. i - 1 \in DOMAIN rest /\ v[1 + (i - 1)] = v[i]
        BY <4>1, <3>2
      <4>3. rest[i - 1] = Branch
        BY <4>2, <3>1, <3>2, <3>3
      <4>4. i - 1 = Len(rest)
        BY <4>2, <4>3, <1>3 DEF BranchLast
      <4> QED BY <4>4, <3>1, <3>2
    <3> QED BY <3>3, <2>2 DEF BranchLast, v
  <2> QED BY <2>1, <2>2
<1> HIDE DEF next
<1>9. Covered(E(next), file)
  <2>1. stmt # Branch /\ \A k : Create(k) # stmt /\ Write(k) # stmt
    BY <1>4 DEF Branch, Create, Write, Ensure
  <2>2. \A k : Ensure(k) = stmt => k = key
    BY <1>4 DEF Ensure
  <2>3. key \in DOMAIN file.meta => (key \in Formats => file.meta[key] <= Release[key])
    <3>1. Release[key] = 1 /\ (key \in DOMAIN file.meta => file.meta[key] \in Nat)
      BY <1>0, <1>4, Names DEF Types, FileOK
    <3> QED BY <3>1 DEF Unsupported, Newer, Formats
  <2>4. E(rest) \subseteq E(next)
    BY <1>7
  <2>5. \A t \in Tables : t \in file.tables \/ Create(t) \in E(next)
    BY <1>1, <1>3, <2>1, <2>4 DEF Covered
  <2>6. \/ Branch \in E(next) \/ Write("schema_version") \in E(next)
        \/ "schema_version" \in DOMAIN file.meta /\ file.meta["schema_version"] = DB_SCHEMA_VERSION
    BY <1>1, <1>3, <2>1, <2>4 DEF Covered
  <2>7. ASSUME NEW k \in Keys \ {"schema_version"}
        PROVE  \/ Branch \in E(next) \/ Write(k) \in E(next) \/ Ensure(k) \in E(next)
               \/ k \in DOMAIN file.meta /\ (k \in Formats => file.meta[k] <= Release[k])
    <3>1. CASE k = key
      BY <3>1, <1>7, <2>3
    <3>2. CASE k # key
      BY <3>2, <1>1, <1>3, <2>1, <2>2, <2>4 DEF Covered
    <3> QED BY <3>1, <3>2
  <2> QED BY <2>5, <2>6, <2>7 DEF Covered
<1>10. FileOK(file') /\ Grows(file, file')
  BY <1>0 DEF Types, Grows
<1>11. Types' /\ Progress'
  BY <1>2, <1>7, <1>8, <1>9, <1>10, StepOf DEF Status
<1>12. ASSUME FromNewerRelease PROVE StillChecking(o)'
  <2>1. file.meta = origin.meta
    BY <1>0, <1>12 DEF Untouched
  <2>2. stmt \in Left(o) /\ stmt.do = "ensure"
    BY <1>1, <1>2
  <2>3. StillChecking(o)
    BY <1>0, <1>1, <1>12, <2>2 DEF Untouched, StillCreating
  <2>4. ~ Newer(origin.meta, key) \/ key = "station_instance_id"
    BY <2>1 DEF Unsupported
  <2>5. todo = EnsureMetaDefaults
    <3>1. CASE Newer(origin.meta, "snapshot_format_version")
               /\ stmt = Ensure("snapshot_format_version")
      BY <3>1, <1>4, <2>4 DEF Ensure
    <3> QED BY <2>3, <3>1 DEF StillChecking, todo, stmt
  <2>6. key = "op_format_version" /\ rest # << >> /\ Head(rest) = Ensure("snapshot_format_version")
    BY <1>4, <2>5 DEF stmt, rest, EnsureMetaDefaults, Ensure
  <2>7. /\ Newer(origin.meta, "snapshot_format_version") /\ key \in DOMAIN origin.meta
        /\ origin.meta["schema_version"] = DB_SCHEMA_VERSION
    <3>1. origin.meta["schema_version"] = DB_SCHEMA_VERSION
      BY <2>3 DEF StillChecking
    <3>2. ~ Newer(origin.meta, "schema_version")
      BY <3>1 DEF Newer, Release, DB_SCHEMA_VERSION
    <3> QED BY <1>0, <1>12, <2>4, <2>6, <3>1, <3>2, NewerFile
  <2>8. opener'[o].todo = rest
    BY <1>0, <1>2, <2>1, <2>7 DEF Types, next
  <2> QED BY <2>6, <2>7, <2>8 DEF StillChecking
<1>13. Untouched'
  BY <1>2, <1>7, <1>12, UntouchedStep DEF Status
<1> QED
  BY <1>11, <1>13 DEF IInv

------------------------------------------------------------------------------
(* The theorems                                                            *)

(* Every statement of every opener keeps the invariant, in any order and   *)
(* with any number of attempts that end early.                             *)
THEOREM OpenInvariant == Spec => []IInv
<1>1. Init => IInv
  <2> SUFFICES ASSUME Init PROVE IInv
    OBVIOUS
  <2>1. \A o \in Openers : opener[o] = [status |-> "down", todo |-> << >>]
    BY DEF Init
  <2>2. Types
    <3>1. FileOK(file)
      BY FilesAssumption DEF Init, FileOK
    <3>2. opener \in [Openers -> [status : Status, todo : Seq(Statement)]]
      BY DEF Init, Status
    <3> QED BY <2>1, <3>1, <3>2 DEF Init, Types
  <2> QED BY <2>1, <2>2 DEF Init, IInv, Progress, Busy, Untouched
<1>2. IInv /\ [Next]_vars => IInv'
  <2> SUFFICES ASSUME IInv, [Next]_vars PROVE IInv'
    OBVIOUS
  <2>1. ASSUME NEW o \in Openers, Start(o) PROVE IInv'
    BY <2>1, StartInv
  <2>2. ASSUME NEW o \in Openers, Execute(o) PROVE IInv'
    <3> DEFINE stmt == Head(opener[o].todo)
               rest == Tail(opener[o].todo)
    <3>1. opener[o].todo # << >> /\ origin' = origin
      BY <2>2 DEF Execute
    <3>2. CASE CreateTable(o, stmt, rest)
      BY <3>1, <3>2, CreateInv
    <3>3. CASE WriteMeta(o, stmt, rest)
      BY <3>1, <3>3, WriteInv
    <3>4. CASE ReadVersion(o, stmt, rest)
      <4>1. stmt \in Statement
        BY <3>1, NextStatement DEF IInv
      <4>2. CASE stmt.do = "branch"
        <5>1. stmt.what = "schema_version"
          BY <4>1, <4>2 DEF Statement, Create, Branch, Write, Ensure
        <5>2. Step(o, StatementsFor(file.meta)) /\ file' = file /\ ~ Unsupported(file.meta, "schema_version")
          BY <3>4, <4>2, <5>1 DEF ReadVersion
        <5> QED BY <3>1, <4>2, <5>2, BranchInv
      <4>3. CASE stmt.do # "branch"
        <5>1. stmt.do = "ensure" /\ file' = file /\ ~ Unsupported(file.meta, stmt.what)
          BY <3>4, <4>3 DEF ReadVersion
        <5>2. Step(o, IF stmt.what \in DOMAIN file.meta THEN rest ELSE <<Write(stmt.what)>> \o rest)
          BY <3>4, <4>3 DEF ReadVersion
        <5> QED BY <3>1, <5>1, <5>2, EnsureInv
      <4> QED BY <4>2, <4>3
    <3>5. CASE Refuse(o, stmt)
      BY <3>1, <3>5, EndInv DEF Refuse
    <3> QED BY <2>2, <3>2, <3>3, <3>4, <3>5 DEF Execute
  <2>3. ASSUME NEW o \in Openers, Finish(o) PROVE IInv'
    BY <2>3, FinishInv
  <2>4. ASSUME NEW o \in Openers, Crash(o) PROVE IInv'
    BY <2>4, EndInv DEF Crash
  <2>5. CASE UNCHANGED vars
    <3>1. UNCHANGED <<file, origin, opener>>
      BY <2>5 DEF vars
    <3>2. \A o \in Openers : Left(o)' = Left(o) /\ (Busy(o)' <=> Busy(o))
      BY <3>1 DEF Left, Busy
    <3>3. \A o \in Openers : (StillCreating(o)' <=> StillCreating(o)) /\ (StillChecking(o)' <=> StillChecking(o))
      BY <3>1, <3>2 DEF StillCreating, StillChecking
    <3>4. Types' /\ Progress'
      BY <3>1, <3>2 DEF IInv, Types, Progress
    <3>5. Untouched'
      BY <3>1, <3>3 DEF IInv, Untouched, FromNewerRelease
    <3> QED BY <3>4, <3>5 DEF IInv
  <2> QED BY <2>1, <2>2, <2>3, <2>4, <2>5 DEF Next
<1> QED
  BY <1>1, <1>2, PTL DEF Spec

(* A file that open returned a sink for is complete, whoever else was      *)
(* opening it and whatever attempts ended early (persist/sqlite.rs:236).   *)
THEOREM OpenedFilesAreComplete == Spec => []OpenedIsComplete
<1>1. IInv => OpenedIsComplete
  <2> SUFFICES ASSUME IInv, NEW o \in Openers, opener[o].status = "open"
               PROVE  /\ file.tables = Tables /\ DOMAIN file.meta = Keys
                      /\ file.meta["schema_version"] = DB_SCHEMA_VERSION
                      /\ \A key \in Formats : file.meta[key] <= Release[key]
    BY DEF OpenedIsComplete
  <2>1. opener[o].todo = << >> /\ FileOK(file)
    BY DEF IInv, Types
  <2>2. Left(o) = {}
    BY <2>1 DEF Left
  <2>3. Covered({}, file)
    BY <2>2 DEF IInv, Progress, Busy
  <2>4. Formats \subseteq Keys \ {"schema_version"} /\ "schema_version" \in Keys
    BY Names DEF Formats
  <2> QED BY <2>1, <2>3, <2>4 DEF Covered, FileOK
<1> QED
  BY <1>1, OpenInvariant, PTL

(* A file of a newer release is never opened and keeps its rows            *)
(* (persist/sqlite.rs:261, 281, 294), however many attempts are made.      *)
THEOREM NewerFilesAreLeftAlone == Spec => []NewerFileUntouched
<1>1. IInv => NewerFileUntouched
  BY DEF IInv, Untouched, NewerFileUntouched
<1> QED
  BY <1>1, OpenInvariant, PTL

==============================================================================
