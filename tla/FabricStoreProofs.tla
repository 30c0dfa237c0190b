-------------------------- MODULE FabricStoreProofs --------------------------
(***************************************************************************)
(* Theorems about FabricStore for every set of keys and calls, every       *)
(* length of the histories and every content of the seeds.                 *)
(*                                                                         *)
(* The argument.  Handlers only prepend rows with new ids and change       *)
(* fields other than a row's id and slug: the rows of a collection live on *)
(* (LivesOn).  So what the histories and the calls in flight refer to stays*)
(* there, in the store and, since a snapshot is taken whole, in the file.  *)
(* StoreInv says all of this of both; it also says that what is about to be*)
(* renamed is the store itself, which is what makes the rename a save.     *)
(***************************************************************************)
EXTENDS FabricStore, SequenceTheorems, FiniteSetTheorems, FiniteFacts, TLAPS

Steps == {"idle", "proxying", "invoking", "running", "done"}
LogEntry == [key : Keys \cup {0}, outcome : {"ok", "error", "unproxied"}]
Collections == [apis : Seq(Row), workflows : Seq(Row), servers : Seq(Row),
                logs : Seq(LogEntry), runs : Seq(Keys)]

(* Rows with ids up to n, each its own.                                    *)
RowsOK(rows, n) ==
    /\ rows \in Seq(Row)
    /\ \A i, j \in DOMAIN rows : rows[i].id \in 1 .. n /\ (rows[i].id = rows[j].id => i = j)

(* The rows are still there, under their ids and slugs.                    *)
LivesOn(old, new) ==
    \A i \in DOMAIN old : \E j \in DOMAIN new :
        new[j].id = old[i].id /\ new[j].slug = old[i].slug

AllLiveOn(old, new) ==
    /\ LivesOn(old.apis, new.apis)
    /\ LivesOn(old.workflows, new.workflows)
    /\ LivesOn(old.servers, new.servers)

RunsRefer(runs, rows) == \A i \in DOMAIN runs : Named(rows, runs[i]) # {}
LogsRefer(logs, rows) ==
    \A i \in DOMAIN logs : logs[i].outcome # "unproxied" => Named(rows, logs[i].key) # {}

Sound(st, n) ==
    /\ st \in Collections
    /\ RowsOK(st.apis, n) /\ RowsOK(st.workflows, n) /\ RowsOK(st.servers, n)
    /\ Len(st.logs) <= MaxLogs /\ Len(st.runs) <= MaxRuns
    /\ RunsRefer(st.runs, st.workflows)
    /\ LogsRefer(st.logs, st.apis)

CallsRefer ==
    \A c \in Calls :
        /\ calls[c].step = "proxying" => calls[c].key \in Keys /\ Named(store.apis, calls[c].key) # {}
        /\ calls[c].step = "running" => calls[c].key \in Keys /\ Named(store.workflows, calls[c].key) # {}

StoreInv ==
    /\ minted \in 0 .. MaxRows /\ restarts \in 0 .. MaxRestarts
    /\ timer \in BOOLEAN /\ pending \in BOOLEAN /\ writeFailed \in BOOLEAN
    /\ saving \in {"no", "writing", "renaming"}
    /\ disk.file \in {"none", "snapshot"}
    /\ calls \in [Calls -> [step : Steps, key : Keys \cup {0}]]
    /\ Sound(store, minted) /\ Sound(Hydrated(disk), minted)
    /\ CallsRefer
    /\ saving = "renaming" => tmp = Snapshot
    /\ UnsavedIsScheduled

-----------------------------------------------------------------------------
(* Facts about collections and histories.                                  *)

(* A reference to a collection outlives what lives on.                     *)
LEMMA NamedLivesOn ==
    ASSUME NEW old, NEW new, NEW k, LivesOn(old, new), Named(old, k) # {}
    PROVE  Named(new, k) # {}
  BY DEF LivesOn, Named

(* A collection that stays lives on.                                       *)
LEMMA LivesOnItself == ASSUME NEW rows PROVE LivesOn(rows, rows)
  BY DEF LivesOn

(* Ids already given out stay given out.                                   *)
LEMMA SoundLater ==
    ASSUME NEW st, NEW n \in Nat, NEW m \in Nat, n <= m, Sound(st, n)
    PROVE  Sound(st, m)
  <1>1. ASSUME NEW rows, RowsOK(rows, n) PROVE RowsOK(rows, m)
    BY <1>1 DEF RowsOK
  <1> QED
    BY <1>1 DEF Sound

(* The domain of a sequence.                                               *)
LEMMA SeqDomain == ASSUME NEW S, NEW s \in Seq(S) PROVE DOMAIN s = 1 .. Len(s)
  OBVIOUS

(* A sequence over a set is one over a larger set.                         *)
LEMMA Wider == ASSUME NEW S, NEW T, S \subseteq T PROVE Seq(S) \subseteq Seq(T)
  OBVIOUS

(* What stands in front of a sequence moves it back.                       *)
LEMMA FrontFacts ==
    ASSUME NEW S, NEW s \in Seq(S), NEW t \in Seq(S)
    PROVE  /\ s \o t \in Seq(S)
           /\ Len(s) \in Nat /\ Len(t) \in Nat
           /\ DOMAIN t = 1 .. Len(t)
           /\ DOMAIN (s \o t) = 1 .. Len(s) + Len(t)
           /\ Len(s \o t) = Len(s) + Len(t)
           /\ \A i \in 1 .. Len(s) : (s \o t)[i] = s[i]
           /\ \A i \in 1 .. Len(s) + Len(t) :
                i > Len(s) => i - Len(s) \in 1 .. Len(t) /\ (s \o t)[i] = t[i - Len(s)]
           /\ \A i \in 1 .. Len(t) : (s \o t)[i + Len(s)] = t[i]
  OBVIOUS

(* Publishing and seeding: starters in front of a collection.              *)
LEMMA StartersFacts ==
    ASSUME NEW n \in Nat, NEW from \in Nat, NEW m \in 0 .. MaxRows,
           NEW slugs \in Seq(Keys), NEW old,
           RowsOK(old, n), n <= from, from + Len(slugs) <= m
    PROVE  RowsOK(Starters(slugs, from) \o old, m) /\ LivesOn(old, Starters(slugs, from) \o old)
  <1> DEFINE front == Starters(slugs, from)
             new == front \o old
  <1>0. MaxRows \in Nat /\ MaxEdits \in Nat
    BY FabricAssumption
  <1>1. Len(slugs) \in Nat /\ DOMAIN slugs = 1 .. Len(slugs)
        /\ \A i \in 1 .. Len(slugs) : slugs[i] \in Keys
    BY LenProperties
  <1>2. ASSUME NEW i \in 1 .. Len(slugs)
        PROVE  front[i] \in Row /\ front[i].id = from + i
    <2>1. front[i] = NewRow(from + i, slugs[i])
      BY <1>1 DEF Starters
    <2>2. from + i \in 1 .. MaxRows /\ slugs[i] \in Keys /\ 0 \in 0 .. MaxEdits
      BY <1>0, <1>1
    <2>3. NewRow(from + i, slugs[i]) \in Row
      BY <2>2 DEF NewRow, Row
    <2>4. NewRow(from + i, slugs[i]).id = from + i
      BY DEF NewRow
    <2> HIDE DEF front
    <2> QED
      BY <2>1, <2>3, <2>4
  <1>3. front \in Seq(Row) /\ Len(front) = Len(slugs)
    <2>1. front = [i \in 1 .. Len(slugs) |-> NewRow(from + i, slugs[i])]
      BY <1>1 DEF Starters
    <2> HIDE DEF front
    <2> QED
      BY <1>1, <1>2, <2>1
  <1>4. old \in Seq(Row)
    BY DEF RowsOK
  <1> HIDE DEF front
  <1>5. /\ new \in Seq(Row)
        /\ Len(old) \in Nat /\ DOMAIN old = 1 .. Len(old)
        /\ DOMAIN new = 1 .. Len(slugs) + Len(old)
        /\ \A i \in 1 .. Len(slugs) : new[i] = front[i]
        /\ \A i \in 1 .. Len(slugs) + Len(old) :
             i > Len(slugs) => i - Len(slugs) \in 1 .. Len(old) /\ new[i] = old[i - Len(slugs)]
        /\ \A i \in 1 .. Len(old) : new[i + Len(slugs)] = old[i]
    <2>1. /\ new \in Seq(Row)
          /\ Len(old) \in Nat /\ DOMAIN old = 1 .. Len(old)
          /\ DOMAIN new = 1 .. Len(front) + Len(old)
          /\ \A i \in 1 .. Len(front) : new[i] = front[i]
          /\ \A i \in 1 .. Len(front) + Len(old) :
               i > Len(front) => i - Len(front) \in 1 .. Len(old) /\ new[i] = old[i - Len(front)]
          /\ \A i \in 1 .. Len(old) : new[i + Len(front)] = old[i]
      <3>1. front \in Seq(Row)
        BY <1>3
      <3> QED
        BY ONLY <3>1, <1>4, FrontFacts
    <2> HIDE DEF new
    <2> QED
      BY <1>3, <2>1
  <1> HIDE DEF new
  <1>7. ASSUME NEW i \in DOMAIN new
        PROVE  IF i <= Len(slugs) THEN new[i].id = from + i
               ELSE i - Len(slugs) \in DOMAIN old /\ new[i] = old[i - Len(slugs)]
    BY <1>1, <1>2, <1>5
  <1>8. RowsOK(new, m)
    <2>1. ASSUME NEW i \in DOMAIN new
          PROVE  new[i].id \in 1 .. m /\ (i > Len(slugs) => new[i].id \in 1 .. n)
      BY <1>1, <1>5, <1>7 DEF RowsOK
    <2>2. ASSUME NEW i \in DOMAIN new, NEW j \in DOMAIN new, new[i].id = new[j].id
          PROVE  i = j
      <3>1. CASE i <= Len(slugs) /\ j <= Len(slugs)
        BY <3>1, <2>2, <1>1, <1>5, <1>7
      <3>2. CASE i > Len(slugs) /\ j > Len(slugs)
        <4>1. i - Len(slugs) = j - Len(slugs)
          BY <3>2, <2>2, <1>1, <1>5, <1>7 DEF RowsOK
        <4> QED
          BY <4>1, <1>1, <1>5
      <3>3. CASE i <= Len(slugs) /\ j > Len(slugs)
        BY <3>3, <2>1, <2>2, <1>1, <1>5, <1>7
      <3>4. CASE i > Len(slugs) /\ j <= Len(slugs)
        BY <3>4, <2>1, <2>2, <1>1, <1>5, <1>7
      <3> QED
        BY <3>1, <3>2, <3>3, <3>4, <1>1, <1>5
    <2> QED
      BY <2>1, <2>2, <1>5 DEF RowsOK
  <1>9. LivesOn(old, new)
    <2> SUFFICES ASSUME NEW i \in DOMAIN old
                 PROVE  \E j \in DOMAIN new : new[j].id = old[i].id /\ new[j].slug = old[i].slug
      BY DEF LivesOn
    <2>1. i + Len(slugs) \in DOMAIN new /\ new[i + Len(slugs)] = old[i]
      BY <1>1, <1>5
    <2> QED
      BY <2>1
  <1> QED
    BY <1>8, <1>9 DEF new, front

(* What replaces a row by one with its id and slug keeps a collection.     *)
LEMMA ReplacedFacts ==
    ASSUME NEW n \in Nat, NEW old, NEW new, RowsOK(old, n), DOMAIN new = DOMAIN old,
           new = [i \in DOMAIN old |-> new[i]],
           \A i \in DOMAIN old :
             new[i] \in Row /\ new[i].id = old[i].id /\ new[i].slug = old[i].slug
    PROVE  RowsOK(new, n) /\ LivesOn(old, new)
  <1>1. Len(old) \in Nat /\ DOMAIN old = 1 .. Len(old)
    BY LenProperties DEF RowsOK
  <1>2. new \in [1 .. Len(old) -> Row]
    BY <1>1, Zenon
  <1>3. new \in Seq(Row)
    BY <1>1, <1>2
  <1> QED
    BY <1>3 DEF RowsOK, LivesOn

(* bumpApiStats changes counters only.                                     *)
LEMMA CountedFacts ==
    ASSUME NEW n \in Nat, NEW rows, RowsOK(rows, n), NEW k, NEW ok \in BOOLEAN
    PROVE  RowsOK(Counted(rows, k, ok), n) /\ LivesOn(rows, Counted(rows, k, ok))
  <1> DEFINE new == Counted(rows, k, ok)
  <1>1. DOMAIN new = DOMAIN rows /\ new = [i \in DOMAIN rows |-> new[i]]
    BY DEF Counted
  <1>2. ASSUME NEW i \in DOMAIN rows
        PROVE  new[i] \in Row /\ new[i].id = rows[i].id /\ new[i].slug = rows[i].slug
    <2>1. rows[i] \in Row
      BY <1>2, LenProperties, ElementOfSeq DEF RowsOK
    <2>2. \/ new[i] = rows[i]
          \/ new[i] = [rows[i] EXCEPT !.requests = @ + 1,
                                      !.successes = @ + (IF ok THEN 1 ELSE 0)]
      BY <1>2 DEF Counted
    <2> HIDE DEF new
    <2>3. CASE new[i] = rows[i]
      BY <2>1, <2>3
    <2>4. CASE new[i] # rows[i]
      <3>1. PICK a \in {0, 1} :
              new[i] = [rows[i] EXCEPT !.requests = @ + 1, !.successes = @ + a]
        BY <2>2, <2>4
      <3>2. /\ rows[i].id \in 1 .. MaxRows /\ rows[i].slug \in Keys
            /\ rows[i].edits \in 0 .. MaxEdits
            /\ rows[i].requests + 1 \in Nat /\ rows[i].successes + a \in Nat
        BY <2>1 DEF Row
      <3>3. new[i] = [id |-> rows[i].id, slug |-> rows[i].slug, edits |-> rows[i].edits,
                      requests |-> rows[i].requests + 1, successes |-> rows[i].successes + a]
        BY <2>1, <3>1 DEF Row
      <3> QED
        BY <3>2, <3>3 DEF Row
    <2> QED
      BY <2>3, <2>4
  <1> HIDE DEF new
  <1>3. RowsOK(new, n) /\ LivesOn(rows, new)
    BY <1>1, <1>2, ReplacedFacts
  <1> QED
    BY <1>3 DEF new

(* So does an edit.                                                        *)
LEMMA EditedFacts ==
    ASSUME NEW n \in Nat, NEW rows, RowsOK(rows, n), NEW k, NEW v \in {0, 1},
           \A i \in DOMAIN rows : rows[i].edits < MaxEdits,
           NEW found \in Found(rows, k)
    PROVE  /\ RowsOK([rows EXCEPT ![found].edits = @ + v], n)
           /\ LivesOn(rows, [rows EXCEPT ![found].edits = @ + v])
  <1> DEFINE new == [rows EXCEPT ![found].edits = @ + v]
  <1>0. MaxEdits \in Nat /\ found \in DOMAIN rows
    BY FabricAssumption DEF Found, Named
  <1>1. DOMAIN new = DOMAIN rows /\ new = [i \in DOMAIN rows |-> new[i]]
    OBVIOUS
  <1>2. ASSUME NEW i \in DOMAIN rows
        PROVE  new[i] \in Row /\ new[i].id = rows[i].id /\ new[i].slug = rows[i].slug
    <2>1. rows[i] \in Row
      BY <1>2, LenProperties, ElementOfSeq DEF RowsOK
    <2>2. new[i] = rows[i] \/ new[i] = [rows[i] EXCEPT !.edits = @ + v]
      BY <1>2
    <2> HIDE DEF new
    <2>3. rows[i].edits < MaxEdits /\ rows[i].edits \in 0 .. MaxEdits
      BY <1>2, <2>1 DEF Row
    <2>4. rows[i].edits + v \in 0 .. MaxEdits
      BY <1>0, <2>3
    <2> QED
      BY <2>1, <2>2, <2>4 DEF Row
  <1> HIDE DEF new
  <1>3. RowsOK(new, n) /\ LivesOn(rows, new)
    BY <1>1, <1>2, ReplacedFacts
  <1> QED
    BY <1>3 DEF new

(* A history holds an entry, and for the rest what it held before.         *)
DrawnFrom(new, e, old) ==
    \A i \in DOMAIN new : new[i] = e \/ \E j \in DOMAIN old : new[i] = old[j]

(* A history cut at its limit is a history.                                *)
LEMMA TrimmedFacts ==
    ASSUME NEW S, NEW e \in S, NEW s \in Seq(S), NEW max \in Nat,
           NEW t, t = Trimmed(<<e>> \o s, max)
    PROVE  t \in Seq(S) /\ Len(t) <= max /\ DrawnFrom(t, e, s)
  <1> DEFINE whole == <<e>> \o s
  <1>0. t = Trimmed(whole, max)
    OBVIOUS
  <1>1. <<e>> \in Seq(S) /\ Len(<<e>>) = 1 /\ <<e>>[1] = e
    OBVIOUS
  <1>2. /\ whole \in Seq(S) /\ Len(s) \in Nat /\ Len(whole) = 1 + Len(s)
        /\ DOMAIN s = 1 .. Len(s) /\ DOMAIN whole = 1 .. Len(whole)
        /\ whole[1] = e
        /\ \A i \in 1 .. 1 + Len(s) : i > 1 => i - 1 \in 1 .. Len(s) /\ whole[i] = s[i - 1]
    BY <1>1, FrontFacts
  <1> HIDE DEF whole
  <1>3. ASSUME NEW i \in 1 .. Len(whole)
        PROVE  whole[i] = e \/ \E j \in DOMAIN s : whole[i] = s[j]
    <2>1. CASE i = 1
      BY <1>2, <2>1
    <2>2. CASE i # 1
      <3>1. i \in 1 .. 1 + Len(s) /\ i > 1
        BY <1>2, <2>2
      <3>2. i - 1 \in DOMAIN s /\ whole[i] = s[i - 1]
        BY <1>2, <3>1
      <3> QED
        BY <3>2
    <2> QED
      BY <2>1, <2>2
  <1>4. CASE Len(whole) > max
    <2>1. t = SubSeq(whole, 1, max)
      BY <1>0, <1>4 DEF Trimmed
    <2>2. \A i \in 1 .. max : whole[i] \in S
      BY <1>2, <1>4
    <2>3. t \in Seq(S) /\ Len(t) = max /\ \A i \in 1 .. max : t[i] = whole[i]
      <3>1. /\ whole \in Seq(S) /\ max \in Nat /\ Len(whole) \in Nat
            /\ DOMAIN whole = 1 .. Len(whole)
        BY <1>2
      <3> QED
        BY ONLY <3>1, <1>4, <2>1, <2>2
    <2>4. DOMAIN t = 1 .. Len(t)
      <3>1. t \in Seq(S)
        BY <2>3
      <3> QED
        BY ONLY <3>1, SeqDomain
    <2>5. \A i \in 1 .. max : i \in 1 .. Len(whole)
      BY <1>2, <1>4
    <2>6. \A i \in DOMAIN t : t[i] = e \/ \E j \in DOMAIN s : t[i] = s[j]
      BY ONLY <1>3, <2>3, <2>4, <2>5
    <2> QED
      BY <2>3, <2>6 DEF DrawnFrom
  <1>5. CASE ~(Len(whole) > max)
    <2>1. t = whole
      BY <1>0, <1>5 DEF Trimmed
    <2>2. Len(whole) <= max
      BY <1>2, <1>5
    <2>3. t \in Seq(S) /\ Len(t) <= max
      BY <1>2, <2>1, <2>2
    <2>4. \A i \in DOMAIN t : t[i] = e \/ \E j \in DOMAIN s : t[i] = s[j]
      BY <1>2, <1>3, <2>1
    <2> QED
      BY <2>3, <2>4 DEF DrawnFrom
  <1> QED
    BY <1>4, <1>5

-----------------------------------------------------------------------------
(* What handlers make of a sound store is sound.                           *)

(* Histories stay referring when rows live on and new entries refer.       *)
LEMMA SoundStep ==
    ASSUME NEW old, NEW new, NEW n \in Nat, Sound(old, n), NEW m \in Nat, n <= m,
           new \in Collections, AllLiveOn(old, new),
           RowsOK(new.apis, m), RowsOK(new.workflows, m), RowsOK(new.servers, m),
           Len(new.logs) <= MaxLogs, Len(new.runs) <= MaxRuns,
           \A i \in DOMAIN new.runs :
              \/ Named(new.workflows, new.runs[i]) # {}
              \/ \E j \in DOMAIN old.runs : new.runs[i] = old.runs[j],
           \A i \in DOMAIN new.logs :
              \/ new.logs[i].outcome = "unproxied"
              \/ Named(new.apis, new.logs[i].key) # {}
              \/ \E j \in DOMAIN old.logs : new.logs[i] = old.logs[j]
    PROVE  Sound(new, m)
  <1>1. \A k : Named(old.workflows, k) # {} => Named(new.workflows, k) # {}
    BY NamedLivesOn DEF AllLiveOn
  <1>2. \A k : Named(old.apis, k) # {} => Named(new.apis, k) # {}
    BY NamedLivesOn DEF AllLiveOn
  <1>3. RunsRefer(new.runs, new.workflows)
    BY <1>1 DEF Sound, RunsRefer
  <1>4. LogsRefer(new.logs, new.apis)
    BY <1>2 DEF Sound, LogsRefer
  <1> QED
    BY <1>3, <1>4 DEF Sound

(* The rows are replaced or joined by others, the histories stay.          *)
LEMMA SoundRows ==
    ASSUME NEW old, NEW n \in Nat, Sound(old, n), NEW m \in Nat, n <= m,
           NEW new, new \in Collections,
           new.logs = old.logs, new.runs = old.runs,
           RowsOK(new.apis, m), RowsOK(new.workflows, m), RowsOK(new.servers, m),
           AllLiveOn(old, new)
    PROVE  Sound(new, m)
  <1>1. Len(new.logs) <= MaxLogs /\ Len(new.runs) <= MaxRuns
    BY DEF Sound
  <1>2. \A i \in DOMAIN new.runs : \E j \in DOMAIN old.runs : new.runs[i] = old.runs[j]
    OBVIOUS
  <1>3. \A i \in DOMAIN new.logs : \E j \in DOMAIN old.logs : new.logs[i] = old.logs[j]
    OBVIOUS
  <1> QED
    BY <1>1, <1>2, <1>3, SoundStep, Zenon

(* One collection changes.                                                 *)
LEMMA SoundKind ==
    ASSUME NEW old, NEW n \in Nat, Sound(old, n), NEW m \in Nat, n <= m,
           NEW kind \in Kinds, NEW rows, RowsOK(rows, m), LivesOn(old[kind], rows),
           NEW new, new = [old EXCEPT ![kind] = rows]
    PROVE  Sound(new, m) /\ AllLiveOn(old, new)
  <1>1. old \in Collections /\ Sound(old, m)
    BY SoundLater DEF Sound
  <1>2. /\ RowsOK(old.apis, m) /\ RowsOK(old.workflows, m) /\ RowsOK(old.servers, m)
        /\ LivesOn(old.apis, old.apis) /\ LivesOn(old.workflows, old.workflows)
        /\ LivesOn(old.servers, old.servers)
    BY <1>1, LivesOnItself DEF Sound
  <1>3. new \in Collections /\ new.logs = old.logs /\ new.runs = old.runs
    BY <1>1 DEF Collections, RowsOK, Kinds
  <1>4. /\ new.apis = IF kind = "apis" THEN rows ELSE old.apis
        /\ new.workflows = IF kind = "workflows" THEN rows ELSE old.workflows
        /\ new.servers = IF kind = "servers" THEN rows ELSE old.servers
    BY <1>1 DEF Collections, Kinds
  <1>5. /\ kind = "apis" => LivesOn(old.apis, rows)
        /\ kind = "workflows" => LivesOn(old.workflows, rows)
        /\ kind = "servers" => LivesOn(old.servers, rows)
    OBVIOUS
  <1>6. /\ RowsOK(new.apis, m) /\ RowsOK(new.workflows, m) /\ RowsOK(new.servers, m)
        /\ AllLiveOn(old, new)
    BY <1>2, <1>4, <1>5 DEF AllLiveOn
  <1> QED
    BY <1>3, <1>6, SoundRows, Zenon

(* A log is appended, with the counters of its call or without.            *)
LEMMA SoundLogged ==
    ASSUME NEW old, NEW n \in Nat, Sound(old, n), NEW apis, NEW e \in LogEntry,
           RowsOK(apis, n), LivesOn(old.apis, apis),
           e.outcome = "unproxied" \/ Named(apis, e.key) # {},
           NEW new,
           new = [old EXCEPT !.apis = apis, !.logs = Trimmed(<<e>> \o old.logs, MaxLogs)]
    PROVE  Sound(new, n) /\ AllLiveOn(old, new)
  <1>1. /\ MaxLogs \in Nat /\ old \in Collections
        /\ old.logs \in Seq(LogEntry) /\ e \in LogEntry
    BY FabricAssumption DEF Sound, Collections
  <1>2. PICK logs : logs = Trimmed(<<e>> \o old.logs, MaxLogs)
    OBVIOUS
  <1>3. /\ logs \in Seq(LogEntry) /\ Len(logs) <= MaxLogs
        /\ DrawnFrom(logs, e, old.logs)
    BY ONLY <1>1, <1>2, TrimmedFacts, Zenon
  <1>4. new = [old EXCEPT !.apis = apis, !.logs = logs]
    BY <1>2
  <1>5. /\ new \in Collections
        /\ new.apis = apis /\ new.workflows = old.workflows /\ new.servers = old.servers
        /\ new.logs = logs /\ new.runs = old.runs
    BY <1>1, <1>3, <1>4 DEF Collections, RowsOK
  <1>6. AllLiveOn(old, new)
    BY <1>5, LivesOnItself DEF AllLiveOn
  <1>7. RowsOK(new.workflows, n) /\ RowsOK(new.servers, n) /\ Len(new.runs) <= MaxRuns
    BY <1>5 DEF Sound
  <1>8. \A i \in DOMAIN new.logs :
            \/ new.logs[i].outcome = "unproxied"
            \/ Named(new.apis, new.logs[i].key) # {}
            \/ \E j \in DOMAIN old.logs : new.logs[i] = old.logs[j]
    BY <1>3, <1>5 DEF DrawnFrom
  <1>9. n <= n
    OBVIOUS
  <1>10. Sound(new, n)
    BY <1>3, <1>5, <1>6, <1>7, <1>8, <1>9, SoundStep, Zenon
  <1> QED
    BY <1>6, <1>10

(* A run is recorded.                                                      *)
LEMMA SoundRecorded ==
    ASSUME NEW old, NEW n \in Nat, Sound(old, n), NEW k \in Keys,
           Named(old.workflows, k) # {},
           NEW new, new = [old EXCEPT !.runs = Trimmed(<<k>> \o old.runs, MaxRuns)]
    PROVE  Sound(new, n) /\ AllLiveOn(old, new)
  <1>1. /\ MaxRuns \in Nat /\ old \in Collections
        /\ old.runs \in Seq(Keys) /\ k \in Keys
    BY FabricAssumption DEF Sound, Collections
  <1>2. PICK runs : runs = Trimmed(<<k>> \o old.runs, MaxRuns)
    OBVIOUS
  <1>3. /\ runs \in Seq(Keys) /\ Len(runs) <= MaxRuns
        /\ DrawnFrom(runs, k, old.runs)
    BY ONLY <1>1, <1>2, TrimmedFacts, Zenon
  <1>4. new = [old EXCEPT !.runs = runs]
    BY <1>2
  <1>5. /\ new \in Collections
        /\ new.apis = old.apis /\ new.workflows = old.workflows /\ new.servers = old.servers
        /\ new.logs = old.logs /\ new.runs = runs
    BY <1>1, <1>3, <1>4 DEF Collections
  <1>6. AllLiveOn(old, new)
    BY <1>5, LivesOnItself DEF AllLiveOn
  <1>7. /\ RowsOK(new.apis, n) /\ RowsOK(new.workflows, n) /\ RowsOK(new.servers, n)
        /\ Len(new.logs) <= MaxLogs
    BY <1>5 DEF Sound
  <1>8. \A i \in DOMAIN new.runs :
            \/ Named(new.workflows, new.runs[i]) # {}
            \/ \E j \in DOMAIN old.runs : new.runs[i] = old.runs[j]
    BY <1>3, <1>5 DEF DrawnFrom
  <1>9. n <= n
    OBVIOUS
  <1>10. Sound(new, n)
    BY <1>3, <1>5, <1>6, <1>7, <1>8, <1>9, SoundStep, Zenon
  <1> QED
    BY <1>6, <1>10

-----------------------------------------------------------------------------
(* Every step keeps StoreInv.                                              *)

(* A new process without a state file satisfies it.                        *)
LEMMA StoreInvInit == Init => StoreInv
  <1> SUFFICES ASSUME Init PROVE StoreInv
    OBVIOUS
  <1>1. /\ MaxRows \in Nat /\ MaxRestarts \in Nat /\ MaxLogs \in Nat /\ MaxRuns \in Nat
    BY FabricAssumption
  <1>2. Empty \in Collections /\ Len(Empty.logs) = 0 /\ Len(Empty.runs) = 0
    BY DEF Empty, Collections
  <1>3. Sound(Empty, 0)
    <2>1. RowsOK(<<>>, 0) /\ RunsRefer(<<>>, <<>>) /\ LogsRefer(<<>>, <<>>)
      BY DEF RowsOK, RunsRefer, LogsRefer
    <2> QED
      BY <1>1, <1>2, <2>1 DEF Sound, Empty
  <1>4. Hydrated(disk) = Empty /\ store = Empty /\ disk.file = "none"
    BY DEF Init, Hydrated, NoFile
  <1>5. calls \in [Calls -> [step : Steps, key : Keys \cup {0}]]
    BY DEF Init, Steps
  <1>6. CallsRefer
    BY DEF Init, CallsRefer
  <1>7. Sound(store, minted) /\ Sound(Hydrated(disk), minted)
    BY <1>3, <1>4 DEF Init
  <1>8. UnsavedIsScheduled
    BY <1>4 DEF UnsavedIsScheduled, Dirty
  <1>9. /\ minted \in 0 .. MaxRows /\ restarts \in 0 .. MaxRestarts
        /\ saving = "no"
    BY <1>1 DEF Init
  <1>10. timer \in BOOLEAN /\ pending \in BOOLEAN /\ writeFailed \in BOOLEAN
    BY Zenon DEF Init
  <1> QED
    BY <1>4, <1>5, <1>6, <1>7, <1>8, <1>9, <1>10 DEF StoreInv

(* Calls in flight still refer when rows live on.                          *)
LEMMA CallsStillRefer ==
    ASSUME CallsRefer, AllLiveOn(store, store'),
           \A c \in Calls : calls'[c].step \in {"proxying", "running"} => calls'[c] = calls[c]
    PROVE  CallsRefer'
  <1>1. \A k : Named(store.apis, k) # {} => Named(store'.apis, k) # {}
    BY NamedLivesOn DEF AllLiveOn
  <1>2. \A k : Named(store.workflows, k) # {} => Named(store'.workflows, k) # {}
    BY NamedLivesOn DEF AllLiveOn
  <1> SUFFICES ASSUME NEW c \in Calls
               PROVE  /\ calls'[c].step = "proxying" =>
                           calls'[c].key \in Keys /\ Named(store'.apis, calls'[c].key) # {}
                      /\ calls'[c].step = "running" =>
                           calls'[c].key \in Keys /\ Named(store'.workflows, calls'[c].key) # {}
    BY DEF CallsRefer
  <1> QED
    BY <1>1, <1>2 DEF CallsRefer

(* A handler that makes a sound store of a sound one.                      *)
LEMMA Mutation ==
    ASSUME StoreInv, NEW new, Mutates(new), minted' \in minted .. MaxRows,
           Sound(new, minted'), AllLiveOn(store, new),
           calls' \in [Calls -> [step : Steps, key : Keys \cup {0}]],
           \A c \in Calls : calls'[c].step \in {"proxying", "running"} => calls'[c] = calls[c]
    PROVE  StoreInv' /\ AllLiveOn(store, store') /\ disk' = disk
  <1>1. /\ store' = new /\ saving = "no" /\ saving' = "no" /\ tmp' = tmp /\ disk' = disk
        /\ restarts' = restarts /\ timer' = TRUE /\ pending' = TRUE /\ writeFailed' = FALSE
    BY DEF Mutates, ScheduleSave
  <1>2. minted \in Nat /\ minted' \in Nat /\ minted' \in 0 .. MaxRows /\ minted <= minted'
    BY FabricAssumption DEF StoreInv
  <1>3. Hydrated(disk') = Hydrated(disk)
    BY <1>1
  <1>4. Sound(Hydrated(disk)', minted')
    BY <1>2, <1>3, SoundLater DEF StoreInv
  <1>5. CallsRefer'
    BY <1>1, CallsStillRefer DEF StoreInv
  <1>6. UnsavedIsScheduled'
    BY <1>1 DEF UnsavedIsScheduled
  <1> QED
    BY <1>1, <1>2, <1>4, <1>5, <1>6 DEF StoreInv

(* A step of a call that leaves the store alone.                           *)
LEMMA CallStep ==
    ASSUME StoreInv, UNCHANGED <<store, timer, pending, saving, tmp, disk, minted, restarts, writeFailed>>,
           calls' \in [Calls -> [step : Steps, key : Keys \cup {0}]], CallsRefer'
    PROVE  StoreInv' /\ UNCHANGED <<store, disk>>
  <1>1. Sound(store, minted)' /\ Sound(Hydrated(disk), minted)'
    BY DEF StoreInv
  <1>2. UnsavedIsScheduled' /\ (saving = "renaming" => tmp = Snapshot)'
    BY DEF StoreInv, UnsavedIsScheduled, Dirty, Snapshot
  <1> QED
    BY <1>1, <1>2 DEF StoreInv

(* What Mutation asks of the calls when a handler leaves them alone, and   *)
(* when it ends one.                                                       *)
LEMMA CallsLeftAlone ==
    ASSUME StoreInv, calls' = calls \/ \E c \in Calls : Goto(c, "done", calls[c].key)
    PROVE  /\ calls' \in [Calls -> [step : Steps, key : Keys \cup {0}]]
           /\ \A c \in Calls : calls'[c].step \in {"proxying", "running"} => calls'[c] = calls[c]
  <1>1. CASE calls' = calls
    BY <1>1 DEF StoreInv
  <1>2. CASE \E c \in Calls : Goto(c, "done", calls[c].key)
    <2>1. PICK c \in Calls : calls' = [calls EXCEPT ![c] = [step |-> "done", key |-> calls[c].key]]
      BY <1>2 DEF Goto
    <2>2. calls \in [Calls -> [step : Steps, key : Keys \cup {0}]]
      BY DEF StoreInv
    <2>3. calls[c].key \in Keys \cup {0} /\ "done" \in Steps
      BY <2>2 DEF Steps
    <2> QED
      BY <2>1, <2>2, <2>3
  <1> QED
    BY <1>1, <1>2

(* What StoreInv says of the numbers and of the store.                     *)
LEMMA Numbers ==
    ASSUME StoreInv
    PROVE  /\ minted \in Nat /\ minted \in minted .. MaxRows /\ MaxRows \in Nat
           /\ Sound(store, minted) /\ store \in Collections
           /\ RowsOK(store.apis, minted) /\ RowsOK(store.workflows, minted)
           /\ RowsOK(store.servers, minted)
           /\ \A kind \in Kinds : RowsOK(store[kind], minted)
  <1>1. /\ minted \in Nat /\ minted \in minted .. MaxRows /\ MaxRows \in Nat
        /\ Sound(store, minted)
    BY FabricAssumption DEF StoreInv
  <1> QED
    BY <1>1 DEF Sound, Kinds

(* Publishing, whatever slugs are taken.                                   *)
LEMMA PublishStep ==
    ASSUME StoreInv, NEW kind \in Kinds, NEW slug \in Keys, Publish(kind, slug)
    PROVE  StoreInv' /\ AllLiveOn(store, store') /\ disk' = disk
  <1>1. PICK rows : rows = Starters(<<slug>>, minted) \o store[kind]
    OBVIOUS
  <1>2. minted' = minted + 1 /\ minted < MaxRows /\ calls' = calls
        /\ Mutates([store EXCEPT ![kind] = <<NewRow(minted + 1, slug)>> \o @])
    BY DEF Publish
  <1>3. minted' \in minted .. MaxRows /\ minted' \in Nat /\ minted <= minted'
        /\ minted' \in 0 .. MaxRows /\ minted \in Nat
    BY <1>2, Numbers
  <1>4. <<slug>> \in Seq(Keys) /\ minted + Len(<<slug>>) <= minted' /\ minted <= minted
    BY <1>2, <1>3
  <1>5. RowsOK(rows, minted') /\ LivesOn(store[kind], rows)
    BY <1>1, <1>3, <1>4, Numbers, StartersFacts
  <1>6. Starters(<<slug>>, minted) = <<NewRow(minted + 1, slug)>>
    BY DEF Starters
  <1>7. store \in Collections /\ Sound(store, minted)
    BY Numbers
  <1>8. PICK new : new = [store EXCEPT ![kind] = rows]
    OBVIOUS
  <1>9. Mutates(new)
    BY <1>1, <1>2, <1>6, <1>7, <1>8 DEF Collections, Kinds
  <1>10. Sound(new, minted') /\ AllLiveOn(store, new)
    BY <1>3, <1>5, <1>7, <1>8, SoundKind, Zenon
  <1> QED
    BY <1>2, <1>3, <1>9, <1>10, CallsLeftAlone, Mutation, Zenon

(* Editing, also when nothing changes.                                     *)
LEMMA EditStep ==
    ASSUME StoreInv, NEW kind \in {"workflows", "servers"}, NEW k, Edit(kind, k)
    PROVE  StoreInv' /\ AllLiveOn(store, store') /\ disk' = disk
  <1>1. PICK i \in Found(store[kind], k), v \in {0, 1} :
          Mutates([store EXCEPT ![kind][i].edits = @ + v])
    BY DEF Edit
  <1>2. PICK rows : rows = [store[kind] EXCEPT ![i].edits = @ + v]
    OBVIOUS
  <1>3. PICK new : new = [store EXCEPT ![kind] = rows]
    OBVIOUS
  <1>4. /\ minted' = minted /\ calls' = calls /\ kind \in Kinds
        /\ \A j \in DOMAIN store[kind] : store[kind][j].edits < MaxEdits
    BY DEF Edit, Kinds
  <1>5. /\ store \in Collections /\ Sound(store, minted) /\ minted \in Nat
        /\ RowsOK(store[kind], minted) /\ minted \in minted .. MaxRows /\ minted <= minted
    BY <1>4, Numbers
  <1>6. RowsOK(rows, minted) /\ LivesOn(store[kind], rows)
    BY <1>2, <1>4, <1>5, EditedFacts
  <1>7. Mutates(new)
    BY <1>1, <1>2, <1>3, <1>4, <1>5 DEF Collections, Kinds
  <1>8. Sound(new, minted) /\ AllLiveOn(store, new)
    BY <1>3, <1>4, <1>5, <1>6, SoundKind, Zenon
  <1> QED
    BY <1>4, <1>5, <1>7, <1>8, CallsLeftAlone, Mutation, Zenon

(* The orders in which a set of slugs can be created.                      *)
LEMMA SeedOrders ==
    ASSUME NEW wanted \in [Kinds -> SUBSET Keys], NEW kind \in Kinds,
           NEW slugs \in SetToSeqs(Missing(kind, wanted))
    PROVE  slugs \in Seq(Keys) /\ Len(slugs) \in Nat
  <1>1. Missing(kind, wanted) \subseteq Keys
    BY DEF Missing
  <1>2. IsFiniteSet(Missing(kind, wanted))
    BY <1>1, FabricAssumption, FS_Subset
  <1>3. Cardinality(Missing(kind, wanted)) \in Nat
    BY <1>2, FS_CardinalityType
  <1>4. slugs \in [1 .. Cardinality(Missing(kind, wanted)) -> Missing(kind, wanted)]
    BY DEF SetToSeqs
  <1>5. slugs \in [1 .. Cardinality(Missing(kind, wanted)) -> Keys]
    BY <1>1, <1>4
  <1>6. slugs \in Seq(Keys)
    BY <1>3, <1>5
  <1> QED
    BY <1>6, LenProperties

(* Seeding, in any order.                                                  *)
LEMMA SeedStep ==
    ASSUME StoreInv, NEW wanted \in [Kinds -> SUBSET Keys], Seed(wanted)
    PROVE  StoreInv' /\ AllLiveOn(store, store') /\ disk' = disk
  <1>1. PICK apis \in SetToSeqs(Missing("apis", wanted)),
             workflows \in SetToSeqs(Missing("workflows", wanted)),
             servers \in SetToSeqs(Missing("servers", wanted)) :
         /\ minted' = minted + Len(apis) + Len(workflows) + Len(servers)
         /\ minted' <= MaxRows
         /\ Mutates([store EXCEPT
              !.apis = Starters(apis, minted) \o @,
              !.workflows = Starters(workflows, minted + Len(apis)) \o @,
              !.servers = Starters(servers, minted + Len(apis) + Len(workflows)) \o @])
    BY DEF Seed
  <1>2. /\ apis \in Seq(Keys) /\ Len(apis) \in Nat
        /\ workflows \in Seq(Keys) /\ Len(workflows) \in Nat
        /\ servers \in Seq(Keys) /\ Len(servers) \in Nat
    BY SeedOrders DEF Kinds
  <1>3. /\ minted \in Nat /\ MaxRows \in Nat /\ store \in Collections /\ Sound(store, minted)
        /\ RowsOK(store.apis, minted) /\ RowsOK(store.workflows, minted)
        /\ RowsOK(store.servers, minted)
    BY Numbers
  <1>4. /\ minted' \in minted .. MaxRows /\ minted' \in 0 .. MaxRows /\ minted' \in Nat
        /\ minted <= minted' /\ calls' = calls
    BY <1>1, <1>2, <1>3 DEF Seed
  <1>5. PICK a, w, s :
         /\ a = Starters(apis, minted) \o store.apis
         /\ w = Starters(workflows, minted + Len(apis)) \o store.workflows
         /\ s = Starters(servers, minted + Len(apis) + Len(workflows)) \o store.servers
    OBVIOUS
  <1>6. RowsOK(a, minted') /\ LivesOn(store.apis, a)
    <2>1. minted <= minted /\ minted + Len(apis) <= minted'
      BY <1>1, <1>2, <1>3
    <2> QED
      BY <1>2, <1>3, <1>4, <1>5, <2>1, StartersFacts, Zenon
  <1>7. RowsOK(w, minted') /\ LivesOn(store.workflows, w)
    <2>1. /\ minted + Len(apis) \in Nat /\ minted <= minted + Len(apis)
          /\ minted + Len(apis) + Len(workflows) <= minted'
      BY <1>1, <1>2, <1>3
    <2> QED
      BY <1>2, <1>3, <1>4, <1>5, <2>1, StartersFacts, Zenon
  <1>8. RowsOK(s, minted') /\ LivesOn(store.servers, s)
    <2>1. /\ minted + Len(apis) + Len(workflows) \in Nat
          /\ minted <= minted + Len(apis) + Len(workflows)
          /\ minted + Len(apis) + Len(workflows) + Len(servers) <= minted'
      BY <1>1, <1>2, <1>3
    <2> QED
      BY <1>2, <1>3, <1>4, <1>5, <2>1, StartersFacts, Zenon
  <1>9. PICK new : new = [store EXCEPT !.apis = a, !.workflows = w, !.servers = s]
    OBVIOUS
  <1>10. Mutates(new)
    BY <1>1, <1>3, <1>5, <1>9 DEF Collections
  <1>11. /\ new \in Collections
         /\ new.apis = a /\ new.workflows = w /\ new.servers = s
         /\ new.logs = store.logs /\ new.runs = store.runs
    BY <1>3, <1>6, <1>7, <1>8, <1>9 DEF Collections, RowsOK
  <1>12. /\ RowsOK(new.apis, minted') /\ RowsOK(new.workflows, minted')
         /\ RowsOK(new.servers, minted') /\ AllLiveOn(store, new)
    BY <1>6, <1>7, <1>8, <1>11 DEF AllLiveOn
  <1>13. Sound(new, minted')
    BY <1>3, <1>4, <1>11, <1>12, SoundRows, Zenon
  <1> QED
    BY <1>4, <1>10, <1>12, <1>13, CallsLeftAlone, Mutation, Zenon

(* A log of a client, or of a skill.                                       *)
LEMMA OtherLogStep ==
    ASSUME StoreInv, Mutates([store EXCEPT !.logs = Logged(OtherEntry)]), minted' = minted,
           calls' = calls \/ \E c \in Calls : Goto(c, "done", calls[c].key)
    PROVE  StoreInv' /\ AllLiveOn(store, store') /\ disk' = disk
  <1>1. /\ minted \in Nat /\ minted' \in minted .. MaxRows /\ store \in Collections
        /\ Sound(store, minted') /\ minted' \in Nat /\ RowsOK(store.apis, minted')
    BY Numbers
  <1>2. OtherEntry \in LogEntry /\ OtherEntry.outcome = "unproxied"
    BY DEF OtherEntry, LogEntry
  <1>3. PICK new : new = [store EXCEPT !.logs = Logged(OtherEntry)]
    OBVIOUS
  <1>4. new = [store EXCEPT !.apis = store.apis,
                            !.logs = Trimmed(<<OtherEntry>> \o store.logs, MaxLogs)]
    BY <1>1, <1>3 DEF Logged, Collections
  <1>5. Sound(new, minted') /\ AllLiveOn(store, new)
    BY <1>1, <1>2, <1>4, LivesOnItself, SoundLogged, Zenon
  <1>6. Mutates(new)
    BY <1>3
  <1> QED
    BY <1>1, <1>5, <1>6, CallsLeftAlone, Mutation, Zenon

(* A proxied call comes back: its API is still there to be counted.        *)
LEMMA ProxyStep ==
    ASSUME StoreInv, NEW c \in Calls, NEW ok \in BOOLEAN, ProxyReturns(c, ok)
    PROVE  StoreInv' /\ AllLiveOn(store, store') /\ disk' = disk
  <1>1. PICK k : k = calls[c].key
    OBVIOUS
  <1>2. PICK e : e = Entry(k, ok)
    OBVIOUS
  <1>3. PICK apis : apis = Counted(store.apis, k, ok)
    OBVIOUS
  <1>4. PICK new : new = [store EXCEPT !.apis = apis, !.logs = Logged(e)]
    OBVIOUS
  <1>5. /\ minted \in Nat /\ minted' = minted /\ minted' \in minted .. MaxRows
        /\ store \in Collections /\ Sound(store, minted) /\ RowsOK(store.apis, minted)
    BY Numbers DEF ProxyReturns
  <1>6. k \in Keys /\ Named(store.apis, k) # {}
    BY <1>1 DEF StoreInv, CallsRefer, ProxyReturns
  <1>7. RowsOK(apis, minted) /\ LivesOn(store.apis, apis)
    BY <1>3, <1>5, CountedFacts, Zenon
  <1>8. e \in LogEntry /\ e.key = k
    BY <1>2, <1>6 DEF Entry, LogEntry
  <1>9. Named(apis, e.key) # {}
    BY <1>6, <1>7, <1>8, NamedLivesOn
  <1>10. Mutates(new)
    BY <1>1, <1>2, <1>3, <1>4, <1>5 DEF ProxyReturns, Collections
  <1>11. new = [store EXCEPT !.apis = apis, !.logs = Trimmed(<<e>> \o store.logs, MaxLogs)]
    BY <1>4 DEF Logged
  <1>12. Sound(new, minted) /\ AllLiveOn(store, new)
    BY <1>5, <1>7, <1>8, <1>9, <1>11, SoundLogged, Zenon
  <1>13. Goto(c, "done", calls[c].key)
    BY DEF ProxyReturns
  <1> QED
    BY <1>5, <1>10, <1>12, <1>13, CallsLeftAlone, Mutation, Zenon

(* A workflow run comes back: its workflow is still there.                 *)
LEMMA RunReturnsStep ==
    ASSUME StoreInv, NEW c \in Calls, RunReturns(c)
    PROVE  StoreInv' /\ AllLiveOn(store, store') /\ disk' = disk
  <1>1. PICK k : k = calls[c].key
    OBVIOUS
  <1>2. PICK new : new = [store EXCEPT !.runs = Trimmed(<<k>> \o store.runs, MaxRuns)]
    OBVIOUS
  <1>3. /\ minted \in Nat /\ minted' = minted /\ minted' \in minted .. MaxRows
        /\ store \in Collections /\ Sound(store, minted)
    BY Numbers DEF RunReturns
  <1>4. k \in Keys /\ Named(store.workflows, k) # {}
    BY <1>1 DEF StoreInv, CallsRefer, RunReturns
  <1>5. Mutates(new)
    BY <1>1, <1>2, <1>3 DEF RunReturns, Collections
  <1>6. Sound(new, minted) /\ AllLiveOn(store, new)
    BY <1>2, <1>3, <1>4, SoundRecorded, Zenon
  <1>7. Goto(c, "done", calls[c].key)
    BY DEF RunReturns
  <1> QED
    BY <1>3, <1>5, <1>6, <1>7, CallsLeftAlone, Mutation, Zenon

(* A call sets out, and one that threw is over.                            *)
LEMMA CallSteps ==
    ASSUME StoreInv, NEW c \in Calls,
           \/ \E k \in Keys : RunApi(c, k) \/ Route(c, k) \/ RunWorkflow(c, k)
           \/ CallFails(c)
    PROVE  StoreInv' /\ UNCHANGED <<store, disk>>
  <1>1. calls \in [Calls -> [step : Steps, key : Keys \cup {0}]] /\ CallsRefer
        /\ store \in Collections /\ RowsOK(store.workflows, minted)
    BY Numbers DEF StoreInv
  <1>2. PICK step \in Steps, key \in Keys \cup {0} :
          /\ calls' = [calls EXCEPT ![c] = [step |-> step, key |-> key]]
          /\ UNCHANGED <<store, timer, pending, saving, tmp, disk, minted, restarts, writeFailed>>
          /\ step = "proxying" => key \in Keys /\ Named(store.apis, key) # {}
          /\ step = "running" => key \in Keys /\ Named(store.workflows, key) # {}
    <2>1. CASE \E k \in Keys : RunApi(c, k)
      BY <2>1 DEF RunApi, Begins, Goto, Steps
    <2>2. CASE \E k \in Keys : Route(c, k)
      BY <2>2 DEF Route, Begins, Goto, Steps
    <2>3. CASE \E k \in Keys : RunWorkflow(c, k)
      <3>0. PICK k \in Keys : RunWorkflow(c, k)
        BY <2>3
      <3>1. PICK i \in Found(store.workflows, k) :
              Begins(c, "running", store.workflows[i].slug)
        BY <3>0 DEF RunWorkflow
      <3>2. i \in DOMAIN store.workflows
        BY <3>1 DEF Found, Named
      <3>3. store.workflows[i] \in Row
        BY <1>1, <3>2, SeqDomain, ElementOfSeq DEF RowsOK
      <3>4. store.workflows[i].slug \in Keys
        BY <3>3 DEF Row
      <3>5. Named(store.workflows, store.workflows[i].slug) # {}
        BY <3>2 DEF Named
      <3> QED
        BY <3>1, <3>4, <3>5 DEF Begins, Goto, Steps
    <2>4. CASE CallFails(c)
      BY <1>1, <2>4 DEF CallFails, Goto, Steps
    <2> QED
      BY <2>1, <2>2, <2>3, <2>4
  <1>3. calls' \in [Calls -> [step : Steps, key : Keys \cup {0}]]
    BY <1>1, <1>2
  <1>4. CallsRefer'
    BY <1>1, <1>2 DEF CallsRefer
  <1> QED
    BY <1>2, <1>3, <1>4, CallStep

(* A save in steps; the rename makes the file the store.                   *)
LEMMA SaveSteps ==
    ASSUME StoreInv, Saves
    PROVE  /\ StoreInv' /\ UNCHANGED store
           /\ Hydrated(disk') = Hydrated(disk) \/ Hydrated(disk') = store
  <1>1. UNCHANGED <<store, calls, minted, restarts>>
    BY DEF Saves, TimerFires, SaveWritten, SaveRenamed, SaveFails
  <1>2. /\ Sound(store, minted)' /\ CallsRefer'
        /\ calls' \in [Calls -> [step : Steps, key : Keys \cup {0}]]
        /\ minted' \in 0 .. MaxRows /\ restarts' \in 0 .. MaxRestarts
    BY <1>1 DEF StoreInv, CallsRefer
  <1>3. CASE TimerFires
    <2>1. /\ timer' = FALSE /\ pending' = FALSE /\ disk' = disk /\ writeFailed' = writeFailed
          /\ saving' = IF pending THEN "writing" ELSE "no"
      BY <1>3 DEF TimerFires
    <2>2. UnsavedIsScheduled'
      BY <1>1, <1>3, <2>1 DEF StoreInv, UnsavedIsScheduled, Dirty, TimerFires
    <2>3. Sound(Hydrated(disk), minted)' /\ disk'.file \in {"none", "snapshot"}
      BY <1>1, <2>1 DEF StoreInv
    <2> QED
      BY <1>1, <1>2, <2>1, <2>2, <2>3 DEF StoreInv
  <1>4. CASE SaveWritten
    <2>1. /\ saving' = "renaming" /\ tmp' = Snapshot /\ disk' = disk
          /\ UNCHANGED <<timer, pending, writeFailed>>
      BY <1>4 DEF SaveWritten
    <2>2. UnsavedIsScheduled' /\ tmp' = Snapshot'
      BY <1>1, <2>1 DEF UnsavedIsScheduled, Snapshot
    <2>3. Sound(Hydrated(disk), minted)' /\ disk'.file \in {"none", "snapshot"}
      BY <1>1, <2>1 DEF StoreInv
    <2> QED
      BY <1>1, <1>2, <2>1, <2>2, <2>3 DEF StoreInv
  <1>5. CASE SaveRenamed
    <2>1. /\ saving' = "no" /\ disk' = Snapshot /\ UNCHANGED <<timer, pending, writeFailed>>
      BY <1>5 DEF SaveRenamed, StoreInv, Renamed
    <2>2. disk'.file = "snapshot" /\ Hydrated(disk') = store
      BY <2>1 DEF Snapshot, Hydrated
    <2>3. Sound(Hydrated(disk), minted)' /\ UnsavedIsScheduled'
      BY <1>1, <1>2, <2>2 DEF UnsavedIsScheduled, Dirty
    <2> QED
      BY <1>1, <1>2, <2>1, <2>2, <2>3 DEF StoreInv
  <1>6. CASE SaveFails
    <2>1. /\ saving' = "no" /\ writeFailed' = TRUE /\ disk' = disk
          /\ UNCHANGED <<timer, pending>>
      BY <1>6 DEF SaveFails
    <2>2. UnsavedIsScheduled'
      BY <2>1 DEF UnsavedIsScheduled
    <2>3. Sound(Hydrated(disk), minted)' /\ disk'.file \in {"none", "snapshot"}
      BY <1>1, <2>1 DEF StoreInv
    <2> QED
      BY <1>1, <1>2, <2>1, <2>2, <2>3 DEF StoreInv
  <1> QED
    BY <1>3, <1>4, <1>5, <1>6 DEF Saves

(* A new process starts from the file, with no call in flight.             *)
LEMMA RestartStep ==
    ASSUME StoreInv, Restart
    PROVE  StoreInv' /\ store' = Hydrated(disk) /\ disk' = disk
  <1>1. /\ store' = Hydrated(disk) /\ disk' = disk /\ minted' = minted
        /\ restarts' = restarts + 1 /\ restarts < MaxRestarts
        /\ timer' = FALSE /\ pending' = FALSE /\ writeFailed' = FALSE /\ saving' = "no"
        /\ calls' = [c \in Calls |-> IF calls[c].step = "idle" THEN calls[c]
                                     ELSE [calls[c] EXCEPT !.step = "done"]]
    BY DEF Restart
  <1>2. calls \in [Calls -> [step : Steps, key : Keys \cup {0}]]
    BY DEF StoreInv
  <1>3. ASSUME NEW c \in Calls
        PROVE  /\ calls'[c] \in [step : Steps, key : Keys \cup {0}]
               /\ calls'[c].step \in {"idle", "done"}
    <2>1. calls[c] \in [step : Steps, key : Keys \cup {0}] /\ "done" \in Steps
      BY <1>2 DEF Steps
    <2>2. calls'[c] = IF calls[c].step = "idle" THEN calls[c]
                      ELSE [calls[c] EXCEPT !.step = "done"]
      BY <1>1
    <2> QED
      BY <2>1, <2>2
  <1>4. calls' \in [Calls -> [step : Steps, key : Keys \cup {0}]] /\ CallsRefer'
    BY <1>1, <1>3 DEF CallsRefer
  <1>5. restarts' \in 0 .. MaxRestarts
    BY <1>1, FabricAssumption DEF StoreInv
  <1>6. Sound(store, minted)' /\ Sound(Hydrated(disk), minted)' /\ UnsavedIsScheduled'
    BY <1>1 DEF StoreInv, UnsavedIsScheduled, Dirty
  <1> QED
    BY <1>1, <1>4, <1>5, <1>6 DEF StoreInv

(* What a step does to the store and to the file.                          *)
Durably ==
    \/ AllLiveOn(store, store') /\ disk' = disk
    \/ UNCHANGED store /\ (Hydrated(disk') = Hydrated(disk) \/ Hydrated(disk') = store)
    \/ store' = Hydrated(disk) /\ disk' = disk

(* One case per action.                                                    *)
LEMMA StoreInvNext == StoreInv /\ [Next]_vars => StoreInv' /\ Durably
  <1> SUFFICES ASSUME StoreInv, [Next]_vars PROVE StoreInv' /\ Durably
    OBVIOUS
  <1>1. CASE Handles
    <2>1. CASE \E kind \in Kinds, slug \in Keys : Publish(kind, slug)
      BY <2>1, PublishStep DEF Durably
    <2>2. CASE \E kind \in {"workflows", "servers"}, k \in Keys \cup 1 .. minted : Edit(kind, k)
      BY <2>2, EditStep DEF Durably
    <2>3. CASE Seed(Marketplace) \/ Seed(Builtin)
      BY <2>3, SeedStep, FabricAssumption DEF Durably
    <2>4. CASE ReportLog
      BY <2>4, OtherLogStep DEF Durably, ReportLog
    <2> QED
      BY <1>1, <2>1, <2>2, <2>3, <2>4 DEF Handles
  <1>2. ASSUME NEW c \in Calls, Serves(c) PROVE StoreInv' /\ Durably
    <2>1. CASE (\E k \in Keys : RunApi(c, k) \/ Route(c, k) \/ RunWorkflow(c, k)) \/ CallFails(c)
      BY <2>1, CallSteps DEF Durably
    <2>2. CASE \E ok \in BOOLEAN : ProxyReturns(c, ok)
      BY <2>2, ProxyStep DEF Durably
    <2>3. CASE SkillReturns(c)
      BY <2>3, OtherLogStep DEF Durably, SkillReturns
    <2>4. CASE RunReturns(c)
      BY <2>4, RunReturnsStep DEF Durably
    <2> QED
      BY <1>2, <2>1, <2>2, <2>3, <2>4 DEF Serves
  <1>3. CASE Saves
    BY <1>3, SaveSteps DEF Durably
  <1>4. CASE Restart
    BY <1>4, RestartStep DEF Durably
  <1>5. CASE UNCHANGED vars
    <2>1. CallsRefer' /\ calls' = calls
      BY <1>5 DEF vars, StoreInv, CallsRefer
    <2>2. StoreInv' /\ UNCHANGED <<store, disk>>
      BY <1>5, <2>1, CallStep DEF vars, StoreInv
    <2> QED
      BY <2>2 DEF Durably
  <1> QED
    BY <1>1, <1>2, <1>3, <1>4, <1>5 DEF Next

(* So every state of the store satisfies it.                               *)
LEMMA StoreInvHolds == Spec => []StoreInv
  BY StoreInvInit, StoreInvNext, PTL DEF Spec

-----------------------------------------------------------------------------
(* The state keeps its shape, for histories cut at any lengths: ids are    *)
(* given out once, across restarts, and the file is never half written.    *)
THEOREM FabricTypeCorrect == Spec => []FabricTypeOK
  <1>1. StoreInv => FabricTypeOK
    <2> SUFFICES ASSUME StoreInv PROVE FabricTypeOK
      OBVIOUS
    <2>1. \A kind \in Kinds : RowsOK(store[kind], minted)
      BY Numbers
    <2>2. Len(store.logs) <= MaxLogs /\ Len(store.runs) <= MaxRuns
      BY DEF StoreInv, Sound
    <2>3. \A c \in Calls : calls[c].step \in Steps
      BY DEF StoreInv
    <2> QED
      BY <2>1, <2>2, <2>3 DEF StoreInv, FabricTypeOK, RowsOK, Steps
  <1> QED
    BY <1>1, StoreInvHolds, PTL

(* No mutation is forgotten by the debounce: while the file lags behind, a *)
(* save is scheduled or under way, or the last one failed with no mutation *)
(* since.                                                                  *)
THEOREM UnsavedIsScheduledHolds == Spec => []UnsavedIsScheduled
  <1>1. StoreInv => UnsavedIsScheduled
    BY DEF StoreInv
  <1> QED
    BY <1>1, StoreInvHolds, PTL

(* Recorded runs belong to workflows, and logs of proxied calls to APIs,   *)
(* that the store holds, across restarts that lose rows and calls.         *)
THEOREM HistoryRefersToRowsHolds == Spec => []HistoryRefersToRows
  <1>1. StoreInv => HistoryRefersToRows
    BY DEF StoreInv, Sound, RunsRefer, LogsRefer, HistoryRefersToRows
  <1> QED
    BY <1>1, StoreInvHolds, PTL

-----------------------------------------------------------------------------
(* Counters and logs.                                                      *)

SameTotals(old, new) == Requests(new) = Requests(old) /\ Successes(new) = Successes(old)

(* Counters are numbers, and so are their totals.                          *)
LEMMA TotalsNat ==
    ASSUME NEW rows \in Seq(Row)
    PROVE  /\ IsFiniteSet(DOMAIN rows)
           /\ \A i \in DOMAIN rows : rows[i].requests \in Nat /\ rows[i].successes \in Nat
           /\ Requests(rows) \in Nat /\ Successes(rows) \in Nat
  <1>1. DOMAIN rows = 1 .. Len(rows) /\ Len(rows) \in Nat
    BY LenProperties
  <1>2. IsFiniteSet(DOMAIN rows)
    BY <1>1, FS_Interval
  <1>3. ASSUME NEW i \in DOMAIN rows
        PROVE  rows[i].requests \in Nat /\ rows[i].successes \in Nat
    <2>1. rows[i] \in Row
      BY <1>1, ElementOfSeq
    <2> QED
      BY <2>1 DEF Row
  <1>4. Requests(rows) \in Nat
    BY <1>2, <1>3, SumNat DEF Requests, SumFunction
  <1>5. Successes(rows) \in Nat
    BY <1>2, <1>3, SumNat DEF Successes, SumFunction
  <1> QED
    BY <1>2, <1>3, <1>4, <1>5

(* New rows have not been called.                                          *)
LEMMA TotalsFront ==
    ASSUME NEW slugs \in Seq(Keys), NEW from \in Nat, NEW old \in Seq(Row)
    PROVE  SameTotals(old, Starters(slugs, from) \o old)
  <1> DEFINE front == Starters(slugs, from)
             new == front \o old
             m == Len(old)
             n == Len(slugs)
  <1>1. n \in Nat /\ m \in Nat /\ DOMAIN slugs = 1 .. n /\ DOMAIN old = 1 .. m
    BY LenProperties
  <1>2. Len(front) = n /\ front \in Seq({NewRow(from + i, slugs[i]) : i \in 1 .. n})
    <2>1. front = [i \in 1 .. n |-> NewRow(from + i, slugs[i])]
      BY <1>1 DEF Starters
    <2> HIDE DEF front
    <2> QED
      BY <1>1, <2>1
  <1>3. /\ DOMAIN new = 1 .. n + m
        /\ \A i \in 1 .. n : new[i] = front[i]
        /\ \A i \in 1 .. m : new[n + i] = old[i]
    <2>1. PICK S : front \in Seq(S) /\ old \in Seq(S)
      <3>1. PICK Fronts : Fronts = {NewRow(from + i, slugs[i]) : i \in 1 .. n}
        OBVIOUS
      <3>2. front \in Seq(Fronts \cup Row) /\ old \in Seq(Fronts \cup Row)
        <4> HIDE DEF front, n
        <4>1. front \in Seq(Fronts)
          BY <1>2, <3>1
        <4>2. Fronts \subseteq Fronts \cup Row /\ Row \subseteq Fronts \cup Row
          OBVIOUS
        <4>3. Seq(Fronts) \subseteq Seq(Fronts \cup Row) /\ Seq(Row) \subseteq Seq(Fronts \cup Row)
          BY <4>2, Wider
        <4> QED
          BY <4>1, <4>3
      <3> QED
        BY <3>2
    <2>2. /\ DOMAIN new = 1 .. Len(front) + Len(old)
          /\ \A i \in 1 .. Len(front) : new[i] = front[i]
          /\ \A i \in 1 .. Len(old) : new[i + Len(front)] = old[i]
      <3> HIDE DEF front
      <3> QED
        BY <2>1, FrontFacts
    <2>3. \A i \in 1 .. m : n + i = i + n
      BY <1>1
    <2> HIDE DEF front, new
    <2> QED
      BY <1>2, <2>2, <2>3
  <1>4. \A i \in 1 .. n : new[i].requests = 0 /\ new[i].successes = 0
    BY <1>1, <1>3 DEF Starters, NewRow
  <1>5. \A i \in 1 .. m : old[i].requests \in Nat /\ old[i].successes \in Nat
    BY <1>1, TotalsNat
  <1>6. \A i \in 1 .. m : n + i \in 1 .. n + m
    BY <1>1
  <1>7. \A i \in 1 .. n : i \in 1 .. n + m
    BY <1>1
  <1> HIDE DEF new, m, n
  <1>8. Requests(new) = Requests(old)
    <2>1. PICK f, g : f = [i \in 1 .. m |-> old[i].requests]
                      /\ g = [i \in 1 .. n + m |-> new[i].requests]
      OBVIOUS
    <2>2. \A i \in 1 .. n : g[i] = 0
      BY <1>4, <1>7, <2>1
    <2>3. \A i \in 1 .. m : f[i] \in Nat /\ g[n + i] = f[i]
      BY <1>3, <1>5, <1>6, <2>1
    <2>4. SumFunctionOnSet(g, 1 .. n + m) = SumFunctionOnSet(f, 1 .. m)
      <3>1. PICK p, q, sum : p = n /\ q = m /\ sum = n + m
        OBVIOUS
      <3>2. /\ p \in Nat /\ q \in Nat /\ sum \in Nat /\ sum = p + q
            /\ AfterZeros(g, p, f, q)
        BY <1>1, <2>2, <2>3, <3>1 DEF AfterZeros
      <3>3. SumFunctionOnSet(g, 1 .. sum) = SumFunctionOnSet(f, 1 .. q)
        BY ONLY <3>2, SumFront
      <3> QED
        BY <3>1, <3>3
    <2>5. DOMAIN f = 1 .. m /\ DOMAIN g = 1 .. n + m
      BY <2>1
    <2> QED
      BY <1>1, <1>3, <2>1, <2>4, <2>5 DEF Requests, SumFunction
  <1>9. Successes(new) = Successes(old)
    <2>1. PICK f, g : f = [i \in 1 .. m |-> old[i].successes]
                      /\ g = [i \in 1 .. n + m |-> new[i].successes]
      OBVIOUS
    <2>2. \A i \in 1 .. n : g[i] = 0
      BY <1>4, <1>7, <2>1
    <2>3. \A i \in 1 .. m : f[i] \in Nat /\ g[n + i] = f[i]
      BY <1>3, <1>5, <1>6, <2>1
    <2>4. SumFunctionOnSet(g, 1 .. n + m) = SumFunctionOnSet(f, 1 .. m)
      <3>1. PICK p, q, sum : p = n /\ q = m /\ sum = n + m
        OBVIOUS
      <3>2. /\ p \in Nat /\ q \in Nat /\ sum \in Nat /\ sum = p + q
            /\ AfterZeros(g, p, f, q)
        BY <1>1, <2>2, <2>3, <3>1 DEF AfterZeros
      <3>3. SumFunctionOnSet(g, 1 .. sum) = SumFunctionOnSet(f, 1 .. q)
        BY ONLY <3>2, SumFront
      <3> QED
        BY <3>1, <3>3
    <2>5. DOMAIN f = 1 .. m /\ DOMAIN g = 1 .. n + m
      BY <2>1
    <2> QED
      BY <1>1, <1>3, <2>1, <2>4, <2>5 DEF Successes, SumFunction
  <1> QED
    BY <1>8, <1>9 DEF SameTotals, new

(* A key that names a row finds one.                                       *)
LEMMA FoundOne ==
    ASSUME NEW rows \in Seq(Row), NEW k, Named(rows, k) # {}
    PROVE  \E i \in DOMAIN rows : Found(rows, k) = {i}
  <1>1. Named(rows, k) \in SUBSET Nat /\ Named(rows, k) \subseteq DOMAIN rows
    BY LenProperties DEF Named
  <1>2. PICK i \in Named(rows, k) : \A j \in Named(rows, k) : i <= j
    BY <1>1, LeastNumber
  <1>3. \A j \in Found(rows, k) : j = i
    BY <1>1, <1>2 DEF Found
  <1>4. i \in Found(rows, k)
    BY <1>2 DEF Found
  <1> QED
    BY <1>1, <1>3, <1>4

(* One call is counted once, and as a success if it was one.               *)
LEMMA TotalsCounted ==
    ASSUME NEW rows \in Seq(Row), NEW k, NEW ok \in BOOLEAN, Named(rows, k) # {}
    PROVE  /\ Requests(Counted(rows, k, ok)) = Requests(rows) + 1
           /\ Successes(Counted(rows, k, ok)) = Successes(rows) + (IF ok THEN 1 ELSE 0)
  <1> DEFINE new == Counted(rows, k, ok)
             D == DOMAIN rows
  <1>1. PICK a \in D : Found(rows, k) = {a}
    BY FoundOne
  <1>2. PICK s \in {0, 1} : s = IF ok THEN 1 ELSE 0
    OBVIOUS
  <1>3. /\ IsFiniteSet(D)
        /\ \A i \in D : rows[i].requests \in Nat /\ rows[i].successes \in Nat
        /\ Requests(rows) \in Nat /\ Successes(rows) \in Nat
    BY TotalsNat
  <1>4. /\ DOMAIN new = D
        /\ \A i \in D \ {a} : new[i] = rows[i]
        /\ new[a] = [rows[a] EXCEPT !.requests = @ + 1, !.successes = @ + s]
    BY <1>1, <1>2 DEF Counted
  <1>5. rows[a] \in Row
    BY LenProperties, ElementOfSeq
  <1> HIDE DEF new, D
  <1>6. new[a].requests = rows[a].requests + 1 /\ new[a].successes = rows[a].successes + s
    BY <1>4, <1>5 DEF Row
  <1>7. ASSUME NEW f, NEW g, NEW d \in Nat,
               \A i \in D : f[i] \in Nat,
               \A i \in D \ {a} : g[i] = f[i],
               g[a] = f[a] + d
        PROVE  SumFunctionOnSet(g, D) = SumFunctionOnSet(f, D) + d
    <2>1. \A i \in D : f[i] \in Nat /\ g[i] \in Nat
      BY <1>7
    <2>2. SumFunctionOnSet(g, D) + f[a] = SumFunctionOnSet(f, D) + g[a]
      BY <1>3, <1>7, <2>1, SumChanged
    <2>3. SumFunctionOnSet(f, D) \in Nat /\ SumFunctionOnSet(g, D) \in Nat
      BY <1>3, <2>1, SumNat
    <2> QED
      BY <1>7, <2>1, <2>2, <2>3
  <1>8. Requests(new) = Requests(rows) + 1
    <2>1. PICK f, g : f = [i \in D |-> rows[i].requests] /\ g = [i \in D |-> new[i].requests]
      OBVIOUS
    <2>2. /\ \A i \in D : f[i] \in Nat
          /\ \A i \in D \ {a} : g[i] = f[i]
          /\ g[a] = f[a] + 1 /\ DOMAIN f = D /\ DOMAIN g = D
      BY <1>3, <1>4, <1>6, <2>1
    <2>3. SumFunctionOnSet(g, D) = SumFunctionOnSet(f, D) + 1
      BY <1>7, <2>2
    <2> QED
      BY <1>4, <2>1, <2>2, <2>3 DEF Requests, SumFunction, D
  <1>9. Successes(new) = Successes(rows) + s
    <2>1. PICK f, g : f = [i \in D |-> rows[i].successes] /\ g = [i \in D |-> new[i].successes]
      OBVIOUS
    <2>2. /\ \A i \in D : f[i] \in Nat
          /\ \A i \in D \ {a} : g[i] = f[i]
          /\ g[a] = f[a] + s /\ DOMAIN f = D /\ DOMAIN g = D
      BY <1>3, <1>4, <1>6, <2>1
    <2>3. SumFunctionOnSet(g, D) = SumFunctionOnSet(f, D) + s
      BY <1>7, <2>2
    <2> QED
      BY <1>4, <2>1, <2>2, <2>3 DEF Successes, SumFunction, D
  <1> QED
    BY <1>2, <1>8, <1>9 DEF new

(* So many more entries are of a kind, or fewer once the history is full.  *)
Grows(logs, t, max, how, d) ==
    LET before == Cardinality(Concluded(logs, how))
        after == Cardinality(Concluded(t, how))
    IN /\ before \in Nat /\ after \in Nat
       /\ after <= before + d
       /\ Len(t) < max => Len(logs) < max /\ after = before + d

(* A log adds itself to its kind, and may push out older ones once the     *)
(* history is full.                                                        *)
LEMMA ConcludedLogged ==
    ASSUME NEW e \in LogEntry, NEW logs \in Seq(LogEntry), NEW max \in Nat, NEW how,
           NEW t, t = Trimmed(<<e>> \o logs, max),
           NEW d \in {0, 1}, d = IF e.outcome \in how THEN 1 ELSE 0
    PROVE  Grows(logs, t, max, how, d)
  <1> DEFINE n == Len(logs)
             whole == <<e>> \o logs
             B == Concluded(logs, how)
             Moved == {i + 1 : i \in B}
             W == Concluded(whole, how)
             A == Concluded(t, how)
  <1>1. n \in Nat /\ DOMAIN logs = 1 .. n
    BY LenProperties
  <1>2. /\ whole \in Seq(LogEntry) /\ Len(whole) = n + 1 /\ DOMAIN whole = 1 .. n + 1
        /\ whole[1] = e /\ \A i \in 1 .. n : whole[i + 1] = logs[i]
    BY <1>1
  <1>3. B \subseteq 1 .. n /\ IsFiniteSet(B) /\ Cardinality(B) \in Nat
    <2>1. B \subseteq 1 .. n
      BY <1>1 DEF Concluded
    <2> QED
      <3>1. IsFiniteSet(1 .. n)
        BY <1>1, FS_Interval
      <3> HIDE DEF B, n
      <3> QED
        BY <2>1, <3>1, FS_Subset, FS_CardinalityType
  <1>4. IsFiniteSet(Moved) /\ Cardinality(Moved) = Cardinality(B) /\ 1 \notin Moved
    <2>1. 1 \notin Moved
      BY <1>3
    <2> DEFINE f == [i \in B |-> i + 1]
    <2>2. f \in Bijection(B, Moved)
      BY <1>3 DEF Bijection, Injection, Surjection, IsInjective
    <2> HIDE DEF f, Moved, B
    <2>3. IsFiniteSet(Moved) /\ Cardinality(Moved) = Cardinality(B)
      BY <1>3, <2>2, FS_Bijection DEF ExistsBijection
    <2> QED
      BY <2>1, <2>3
  <1>5. W = IF e.outcome \in how THEN Moved \cup {1} ELSE Moved
    <2>1. ASSUME NEW i \in 1 .. n + 1, i # 1
          PROVE  i \in W <=> i \in Moved
      <3>1. i - 1 \in 1 .. n /\ (i - 1) + 1 = i
        BY <1>1, <2>1
      <3>2. whole[i] = logs[i - 1]
        BY <1>2, <3>1
      <3>3. i \in W <=> i - 1 \in B
        BY <1>1, <1>2, <3>1, <3>2 DEF Concluded
      <3>4. i \in Moved <=> i - 1 \in B
        BY <1>1, <1>3, <3>1
      <3> QED
        BY <3>3, <3>4
    <2>2. 1 \in W <=> e.outcome \in how
      BY <1>1, <1>2 DEF Concluded
    <2>3. W \subseteq 1 .. n + 1 /\ Moved \subseteq 1 .. n + 1
      BY <1>1, <1>2, <1>3 DEF Concluded
    <2> HIDE DEF W, Moved, B
    <2>4. \A i : i \in W <=> IF i = 1 THEN e.outcome \in how ELSE i \in Moved
      BY <2>1, <2>2, <2>3
    <2>5. W \ {1} = Moved
      BY <1>4, <2>4
    <2>6. IF e.outcome \in how THEN 1 \in W ELSE 1 \notin W
      BY <2>2
    <2> QED
      BY <2>5, <2>6
  <1>6. IsFiniteSet(W) /\ Cardinality(W) = Cardinality(B) + d
    <2> HIDE DEF W, Moved, B
    <2>1. CASE e.outcome \in how
      BY <1>3, <1>4, <1>5, <2>1, FS_AddElement
    <2>2. CASE e.outcome \notin how
      BY <1>3, <1>4, <1>5, <2>2
    <2> QED
      BY <2>1, <2>2
  <1>7. CASE n + 1 > max
    <2>1. t = SubSeq(whole, 1, max)
      BY <1>2, <1>7 DEF Trimmed
    <2>2. /\ Len(t) = max /\ DOMAIN t = 1 .. max
          /\ \A i \in 1 .. max : i \in 1 .. n + 1 /\ t[i] = whole[i]
      <3> HIDE DEF whole
      <3>1. \A i \in 1 .. max : whole[i] \in LogEntry
        BY <1>1, <1>2, <1>7
      <3> QED
        BY <1>1, <1>2, <1>7, <2>1, <3>1
    <2>3. A \subseteq W
      BY <1>2, <2>2 DEF Concluded
    <2> HIDE DEF A, W, B
    <2>4. /\ IsFiniteSet(A) /\ Cardinality(A) \in Nat /\ Cardinality(W) \in Nat
          /\ Cardinality(A) <= Cardinality(W)
      BY <1>6, <2>3, FS_Subset, FS_CardinalityType
    <2>5. ~(Len(t) < max)
      BY <2>2
    <2> QED
      BY <1>3, <1>6, <2>4, <2>5 DEF A, B, Grows
  <1>8. CASE ~(n + 1 > max)
    <2>1. t = whole
      BY <1>2, <1>8 DEF Trimmed
    <2>2. A = W /\ Len(t) = n + 1
      BY <1>2, <2>1
    <2> HIDE DEF A, W, B, whole
    <2>3. Cardinality(W) \in Nat
      BY <1>6, FS_CardinalityType
    <2>4. Len(t) < max => n < max
      BY <1>1, <2>2
    <2> QED
      BY <1>3, <1>6, <2>2, <2>3, <2>4 DEF A, B, Grows
  <1> QED
    BY <1>7, <1>8

(* Rows that were not called leave the match alone.                        *)
LEMMA MatchRows ==
    ASSUME NEW old, NEW new, SameTotals(old.apis, new.apis), new.logs = old.logs,
           CountersMatch(old)
    PROVE  CountersMatch(new)
  BY DEF SameTotals, CountersMatch

(* A log keeps it when its call was counted as the log says.               *)
LEMMA MatchLogged ==
    ASSUME NEW old, NEW new, NEW e \in LogEntry,
           old.apis \in Seq(Row), old.logs \in Seq(LogEntry),
           new.logs = Trimmed(<<e>> \o old.logs, MaxLogs),
           Requests(new.apis)
             = Requests(old.apis) + (IF e.outcome \in {"ok", "error"} THEN 1 ELSE 0),
           Successes(new.apis) = Successes(old.apis) + (IF e.outcome \in {"ok"} THEN 1 ELSE 0),
           CountersMatch(old)
    PROVE  CountersMatch(new)
  <1>1. PICK a \in {0, 1}, o \in {0, 1} :
          /\ a = IF e.outcome \in {"ok", "error"} THEN 1 ELSE 0
          /\ o = IF e.outcome \in {"ok"} THEN 1 ELSE 0
    OBVIOUS
  <1>2. o <= a
    BY <1>1
  <1>3. PICK logs, t : logs = old.logs /\ t = new.logs
    OBVIOUS
  <1>4. logs \in Seq(LogEntry) /\ MaxLogs \in Nat /\ t = Trimmed(<<e>> \o logs, MaxLogs)
    BY <1>3, FabricAssumption
  <1>5. PICK how, any : how = {"ok"} /\ any = {"ok", "error"}
    OBVIOUS
  <1>6. Grows(logs, t, MaxLogs, any, a)
    <2>1. a = IF e.outcome \in any THEN 1 ELSE 0
      BY <1>1, <1>5
    <2> QED
      BY <1>4, <2>1, ConcludedLogged, Zenon
  <1>7. Grows(logs, t, MaxLogs, how, o)
    <2>1. o = IF e.outcome \in how THEN 1 ELSE 0
      BY <1>1, <1>5
    <2> QED
      BY <1>4, <2>1, ConcludedLogged, Zenon
  <1>8. Requests(old.apis) \in Nat /\ Successes(old.apis) \in Nat
    BY TotalsNat
  <1>9. Requests(new.apis) = Requests(old.apis) + a /\ Successes(new.apis) = Successes(old.apis) + o
    BY <1>1
  <1>10. LET r == Requests(old.apis)
             s == Successes(old.apis)
             x == Cardinality(Concluded(logs, any))
             y == Cardinality(Concluded(logs, how))
         IN /\ r >= x /\ s >= y /\ s <= r
            /\ Len(logs) < MaxLogs => r = x /\ s = y
    BY <1>3, <1>5 DEF CountersMatch
  <1>11. LET r == Requests(new.apis)
             s == Successes(new.apis)
             x == Cardinality(Concluded(t, any))
             y == Cardinality(Concluded(t, how))
         IN /\ r >= x /\ s >= y /\ s <= r
            /\ Len(t) < MaxLogs => r = x /\ s = y
    <2>1. PICK r, s, x, y, rr, ss, xx, yy :
            /\ r = Requests(old.apis) /\ s = Successes(old.apis)
            /\ x = Cardinality(Concluded(logs, any)) /\ y = Cardinality(Concluded(logs, how))
            /\ rr = Requests(new.apis) /\ ss = Successes(new.apis)
            /\ xx = Cardinality(Concluded(t, any)) /\ yy = Cardinality(Concluded(t, how))
      OBVIOUS
    <2>2. /\ r \in Nat /\ s \in Nat /\ x \in Nat /\ y \in Nat /\ xx \in Nat /\ yy \in Nat
          /\ rr = r + a /\ ss = s + o
          /\ r >= x /\ s >= y /\ s <= r /\ xx <= x + a /\ yy <= y + o
      BY <1>6, <1>7, <1>8, <1>9, <1>10, <2>1 DEF Grows
    <2>3. Len(t) < MaxLogs => r = x /\ s = y /\ xx = x + a /\ yy = y + o
      BY <1>6, <1>7, <1>10, <2>1 DEF Grows
    <2>4. /\ rr >= xx /\ ss >= yy /\ ss <= rr
          /\ Len(t) < MaxLogs => rr = xx /\ ss = yy
      BY <1>2, <2>2, <2>3
    <2> QED
      BY <2>1, <2>4
  <1> QED
    BY <1>3, <1>5, <1>11 DEF CountersMatch

(* Handlers keep it in the store.                                          *)
LEMMA MatchPublish ==
    ASSUME StoreInv, CountersMatch(store), NEW kind \in Kinds, NEW slug \in Keys,
           Publish(kind, slug)
    PROVE  CountersMatch(store')
  <1>1. store' = [store EXCEPT ![kind] = <<NewRow(minted + 1, slug)>> \o @]
    BY DEF Publish, Mutates
  <1>2. store \in Collections /\ minted \in Nat /\ store.apis \in Seq(Row)
    BY Numbers DEF Collections
  <1>3. store'.logs = store.logs
    BY <1>1, <1>2 DEF Collections, Kinds
  <1>4. CASE kind = "apis"
    <2>1. store'.apis = <<NewRow(minted + 1, slug)>> \o store.apis
      BY <1>1, <1>2, <1>4 DEF Collections
    <2>2. <<NewRow(minted + 1, slug)>> = Starters(<<slug>>, minted)
      BY DEF Starters
    <2>3. <<slug>> \in Seq(Keys)
      OBVIOUS
    <2>4. SameTotals(store.apis, store'.apis)
      BY <1>2, <2>1, <2>2, <2>3, TotalsFront
    <2> QED
      BY <1>3, <2>4, MatchRows
  <1>5. CASE kind # "apis"
    <2>1. store'.apis = store.apis
      BY <1>1, <1>2, <1>5 DEF Collections, Kinds
    <2> QED
      BY <1>3, <2>1, MatchRows DEF SameTotals
  <1> QED
    BY <1>4, <1>5

(* Edits are of workflows and servers.                                     *)
LEMMA MatchEdit ==
    ASSUME StoreInv, CountersMatch(store), NEW kind \in {"workflows", "servers"}, NEW k,
           Edit(kind, k)
    PROVE  CountersMatch(store')
  <1>1. PICK i, v : store' = [store EXCEPT ![kind][i].edits = @ + v]
    BY DEF Edit, Mutates
  <1>2. store'.apis = store.apis /\ store'.logs = store.logs
    BY <1>1, Numbers DEF Collections
  <1> QED
    BY <1>2, MatchRows DEF SameTotals

(* Seeding.                                                                *)
LEMMA MatchSeed ==
    ASSUME StoreInv, CountersMatch(store), NEW wanted \in [Kinds -> SUBSET Keys], Seed(wanted)
    PROVE  CountersMatch(store')
  <1>1. PICK apis \in SetToSeqs(Missing("apis", wanted)),
             workflows \in SetToSeqs(Missing("workflows", wanted)),
             servers \in SetToSeqs(Missing("servers", wanted)) :
           store' = [store EXCEPT
              !.apis = Starters(apis, minted) \o @,
              !.workflows = Starters(workflows, minted + Len(apis)) \o @,
              !.servers = Starters(servers, minted + Len(apis) + Len(workflows)) \o @]
    BY Zenon DEF Seed, Mutates
  <1>2. apis \in Seq(Keys)
    BY SeedOrders DEF Kinds
  <1>3. store \in Collections /\ minted \in Nat /\ store.apis \in Seq(Row)
    BY Numbers DEF Collections
  <1>4. store'.apis = Starters(apis, minted) \o store.apis /\ store'.logs = store.logs
    BY <1>1, <1>3 DEF Collections
  <1>5. SameTotals(store.apis, store'.apis)
    BY <1>2, <1>3, <1>4, TotalsFront
  <1> QED
    BY <1>4, <1>5, MatchRows

(* Logs of calls that are not counted.                                     *)
LEMMA MatchOther ==
    ASSUME StoreInv, CountersMatch(store), store' = [store EXCEPT !.logs = Logged(OtherEntry)]
    PROVE  CountersMatch(store')
  <1>1. /\ store \in Collections /\ store.apis \in Seq(Row) /\ store.logs \in Seq(LogEntry)
    BY Numbers DEF Collections
  <1>2. OtherEntry \in LogEntry /\ OtherEntry.outcome \notin {"ok", "error"}
    BY DEF OtherEntry, LogEntry
  <1>3. /\ store'.apis = store.apis
        /\ store'.logs = Trimmed(<<OtherEntry>> \o store.logs, MaxLogs)
    BY <1>1 DEF Collections, Logged
  <1>4. Requests(store.apis) \in Nat /\ Successes(store.apis) \in Nat
    BY <1>1, TotalsNat
  <1>5. /\ Requests(store'.apis)
             = Requests(store.apis) + (IF OtherEntry.outcome \in {"ok", "error"} THEN 1 ELSE 0)
        /\ Successes(store'.apis)
             = Successes(store.apis) + (IF OtherEntry.outcome \in {"ok"} THEN 1 ELSE 0)
    BY <1>2, <1>3, <1>4
  <1> HIDE DEF OtherEntry
  <1> QED
    BY <1>1, <1>2, <1>3, <1>5, MatchLogged

(* A proxied call, whose API is still there to be counted.                 *)
LEMMA MatchProxied ==
    ASSUME StoreInv, CountersMatch(store), NEW c \in Calls, NEW ok \in BOOLEAN,
           ProxyReturns(c, ok)
    PROVE  CountersMatch(store')
  <1>1. PICK k, e : k = calls[c].key /\ e = Entry(k, ok)
    OBVIOUS
  <1>2. /\ store \in Collections /\ store.apis \in Seq(Row) /\ store.logs \in Seq(LogEntry)
    BY Numbers DEF Collections
  <1>3. k \in Keys /\ Named(store.apis, k) # {}
    BY <1>1 DEF ProxyReturns, StoreInv, CallsRefer
  <1>4. /\ e \in LogEntry /\ e.outcome \in {"ok", "error"} /\ (e.outcome \in {"ok"} <=> ok)
    BY <1>1, <1>3 DEF Entry, LogEntry
  <1>5. store' = [store EXCEPT !.apis = Counted(@, k, ok), !.logs = Logged(e)]
    BY <1>1 DEF ProxyReturns, Mutates
  <1>6. /\ store'.apis = Counted(store.apis, k, ok)
        /\ store'.logs = Trimmed(<<e>> \o store.logs, MaxLogs)
    BY <1>2, <1>5 DEF Collections, Logged
  <1>7. /\ Requests(store'.apis) = Requests(store.apis) + 1
        /\ Successes(store'.apis) = Successes(store.apis) + (IF ok THEN 1 ELSE 0)
    BY <1>2, <1>3, <1>6, TotalsCounted
  <1>8. /\ Requests(store'.apis)
             = Requests(store.apis) + (IF e.outcome \in {"ok", "error"} THEN 1 ELSE 0)
        /\ Successes(store'.apis)
             = Successes(store.apis) + (IF e.outcome \in {"ok"} THEN 1 ELSE 0)
    BY <1>4, <1>7
  <1> QED
    BY <1>2, <1>4, <1>6, <1>8, MatchLogged

(* In the store and in the file, which is a store that was.                *)
LEMMA CountersNext ==
    StoreInv /\ [Next]_vars /\ CountersMatch(store) /\ CountersMatch(Hydrated(disk))
      => CountersMatch(store') /\ CountersMatch(Hydrated(disk'))
  <1> SUFFICES ASSUME StoreInv, [Next]_vars, CountersMatch(store), CountersMatch(Hydrated(disk))
               PROVE  CountersMatch(store') /\ CountersMatch(Hydrated(disk'))
    OBVIOUS
  <1>1. CASE Handles
    <2>1. disk' = disk
      BY <1>1 DEF Handles, Publish, Edit, Seed, ReportLog, Mutates
    <2>2. CASE \E kind \in Kinds, slug \in Keys : Publish(kind, slug)
      BY <2>1, <2>2, MatchPublish
    <2>3. CASE \E kind \in {"workflows", "servers"}, k \in Keys \cup 1 .. minted : Edit(kind, k)
      BY <2>1, <2>3, MatchEdit
    <2>4. CASE Seed(Marketplace) \/ Seed(Builtin)
      BY <2>1, <2>4, MatchSeed, FabricAssumption
    <2>5. CASE ReportLog
      BY <2>1, <2>5, MatchOther DEF ReportLog, Mutates
    <2> QED
      BY <1>1, <2>2, <2>3, <2>4, <2>5 DEF Handles
  <1>2. ASSUME NEW c \in Calls, Serves(c)
        PROVE  CountersMatch(store') /\ CountersMatch(Hydrated(disk'))
    <2>1. disk' = disk
      BY <1>2 DEF Serves, RunApi, Route, RunWorkflow, Begins, ProxyReturns, SkillReturns,
                  RunReturns, CallFails, Mutates
    <2>2. CASE (\E k \in Keys : RunApi(c, k) \/ Route(c, k) \/ RunWorkflow(c, k)) \/ CallFails(c)
      <3>1. store' = store
        BY <2>2, CallSteps
      <3> QED
        BY <2>1, <3>1
    <2>3. CASE \E ok \in BOOLEAN : ProxyReturns(c, ok)
      BY <2>1, <2>3, MatchProxied
    <2>4. CASE SkillReturns(c)
      BY <2>1, <2>4, MatchOther DEF SkillReturns, Mutates
    <2>5. CASE RunReturns(c)
      <3>1. store'.apis = store.apis /\ store'.logs = store.logs
        BY <2>5, Numbers DEF RunReturns, Mutates, Collections
      <3> QED
        BY <2>1, <3>1, MatchRows DEF SameTotals
    <2> QED
      BY <1>2, <2>2, <2>3, <2>4, <2>5 DEF Serves
  <1>3. CASE Saves
    <2>1. store' = store /\ (Hydrated(disk') = Hydrated(disk) \/ Hydrated(disk') = store)
      BY <1>3, SaveSteps
    <2> QED
      BY <2>1
  <1>4. CASE Restart
    <2>1. store' = Hydrated(disk) /\ disk' = disk
      BY <1>4, RestartStep
    <2> QED
      BY <2>1
  <1>5. CASE UNCHANGED vars
    BY <1>5 DEF vars
  <1> QED
    BY <1>1, <1>2, <1>3, <1>4, <1>5 DEF Next

(* The counters of the APIs add up to the calls that were logged, to no    *)
(* less once logs have been cut, across restarts and whatever was being    *)
(* written when they happened.                                             *)
THEOREM CountersMatchLogsHolds == Spec => []CountersMatchLogs
  <1> DEFINE Match == CountersMatch(store) /\ CountersMatch(Hydrated(disk))
  <1>1. Init => Match
    <2> SUFFICES ASSUME Init PROVE Match
      OBVIOUS
    <2>1. store = Empty /\ Hydrated(disk) = Empty
      BY DEF Init, Hydrated, NoFile
    <2>2. Requests(<<>>) = 0 /\ Successes(<<>>) = 0
      <3>1. PICK f : f = [i \in {} |-> 0]
        OBVIOUS
      <3>2. IsFiniteSet({}) /\ DOMAIN f = {} /\ \A x \in {} : f[x] = 0
        BY <3>1, FS_EmptySet
      <3>3. SumFunctionOnSet(f, {}) = 0
        BY <3>2, SumZero
      <3>4. DOMAIN <<>> = {}
        OBVIOUS
      <3>5. f = [i \in DOMAIN <<>> |-> <<>>[i].requests] /\ f = [i \in DOMAIN <<>> |-> <<>>[i].successes]
        BY <3>1, <3>4
      <3> QED
        BY <3>2, <3>3, <3>5 DEF Requests, Successes, SumFunction
    <2>3. \A how : Concluded(<<>>, how) = {}
      BY DEF Concluded
    <2>4. Cardinality({}) = 0
      BY FS_EmptySet
    <2>5. CountersMatch(Empty)
      <3>1. PICK none : none = <<>>
        OBVIOUS
      <3>2. Empty.apis = none /\ Empty.logs = none
        BY <3>1 DEF Empty
      <3>3. Requests(none) = 0 /\ Successes(none) = 0
        BY <2>2, <3>1
      <3>4. Concluded(none, {"ok", "error"}) = {} /\ Concluded(none, {"ok"}) = {}
        BY <2>3, <3>1
      <3>5. PICK zero : zero = 0 /\ zero = Cardinality({})
        BY <2>4
      <3>6. zero >= zero /\ zero <= zero
        BY <3>5
      <3> QED
        BY ONLY <3>2, <3>3, <3>4, <3>5, <3>6, Zenon DEF CountersMatch
    <2> QED
      BY <2>1, <2>5
  <1>2. StoreInv /\ [Next]_vars /\ Match => Match'
    BY CountersNext
  <1>3. Match => CountersMatchLogs
    BY DEF CountersMatchLogs
  <1> QED
    BY <1>1, <1>2, <1>3, StoreInvHolds, PTL DEF Spec

(* Entries leave the store in a restart only, and a restart returns to the *)
(* whole of the last completed save, wherever in a write the process died. *)
THEOREM FabricImplementsDurable == Spec => ImplementsDurable
  <1>1. Init => Durable!DurableInit
    BY DEF Init, Durable!DurableInit, Hydrated, NoFile
  <1>2. StoreInv /\ [Next]_vars => [Durable!DurableNext]_<<store, Hydrated(disk)>>
    <2> SUFFICES ASSUME StoreInv, [Next]_vars
                 PROVE  [Durable!DurableNext]_<<store, Hydrated(disk)>>
      OBVIOUS
    <2>1. Durably
      BY StoreInvNext
    <2>2. ASSUME NEW old, NEW new, LivesOn(old, new)
          PROVE  Durable!Entries(old) \subseteq Durable!Entries(new)
      BY <2>2 DEF LivesOn, Durable!Entries
    <2>3. CASE AllLiveOn(store, store') /\ disk' = disk
      <3>1. Durable!Change
        BY <2>2, <2>3 DEF AllLiveOn, Durable!Change
      <3> QED
        BY <3>1 DEF Durable!DurableNext
    <2>4. CASE UNCHANGED store /\ (Hydrated(disk') = Hydrated(disk) \/ Hydrated(disk') = store)
      BY <2>4 DEF Durable!DurableNext, Durable!Save
    <2>5. CASE store' = Hydrated(disk) /\ disk' = disk
      BY <2>5 DEF Durable!DurableNext, Durable!Lapse
    <2> QED
      BY <2>1, <2>3, <2>4, <2>5 DEF Durably
  <1> QED
    BY <1>1, <1>2, StoreInvHolds, PTL DEF Spec, ImplementsDurable, Durable!DurableSpec
=============================================================================
