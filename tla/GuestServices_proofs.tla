------------------------ MODULE GuestServices_proofs ------------------------
(* Proofs about AndroidFiles, JniTables and GuestServices, for any threads,  *)
(* names, tables, contents and guest directories: the guest's own            *)
(* directories are a file store of their own, and calls there leave the      *)
(* assets alone; the count of a table stays near it, and in a table no two   *)
(* threads were in at once every ID names what it was got for; a thread that *)
(* uses both services keeps what each of them promises when used alone.      *)
EXTENDS GuestServices, FiniteSetTheorems, TLAPS

(***************************************************************************)
(* JniTables                                                               *)
(***************************************************************************)
-----------------------------------------------------------------------------
(* The inductive invariant.                                                  *)

InTable(k) == {t \in Clients : jpc[t] # "idle" /\ lookup[t].kind = k}

\* The types of the state; a lookup in progress is of a name of its table and
\* has a slot there.
Shape ==
  /\ table = [k \in Tables |-> table[k]]
  /\ \A k \in Tables :
       table[k] \in [0 .. Limit[k] - 1 -> [id : Nat, name : NamesOf[k] \cup {Null}]]
  /\ count \in [Tables -> Nat]
  /\ jpc \in [Clients -> {"idle", "fill", "count"}]
  /\ slot \in [Clients -> Nat]
  /\ lookup = [t \in Clients |-> lookup[t]]
  /\ \A t \in Clients : jpc[t] # "idle" =>
       /\ lookup[t].kind \in Tables /\ lookup[t].name \in NamesOf[lookup[t].kind]
       /\ slot[t] < Limit[lookup[t].kind]
  /\ \A g \in granted : g.kind \in Tables /\ g.name \in NamesOf[g.kind] /\ g.id \in Nat

\* The count passes the table by as many threads as raced for its last entry.
CountBounded ==
  \A k \in Tables :
    count[k] + Cardinality(InTable(k)) <= Limit[k] + Cardinality(Clients) - 1

\* A table two threads are in is a table two threads were in at once.
OneAtATime ==
  \A t, u \in Clients :
    t # u /\ jpc[t] # "idle" /\ jpc[u] # "idle" /\ lookup[t].kind = lookup[u].kind
      => lookup[t].kind \in overlapped

\* Otherwise the counted entries are filled, in order, and the thread in the
\* table is working on the next one.
Filled ==
  \A k \in Tables : k \notin overlapped =>
    /\ count[k] <= Limit[k]
    /\ \A i \in 0 .. count[k] - 1 : table[k][i].id = Id(k, i) /\ table[k][i].name \in NamesOf[k]

NextSlot ==
  \A t \in Clients : jpc[t] # "idle" /\ lookup[t].kind \notin overlapped =>
    /\ slot[t] = count[lookup[t].kind]
    /\ jpc[t] = "count" =>
         table[lookup[t].kind][slot[t]] = [id |-> Id(lookup[t].kind, slot[t]), name |-> lookup[t].name]

\* What was handed out is counted.
Counted ==
  \A g \in granted : g.kind \notin overlapped /\ g.id # 0 =>
    \E i \in 0 .. count[g.kind] - 1 : g.id = Id(g.kind, i) /\ table[g.kind][i].name = g.name

JniInv == Shape /\ CountBounded /\ OneAtATime /\ Filled /\ NextSlot /\ Counted

-----------------------------------------------------------------------------
(* Facts about the constants.                                                *)

LEMMA TableFacts ==
  /\ IsFiniteSet(Clients) /\ Cardinality(Clients) \in Nat
  /\ \A k \in Tables : Limit[k] \in Nat \ {0}
  /\ \A k \in Tables : Null \notin NamesOf[k] /\ Unknown \notin NamesOf[k]
  /\ Null # Unknown
  <1>1. IsFiniteSet(Clients) /\ Null # Unknown
    BY JniAssumption
  <1>2. \A k \in Tables : Limit[k] \in Nat \ {0}
    BY JniAssumption DEF Tables, Limit
  <1>3. \A k \in Tables : Null \notin NamesOf[k] /\ Unknown \notin NamesOf[k]
    BY JniAssumption DEF Tables, NamesOf
  <1> QED BY <1>1, <1>2, <1>3, FS_CardinalityType

\* IDs are numbers above 0, one for each place of a table.
LEMMA IdFacts ==
  ASSUME NEW k \in Tables, NEW i \in Nat
  PROVE  /\ Id(k, i) \in Nat /\ Id(k, i) # 0
         /\ \A j \in Nat : Id(k, i) = Id(k, j) => i = j
  BY DEF Tables, Id, FirstId

\* Threads in a table are among the threads.
LEMMA InTableFacts ==
  \A k : IsFiniteSet(InTable(k)) /\ Cardinality(InTable(k)) \in 0 .. Cardinality(Clients)
  <1> TAKE k
  <1>1. InTable(k) \subseteq Clients
    BY DEF InTable
  <1>2. IsFiniteSet(InTable(k)) /\ Cardinality(InTable(k)) <= Cardinality(Clients)
    BY <1>1, TableFacts, FS_Subset
  <1> QED BY <1>2, TableFacts, FS_CardinalityType

\* While a table has been used by one thread at a time, an ID finds its entry.
LEMMA FindsEntry ==
  ASSUME Shape, Filled, NEW k \in Tables, k \notin overlapped, NEW i \in 0 .. count[k] - 1
  PROVE  Found(k, Id(k, i)) = table[k][i].name
  <1>1. count[k] \in Nat /\ count[k] <= Limit[k] /\ Limit[k] \in Nat
    BY TableFacts DEF Shape, Filled
  <1>2. \A j \in 0 .. count[k] - 1 : table[k][j].id = Id(k, j)
    BY DEF Filled
  <1>3. Matches(k, Id(k, i)) = {i}
    <2>1. i \in Matches(k, Id(k, i))
      BY <1>1, <1>2 DEF Matches, Scanned
    <2>2. ASSUME NEW j \in Matches(k, Id(k, i)) PROVE j = i
      <3>1. j \in 0 .. count[k] - 1 /\ table[k][j].id = Id(k, i)
        BY DEF Matches, Scanned
      <3> QED BY <1>1, <1>2, <3>1, IdFacts
    <2> QED BY <2>1, <2>2
  <1> DEFINE Least(j) == j \in Matches(k, Id(k, i)) /\ \A m \in Matches(k, Id(k, i)) : j <= m
  <1>4. (CHOOSE j \in Matches(k, Id(k, i)) : \A m \in Matches(k, Id(k, i)) : j <= m) = i
    <2>1. \A j \in {i} : \A m \in {i} : j <= m
      BY <1>1
    <2> QED BY <1>3, <2>1
  <1> QED BY <1>3, <1>4 DEF Found

-----------------------------------------------------------------------------
(* The initial states and the steps.                                         *)

LEMMA JniInitInv == JniInit => JniInv
  <1> SUFFICES ASSUME JniInit PROVE JniInv
    OBVIOUS
  <1> USE DEF JniInit
  <1>1. Shape
    BY DEF Shape
  <1>2. CountBounded
    <2> SUFFICES ASSUME NEW k \in Tables
                 PROVE  count[k] + Cardinality(InTable(k)) <= Limit[k] + Cardinality(Clients) - 1
      BY DEF CountBounded
    <2>1. InTable(k) = {}
      BY DEF InTable
    <2>2. Cardinality(InTable(k)) = 0
      BY <2>1, FS_EmptySet
    <2>3. count[k] = 0
      OBVIOUS
    <2> QED BY <2>2, <2>3, TableFacts
  <1>3. OneAtATime /\ NextSlot /\ Counted
    BY DEF OneAtATime, NextSlot, Counted
  <1>4. Filled
    BY TableFacts DEF Filled
  <1> QED BY <1>1, <1>2, <1>3, <1>4 DEF JniInv

\* A thread enters a table with room: it works on the next slot, and if another
\* thread is there the table is overlapped.
LEMMA LookupBeginInv == \A t \in Clients : JniInv /\ LookupBegin(t) => JniInv'
  <1> SUFFICES ASSUME NEW t \in Clients, JniInv, LookupBegin(t) PROVE JniInv'
    OBVIOUS
  <1> USE DEF JniInv
  <1>1. PICK k \in Tables : \E name \in NamesOf[k] :
          /\ lookup' = [lookup EXCEPT ![t] = [kind |-> k, name |-> name]]
          /\ IF HasRoom(k)
             THEN /\ slot' = [slot EXCEPT ![t] = count[k]]
                  /\ jpc' = [jpc EXCEPT ![t] = "fill"]
                  /\ overlapped' = IF \E u \in Clients : jpc[u] # "idle" /\ lookup[u].kind = k
                                   THEN overlapped \cup {k} ELSE overlapped
                  /\ UNCHANGED granted
             ELSE /\ granted' = granted \cup {[kind |-> k, name |-> name, id |-> 0]}
                  /\ UNCHANGED <<slot, jpc, overlapped>>
    BY DEF LookupBegin
  <1>2. PICK name \in NamesOf[k] :
          /\ lookup' = [lookup EXCEPT ![t] = [kind |-> k, name |-> name]]
          /\ IF HasRoom(k)
             THEN /\ slot' = [slot EXCEPT ![t] = count[k]]
                  /\ jpc' = [jpc EXCEPT ![t] = "fill"]
                  /\ overlapped' = IF \E u \in Clients : jpc[u] # "idle" /\ lookup[u].kind = k
                                   THEN overlapped \cup {k} ELSE overlapped
                  /\ UNCHANGED granted
             ELSE /\ granted' = granted \cup {[kind |-> k, name |-> name, id |-> 0]}
                  /\ UNCHANGED <<slot, jpc, overlapped>>
    BY <1>1
  <1>3. jpc[t] = "idle" /\ UNCHANGED <<table, count>>
    BY DEF LookupBegin
  <1>4. /\ lookup'[t].kind = k /\ lookup'[t].name = name
        /\ lookup' = [u \in Clients |-> lookup'[u]]
        /\ \A u \in Clients \ {t} : lookup'[u] = lookup[u]
    BY <1>2 DEF Shape
  <1> USE <1>3, <1>4
  <1>5. CASE HasRoom(k)
    <2>1. /\ slot' = [slot EXCEPT ![t] = count[k]] /\ jpc' = [jpc EXCEPT ![t] = "fill"]
          /\ granted' = granted /\ overlapped \subseteq overlapped'
          /\ (\E u \in Clients : jpc[u] # "idle" /\ lookup[u].kind = k) => k \in overlapped'
          /\ overlapped' \subseteq overlapped \cup {k}
      BY <1>2, <1>5
    <2>2. /\ slot'[t] = count[k] /\ jpc'[t] = "fill" /\ count[k] < Limit[k]
          /\ \A u \in Clients \ {t} : slot'[u] = slot[u] /\ jpc'[u] = jpc[u]
      BY <2>1, <1>5 DEF Shape, HasRoom
    <2>3. Shape'
      BY <2>1, <2>2 DEF Shape
    <2>4. CountBounded'
      <3> SUFFICES ASSUME NEW m \in Tables
                   PROVE  count'[m] + Cardinality(InTable(m)') <= Limit[m] + Cardinality(Clients) - 1
        BY DEF CountBounded
      <3>1. count'[m] = count[m] /\ count[m] \in Nat
        BY DEF Shape
      <3>2. CASE m = k
        <4>1. InTable(m)' \subseteq Clients
          BY DEF InTable
        <4>2. Cardinality(InTable(m)') \in Nat /\ Cardinality(InTable(m)') <= Cardinality(Clients)
          BY <4>1, TableFacts, FS_Subset, FS_CardinalityType
        <4> QED BY <2>2, <3>1, <3>2, <4>2, TableFacts
      <3>3. CASE m # k
        <4>1. InTable(m)' = InTable(m)
          BY <2>2, <3>3 DEF InTable
        <4> QED BY <3>1, <4>1 DEF CountBounded
      <3> QED BY <3>2, <3>3
    <2>5. OneAtATime'
      BY <2>1, <2>2 DEF OneAtATime
    <2>6. Filled' /\ NextSlot' /\ Counted'
      BY <2>1, <2>2 DEF Shape, Filled, NextSlot, Counted
    <2> QED BY <2>3, <2>4, <2>5, <2>6
  <1>6. CASE ~HasRoom(k)
    <2>1. /\ granted' = granted \cup {[kind |-> k, name |-> name, id |-> 0]}
          /\ UNCHANGED <<slot, jpc, overlapped>>
      BY <1>2, <1>6
    <2>2. Shape'
      <3>1. \A u \in Clients : jpc'[u] # "idle" => u # t /\ lookup'[u] = lookup[u]
        BY <2>1
      <3>2. \A g \in granted' : g.kind \in Tables /\ g.name \in NamesOf[g.kind] /\ g.id \in Nat
        BY <2>1 DEF Shape
      <3>3. \A u \in Clients : jpc'[u] # "idle" =>
              /\ lookup'[u].kind \in Tables /\ lookup'[u].name \in NamesOf[lookup'[u].kind]
              /\ slot'[u] < Limit[lookup'[u].kind]
        BY <2>1, <3>1 DEF Shape
      <3>4. /\ jpc' \in [Clients -> {"idle", "fill", "count"}] /\ slot' \in [Clients -> Nat]
            /\ count' \in [Tables -> Nat] /\ table' = [m \in Tables |-> table'[m]]
            /\ \A m \in Tables :
                 table'[m] \in [0 .. Limit[m] - 1 -> [id : Nat, name : NamesOf[m] \cup {Null}]]
        BY <2>1 DEF Shape
      <3> QED BY <1>4, <3>2, <3>3, <3>4 DEF Shape
    <2>3. CountBounded'
      <3>1. \A m : InTable(m)' = InTable(m)
        BY <2>1 DEF InTable
      <3> QED BY <3>1 DEF CountBounded
    <2>4. OneAtATime' /\ NextSlot'
      BY <2>1 DEF OneAtATime, NextSlot
    <2>5. Filled' /\ Counted'
      BY <2>1 DEF Filled, Counted
    <2> QED BY <2>2, <2>3, <2>4, <2>5
  <1> QED BY <1>5, <1>6

\* It fills its slot, which in a table of its own is past the counted ones.
LEMMA LookupFillInv == \A t \in Clients : JniInv /\ LookupFill(t) => JniInv'
  <1> SUFFICES ASSUME NEW t \in Clients, JniInv, LookupFill(t) PROVE JniInv'
    OBVIOUS
  <1> USE DEF JniInv
  <1> DEFINE k == lookup[t].kind
             entry == [id |-> Id(k, slot[t]), name |-> lookup[t].name]
  <1>1. /\ jpc[t] = "fill" /\ jpc' = [jpc EXCEPT ![t] = "count"]
        /\ table' = [table EXCEPT ![k][slot[t]] = entry]
        /\ UNCHANGED <<count, lookup, slot, granted, overlapped>>
    BY DEF LookupFill
  <1>2. k \in Tables /\ lookup[t].name \in NamesOf[k] /\ slot[t] \in 0 .. Limit[k] - 1
    BY <1>1, TableFacts DEF Shape
  <1>3. entry \in [id : Nat, name : NamesOf[k] \cup {Null}]
    BY <1>2, IdFacts DEF Shape
  <1>4. /\ jpc'[t] = "count" /\ \A u \in Clients \ {t} : jpc'[u] = jpc[u]
        /\ \A u \in Clients : jpc'[u] # "idle" <=> jpc[u] # "idle"
    BY <1>1 DEF Shape
  <1>5. /\ table' = [m \in Tables |-> table'[m]]
        /\ table'[k] = [table[k] EXCEPT ![slot[t]] = entry]
        /\ \A m \in Tables \ {k} : table'[m] = table[m]
    BY <1>1, <1>2 DEF Shape
  <1>6. /\ table'[k] \in [0 .. Limit[k] - 1 -> [id : Nat, name : NamesOf[k] \cup {Null}]]
        /\ table'[k][slot[t]] = entry
        /\ \A i \in (0 .. Limit[k] - 1) \ {slot[t]} : table'[k][i] = table[k][i]
    <2> HIDE DEF entry
    <2>1. table[k] \in [0 .. Limit[k] - 1 -> [id : Nat, name : NamesOf[k] \cup {Null}]]
      BY <1>2 DEF Shape
    <2> DEFINE old == table[k]
    <2>2. table'[k] = [old EXCEPT ![slot[t]] = entry]
      BY <1>5
    <2>3. old \in [0 .. Limit[k] - 1 -> [id : Nat, name : NamesOf[k] \cup {Null}]]
      BY <2>1
    <2> HIDE DEF old
    <2>4. /\ [old EXCEPT ![slot[t]] = entry] \in
               [0 .. Limit[k] - 1 -> [id : Nat, name : NamesOf[k] \cup {Null}]]
          /\ [old EXCEPT ![slot[t]] = entry][slot[t]] = entry
          /\ \A i \in (0 .. Limit[k] - 1) \ {slot[t]} : [old EXCEPT ![slot[t]] = entry][i] = old[i]
      BY <1>2, <1>3, <2>3
    <2> QED BY <2>2, <2>4 DEF old
  <1>7. k \notin overlapped => slot[t] = count[k] /\ count[k] <= Limit[k]
    BY <1>1, <1>2 DEF NextSlot, Filled
  <1>8. \A m \in Tables : m \notin overlapped =>
          \A i \in 0 .. count[m] - 1 : table'[m][i] = table[m][i]
    <2> SUFFICES ASSUME NEW m \in Tables, m \notin overlapped, NEW i \in 0 .. count[m] - 1
                 PROVE  table'[m][i] = table[m][i]
      OBVIOUS
    <2>1. CASE m = k
      <3>1. count[k] \in Nat /\ Limit[k] \in Nat /\ slot[t] = count[k] /\ count[k] <= Limit[k]
        BY <1>2, <1>7, <2>1, TableFacts DEF Shape
      <3>2. i \in (0 .. Limit[k] - 1) \ {slot[t]}
        BY <2>1, <3>1
      <3> QED BY <1>6, <2>1, <3>2
    <2>2. CASE m # k
      BY <1>5, <2>2
    <2> QED BY <2>1, <2>2
  <1>9. entry.id = Id(k, slot[t]) /\ entry.name = lookup[t].name
    OBVIOUS
  <1> HIDE DEF entry
  <1>10. Shape'
    BY <1>1, <1>4, <1>5, <1>6 DEF Shape
  <1>11. CountBounded'
    <2>1. \A m : InTable(m)' = InTable(m)
      BY <1>1, <1>4 DEF InTable
    <2> QED BY <1>1, <2>1 DEF CountBounded
  <1>12. OneAtATime'
    BY <1>1, <1>4 DEF OneAtATime
  <1>13. Filled'
    BY <1>1, <1>8 DEF Filled
  <1>14. NextSlot'
    <2> SUFFICES ASSUME NEW u \in Clients, jpc'[u] # "idle", lookup[u].kind \notin overlapped
                 PROVE  /\ slot[u] = count[lookup[u].kind]
                        /\ jpc'[u] = "count" =>
                             table'[lookup[u].kind][slot[u]] =
                               [id |-> Id(lookup[u].kind, slot[u]), name |-> lookup[u].name]
      BY <1>1 DEF NextSlot
    <2>1. CASE u = t
      BY <1>1, <1>4, <1>6, <1>7, <2>1 DEF entry
    <2>2. CASE u # t
      <3>1. lookup[u].kind \in Tables \ {k}
        BY <1>1, <1>4, <2>2 DEF OneAtATime, Shape
      <3> QED BY <1>4, <1>5, <2>2, <3>1 DEF NextSlot
    <2> QED BY <2>1, <2>2
  <1>15. Counted'
    <2> SUFFICES ASSUME NEW g \in granted, g.kind \notin overlapped, g.id # 0
                 PROVE  \E i \in 0 .. count[g.kind] - 1 :
                          g.id = Id(g.kind, i) /\ table'[g.kind][i].name = g.name
      BY <1>1 DEF Counted
    <2>1. PICK i \in 0 .. count[g.kind] - 1 : g.id = Id(g.kind, i) /\ table[g.kind][i].name = g.name
      BY DEF Counted
    <2>2. g.kind \in Tables
      BY DEF Shape
    <2>3. table'[g.kind][i] = table[g.kind][i]
      BY <1>8, <2>2
    <2> QED BY <2>1, <2>3
  <1> QED BY <1>10, <1>11, <1>12, <1>13, <1>14, <1>15

\* It counts its entry and returns the ID.
LEMMA LookupEndInv == \A t \in Clients : JniInv /\ LookupEnd(t) => JniInv'
  <1> SUFFICES ASSUME NEW t \in Clients, JniInv, LookupEnd(t) PROVE JniInv'
    OBVIOUS
  <1> USE DEF JniInv
  <1> DEFINE k == lookup[t].kind
             new == [kind |-> k, name |-> lookup[t].name, id |-> Id(k, slot[t])]
  <1>1. PICK n \in {slot[t], count[k]} : count' = [count EXCEPT ![k] = n + 1]
    BY DEF LookupEnd
  <1>2. /\ jpc[t] = "count" /\ jpc' = [jpc EXCEPT ![t] = "idle"]
        /\ granted' = granted \cup {new}
        /\ UNCHANGED <<table, lookup, slot, overlapped>>
    BY DEF LookupEnd
  <1>3. /\ k \in Tables /\ lookup[t].name \in NamesOf[k] /\ count[k] \in Nat
        /\ slot[t] \in Nat /\ slot[t] < Limit[k] /\ n \in Nat
    BY <1>1, <1>2 DEF Shape
  <1>4. /\ jpc'[t] = "idle" /\ \A u \in Clients \ {t} : jpc'[u] = jpc[u]
        /\ count' \in [Tables -> Nat] /\ count'[k] = n + 1
        /\ \A m \in Tables \ {k} : count'[m] = count[m]
    BY <1>1, <1>2, <1>3 DEF Shape
  <1>5. /\ new.kind = k /\ new.name = lookup[t].name /\ new.id = Id(k, slot[t])
        /\ new.id \in Nat
    BY <1>3, IdFacts
  <1>6. k \notin overlapped =>
          /\ slot[t] = count[k] /\ n = count[k] /\ count[k] <= Limit[k]
          /\ table[k][slot[t]] = [id |-> Id(k, slot[t]), name |-> lookup[t].name]
    BY <1>1, <1>2, <1>3 DEF NextSlot, Filled
  <1> HIDE DEF new
  <1>7. Shape'
    BY <1>2, <1>3, <1>4, <1>5 DEF Shape
  <1>8. CountBounded'
    <2> SUFFICES ASSUME NEW m \in Tables
                 PROVE  count'[m] + Cardinality(InTable(m)') <= Limit[m] + Cardinality(Clients) - 1
      BY DEF CountBounded
    <2>1. CASE m = k
      <3>1. InTable(m)' = InTable(m) \ {t} /\ t \in InTable(m)
        BY <1>2, <1>4, <2>1 DEF InTable
      <3>2. Cardinality(InTable(m)') = Cardinality(InTable(m)) - 1
        BY <3>1, InTableFacts, FS_RemoveElement
      <3>3. Cardinality(InTable(m)) \in 0 .. Cardinality(Clients) /\ Cardinality(Clients) \in Nat
        BY InTableFacts, TableFacts
      <3>4. count[m] + Cardinality(InTable(m)) <= Limit[m] + Cardinality(Clients) - 1
        BY DEF CountBounded
      <3>5. /\ Limit[m] \in Nat /\ count[m] \in Nat /\ count'[m] = n + 1
            /\ (n = count[m] \/ n = slot[t]) /\ slot[t] \in Nat /\ slot[t] < Limit[m]
        BY <1>1, <1>3, <1>4, <2>1, TableFacts
      <3> QED BY <3>2, <3>3, <3>4, <3>5
    <2>2. CASE m # k
      <3>1. InTable(m)' = InTable(m)
        BY <1>2, <1>4, <2>2 DEF InTable
      <3>2. count'[m] = count[m]
        BY <1>4, <2>2
      <3>3. count[m] + Cardinality(InTable(m)) <= Limit[m] + Cardinality(Clients) - 1
        BY DEF CountBounded
      <3> QED BY <3>1, <3>2, <3>3
    <2> QED BY <2>1, <2>2
  <1>9. OneAtATime'
    BY <1>2, <1>4 DEF OneAtATime
  <1>10. Filled'
    <2> SUFFICES ASSUME NEW m \in Tables, m \notin overlapped
                 PROVE  /\ count'[m] <= Limit[m]
                        /\ \A i \in 0 .. count'[m] - 1 :
                             table[m][i].id = Id(m, i) /\ table[m][i].name \in NamesOf[m]
      BY <1>2 DEF Filled
    <2>1. CASE m = k
      <3>1. /\ slot[t] = count[m] /\ count[m] \in Nat /\ count'[m] = count[m] + 1
            /\ table[m][count[m]] = [id |-> Id(m, count[m]), name |-> lookup[t].name]
            /\ lookup[t].name \in NamesOf[m]
        BY <1>3, <1>4, <1>6, <2>1
      <3>2. count'[m] <= Limit[m]
        BY <1>3, <2>1, <3>1, TableFacts
      <3>3. \A i \in 0 .. count[m] - 1 : table[m][i].id = Id(m, i) /\ table[m][i].name \in NamesOf[m]
        BY DEF Filled
      <3>4. table[m][count[m]].id = Id(m, count[m]) /\ table[m][count[m]].name \in NamesOf[m]
        BY <3>1
      <3>5. \A i \in 0 .. count'[m] - 1 : i \in 0 .. count[m] - 1 \/ i = count[m]
        BY <3>1
      <3> QED BY <3>2, <3>3, <3>4, <3>5
    <2>2. CASE m # k
      BY <1>4, <2>2 DEF Filled
    <2> QED BY <2>1, <2>2
  <1>11. NextSlot'
    <2> SUFFICES ASSUME NEW u \in Clients, jpc'[u] # "idle", lookup[u].kind \notin overlapped
                 PROVE  /\ slot[u] = count'[lookup[u].kind]
                        /\ jpc'[u] = "count" =>
                             table[lookup[u].kind][slot[u]] =
                               [id |-> Id(lookup[u].kind, slot[u]), name |-> lookup[u].name]
      BY <1>2 DEF NextSlot
    <2>1. u # t /\ jpc[u] = jpc'[u]
      BY <1>4
    <2>2. lookup[u].kind \in Tables \ {k}
      BY <1>2, <2>1 DEF OneAtATime, Shape
    <2> QED BY <1>4, <2>1, <2>2 DEF NextSlot
  <1>12. Counted'
    <2> SUFFICES ASSUME NEW g \in granted', g.kind \notin overlapped, g.id # 0
                 PROVE  \E i \in 0 .. count'[g.kind] - 1 :
                          g.id = Id(g.kind, i) /\ table[g.kind][i].name = g.name
      BY <1>2 DEF Counted
    <2>1. CASE g = new
      <3>1. slot[t] \in 0 .. count'[k] - 1
        BY <1>3, <1>4, <1>5, <1>6, <2>1
      <3>2. table[k][slot[t]].name = lookup[t].name
        BY <1>5, <1>6, <2>1
      <3> QED BY <1>5, <2>1, <3>1, <3>2
    <2>2. CASE g \in granted
      <3>1. PICK i \in 0 .. count[g.kind] - 1 : g.id = Id(g.kind, i) /\ table[g.kind][i].name = g.name
        BY <2>2 DEF Counted
      <3>2. g.kind \in Tables /\ count[g.kind] \in Nat
        BY <2>2 DEF Shape
      <3>3. i \in 0 .. count'[g.kind] - 1
        BY <1>3, <1>4, <1>6, <3>2
      <3> QED BY <3>1, <3>3
    <2> QED BY <1>2, <2>1, <2>2
  <1> QED BY <1>7, <1>8, <1>9, <1>10, <1>11, <1>12

LEMMA JniNextInv == JniInv /\ [JniNext]_jniVars => JniInv'
  <1> SUFFICES ASSUME JniInv, [JniNext]_jniVars PROVE JniInv'
    OBVIOUS
  <1>1. CASE UNCHANGED jniVars
    <2>1. UNCHANGED <<table, count, jpc, lookup, slot, granted, overlapped>>
      BY <1>1 DEF jniVars
    <2>2. \A k : InTable(k)' = InTable(k)
      BY <2>1 DEF InTable
    <2>3. Shape' /\ CountBounded' /\ OneAtATime'
      BY <2>1, <2>2 DEF JniInv, Shape, CountBounded, OneAtATime
    <2>4. Filled' /\ NextSlot' /\ Counted'
      BY <2>1 DEF JniInv, Filled, NextSlot, Counted
    <2> QED BY <2>3, <2>4 DEF JniInv
  <1> QED BY <1>1, LookupBeginInv, LookupFillInv, LookupEndInv DEF JniNext, Jni

-----------------------------------------------------------------------------
(* The theorems.                                                             *)

\* The invariant holds in every reachable state of the tables.
THEOREM JniCorrect == JniSpec => []JniInv
  BY JniInitInv, JniNextInv, PTL DEF JniSpec

\* The tables keep their types; the count passes its table by fewer than there
\* are threads, and no thread writes behind the table.
THEOREM JniTypes == JniSpec => []JniTypeOK
  <1>1. JniInv => JniTypeOK
    <2> SUFFICES ASSUME JniInv PROVE JniTypeOK
      OBVIOUS
    <2>1. ASSUME NEW k \in Tables PROVE count[k] \in 0 .. Limit[k] + Cardinality(Clients) - 1
      <3>1. count[k] + Cardinality(InTable(k)) <= Limit[k] + Cardinality(Clients) - 1
        BY DEF JniInv, CountBounded
      <3>2. Cardinality(InTable(k)) \in Nat /\ count[k] \in Nat /\ Limit[k] \in Nat /\ Cardinality(Clients) \in Nat
        BY InTableFacts, TableFacts DEF JniInv, Shape
      <3> QED BY <3>1, <3>2
    <2> QED BY <2>1 DEF JniInv, Shape, JniTypeOK
  <1> QED BY JniCorrect, <1>1, PTL

\* An ID keeps naming what it was got for.
THEOREM IdsName == JniSpec => []IdsNameTheirMembers
  <1>1. JniInv => IdsNameTheirMembers
    <2> SUFFICES ASSUME JniInv, NEW g \in granted, g.id # 0, g.kind \notin overlapped
                 PROVE  Found(g.kind, g.id) = g.name
      BY DEF IdsNameTheirMembers
    <2>1. PICK i \in 0 .. count[g.kind] - 1 : g.id = Id(g.kind, i) /\ table[g.kind][i].name = g.name
      BY DEF JniInv, Counted
    <2>2. g.kind \in Tables
      BY DEF JniInv, Shape
    <2> QED BY <2>1, <2>2, FindsEntry DEF JniInv
  <1> QED BY JniCorrect, <1>1, PTL

\* A call's scan stays inside the table and never compares a null name.
THEOREM ScansFind == JniSpec => []ScansFindNames
  <1>1. JniInv => ScansFindNames
    <2> SUFFICES ASSUME JniInv, NEW k \in Tables, k \notin overlapped
                 PROVE  count[k] <= Limit[k] /\ \A g \in granted : g.kind = k => Found(k, g.id) # Null
      BY DEF ScansFindNames
    <2>1. count[k] <= Limit[k] /\ count[k] \in Nat
      BY DEF JniInv, Filled, Shape
    <2>2. ASSUME NEW g \in granted, g.kind = k PROVE Found(k, g.id) # Null
      <3>1. CASE g.id = 0
        <4>1. Matches(k, 0) = {}
          BY <2>1, IdFacts DEF JniInv, Filled, Matches, Scanned
        <4> QED BY <3>1, <4>1, TableFacts DEF Found
      <3>2. CASE g.id # 0
        <4>1. PICK i \in 0 .. count[k] - 1 : g.id = Id(k, i)
          BY <2>2, <3>2 DEF JniInv, Counted
        <4>2. Found(k, g.id) = table[k][i].name
          BY <4>1, FindsEntry DEF JniInv
        <4>3. table[k][i].name \in NamesOf[k]
          BY <4>1 DEF JniInv, Filled
        <4> QED BY <4>2, <4>3, TableFacts
      <3> QED BY <3>1, <3>2
    <2> QED BY <2>1, <2>2
  <1> QED BY JniCorrect, <1>1, PTL

(***************************************************************************)
(* AndroidFiles                                                            *)
(***************************************************************************)
-----------------------------------------------------------------------------
(* The inductive invariant.                                                  *)

Values == Contents \cup {Asset, Nothing, Dir, Empty}

\* The types of the state, as far as the argument needs them.
FilesShape ==
  /\ fs \in [Places -> Values]
  /\ alt_path = [t \in Threads |-> alt_path[t]]
  /\ asset_path = [t \in Threads |-> asset_path[t]]
  /\ fpc \in [Threads -> {"idle", "resolve", "copy", "system"}]
  /\ call = [t \in Threads |-> call[t]]
  /\ resolved = [t \in Threads |-> resolved[t]]
  /\ resolved_old = [t \in Threads |-> resolved_old[t]]
  /\ returned = [t \in Threads |-> returned[t]]
  /\ writing \in [Threads -> Places \cup {Nothing}]

\* The calls, with the paths that AAssetManager_open makes.
WrapperCalls ==
  {c \in [op : Sys!Operations, path : Paths, to : Paths] :
     /\ c.op # "rename" => c.to = c.path
     /\ "dot" \in {c.path[1], c.to[1]} => c.op = "read"}

\* A call in progress is one of the guest's, in its own directories or outside.
CallFits(t) ==
  fpc[t] # "idle" =>
    /\ call[t] \in WrapperCalls
    /\ call[t].op = "create" => writing[t] = Nothing
    /\ IsOwn(call[t].path) <=> t \in own
    /\ IsOwn(call[t].to) <=> t \in own
    /\ fpc[t] = "copy" => call[t].op = "rename"

\* In its own directories a thread's buffer holds the place it resolved last,
\* and rename's copy the place of the old path.
OwnResolved(t) ==
  t \in own =>
    /\ fpc[t] \in {"copy", "system"} => resolved[t] = "alt_path"
    /\ fpc[t] = "copy" => alt_path[t] = Home(call[t].path)
    /\ fpc[t] = "system" => /\ alt_path[t] = Home(call[t].to)
                            /\ call[t].op = "rename" => resolved_old[t] = Home(call[t].path)

Outside == {"root", "under", "rel", "assets"} \X Names

\* Elsewhere it resolved to a place outside them.
ElsewhereResolved(t) ==
  t \notin own /\ fpc[t] \in {"copy", "system"} =>
    /\ resolved[t] \in {"path", "alt_path", "asset_path"}
    /\ resolved[t] = "alt_path" => alt_path[t] \in Outside
    /\ resolved[t] = "asset_path" => asset_path[t] \in Outside
    /\ fpc[t] = "system" /\ call[t].op = "rename" => resolved_old[t] \in Outside

ThreadFits(t) == CallFits(t) /\ OwnResolved(t) /\ ElsewhereResolved(t)

FilesInv == FilesShape /\ \A t \in Threads : ThreadFits(t)

-----------------------------------------------------------------------------
(* Paths and places.                                                         *)

\* A call: its parts, and that only a renaming has two paths.
LEMMA CallFacts ==
  ASSUME NEW c \in WrapperCalls
  PROVE  /\ c.path \in Paths /\ c.to \in Paths
         /\ c.op \in {"read", "create", "mkdir", "remove", "rename"}
         /\ c.op # "rename" => c.to = c.path
         /\ c = [op |-> c.op, path |-> c.path, to |-> c.to]
         /\ c.op # "read" => c.path[1] # "dot" /\ c.to[1] # "dot"
  BY DEF WrapperCalls, Sys!Operations

\* An own path has its home among the own places; any other path is outside, but
\* for the relative name of an own file that AAssetManager_open was given.
LEMMA PathFacts ==
  ASSUME NEW path \in Paths
  PROVE  /\ IsOwn(path) => Home(path) \in Own
         /\ ~IsOwn(path) => Itself(path) \in Places /\ Itself(path)[2] = path[2]
         /\ ~IsOwn(path) /\ path[1] # "dot" => Itself(path) \in Outside
         /\ path[2] \in Names
  <1>1. PICK d \in {"data", "sd", "sdabs", "abs", "rel", "dot"}, n \in Names : path = <<d, n>>
    <2>1. path \in GuestDirs \X Names \/ path \in {"dot"} \X Names
      BY DEF Paths, GuestPaths
    <2>2. CASE path \in GuestDirs \X Names
      <3>1. GuestDirs \subseteq {"data", "sd", "sdabs", "abs", "rel"}
        BY FilesAssumption
      <3>2. PICK d \in GuestDirs, n \in Names : path = <<d, n>>
        BY <2>2
      <3>3. d \in {"data", "sd", "sdabs", "abs", "rel"}
        BY <3>1
      <3> QED BY <3>2, <3>3
    <2>3. CASE path \in {"dot"} \X Names
      BY <2>3
    <2> QED BY <2>1, <2>2, <2>3
  <1>2. path[1] = d /\ path[2] = n
    BY <1>1
  <1>3. IsOwn(path) => Home(path) \in Own
    BY <1>2 DEF IsOwn, Home, Own
  <1>4. ~IsOwn(path) => Itself(path) \in Places /\ Itself(path)[2] = path[2]
    BY <1>2 DEF IsOwn, Itself, Places
  <1>5. ~IsOwn(path) /\ path[1] # "dot" => Itself(path) \in Outside
    BY <1>2 DEF IsOwn, Itself, Outside
  <1> QED BY <1>2, <1>3, <1>4, <1>5

LEMMA PlaceFacts ==
  /\ Own \subseteq Places /\ Outside \subseteq Places /\ Own \cap Outside = {}
  /\ Nothing \notin Own /\ Nothing \notin Outside
  <1>1. Own \subseteq Places /\ Outside \subseteq Places
    BY DEF Own, Outside, Places
  <1>2. Own \cap Outside = {}
    BY DEF Own, Outside
  <1>3. Nothing \notin Places
    BY FilesAssumption
  <1> QED BY <1>1, <1>2, <1>3

\* What a path of a call resolves to, in the buffers after the step.
LEMMA ResolveFacts ==
  ASSUME FilesShape, NEW t \in Threads, NEW path \in Paths, Resolve(t, path)
  PROVE  /\ alt_path' = [u \in Threads |-> alt_path'[u]]
         /\ asset_path' = [u \in Threads |-> asset_path'[u]]
         /\ resolved' = [u \in Threads |-> resolved'[u]]
         /\ \A u \in Threads \ {t} : /\ alt_path'[u] = alt_path[u]
                                     /\ asset_path'[u] = asset_path[u]
                                     /\ resolved'[u] = resolved[u]
         /\ IsOwn(path) => resolved'[t] = "alt_path" /\ alt_path'[t] = Home(path)
         /\ ~IsOwn(path) =>
              /\ resolved'[t] \in {"path", "alt_path", "asset_path"}
              /\ resolved'[t] = "alt_path" => alt_path'[t] \in Outside
              /\ resolved'[t] = "asset_path" => asset_path'[t] \in Outside
  <1> DEFINE below == <<"under", path[2]>>
             asset == <<"assets", path[2]>>
  <1>0. below \in Outside /\ asset \in Outside
    BY PathFacts DEF Outside
  <1> HIDE DEF below, asset
  <1> USE DEF FilesShape
  <1>1. CASE IsOwn(path)
    <2>1. /\ alt_path' = [alt_path EXCEPT ![t] = Home(path)]
          /\ resolved' = [resolved EXCEPT ![t] = "alt_path"]
          /\ asset_path' = asset_path
      BY <1>1 DEF Resolve, Redirected, Rewritten, BufferOf
    <2> QED BY <1>1, <2>1
  <1>2. CASE ~IsOwn(path) /\ Exists(Itself(path))
    <2>1. resolved' = [resolved EXCEPT ![t] = "path"] /\ UNCHANGED <<alt_path, asset_path>>
      BY <1>2 DEF Resolve, Redirected, buffers
    <2> QED BY <1>2, <2>1
  <1>3. CASE ~IsOwn(path) /\ ~Exists(Itself(path)) /\ FoundBelow(path)
    <2>1. /\ alt_path' = [alt_path EXCEPT ![t] = below]
          /\ resolved' = [resolved EXCEPT ![t] = "alt_path"]
          /\ asset_path' = asset_path
      BY <1>3 DEF Resolve, Redirected, FoundBelow, BufferOf, below
    <2> QED BY <1>0, <1>3, <2>1
  <1>4. CASE ~IsOwn(path) /\ ~Exists(Itself(path)) /\ ~FoundBelow(path)
    <2>1. /\ alt_path' = [alt_path EXCEPT ![t] = below] \/ alt_path' = alt_path
          /\ asset_path' = [asset_path EXCEPT ![t] = asset]
          /\ \/ resolved' = [resolved EXCEPT ![t] = "asset_path"]
             \/ resolved' = [resolved EXCEPT ![t] = "path"]
      BY <1>4 DEF Resolve, Redirected, BufferOf, below, asset
    <2>2. /\ alt_path' = [u \in Threads |-> alt_path'[u]]
          /\ \A u \in Threads \ {t} : alt_path'[u] = alt_path[u]
      BY <2>1
    <2>3. /\ asset_path' = [u \in Threads |-> asset_path'[u]] /\ asset_path'[t] = asset
          /\ \A u \in Threads \ {t} : asset_path'[u] = asset_path[u]
      BY <2>1
    <2>4. /\ resolved' = [u \in Threads |-> resolved'[u]] /\ resolved'[t] \in {"path", "asset_path"}
          /\ \A u \in Threads \ {t} : resolved'[u] = resolved[u]
      BY <2>1
    <2> QED BY <1>0, <1>4, <2>2, <2>3, <2>4
  <1> QED BY <1>1, <1>2, <1>3, <1>4

\* The places a call reaches: its homes in the own directories, or others; only
\* an opening for reading may reach the former without being for them.
LEMMA PassedFacts ==
  ASSUME FilesInv, NEW t \in Threads, fpc[t] = "system"
  PROVE  /\ Passed(t) = [op |-> call[t].op, path |-> Passed(t).path, to |-> Passed(t).to]
         /\ t \in own => Passed(t).path = Home(call[t].path) /\ Passed(t).to = Home(call[t].to)
         /\ Passed(t).path \in Places /\ Passed(t).to \in Places
         /\ t \notin own /\ call[t].op # "read" => Passed(t).path \in Outside /\ Passed(t).to \in Outside
  <1>1. CallFits(t) /\ OwnResolved(t) /\ ElsewhereResolved(t)
    BY DEF FilesInv, ThreadFits
  <1>2. call[t] \in WrapperCalls
    BY <1>1 DEF CallFits
  <1>3. /\ call[t].path \in Paths /\ call[t].to \in Paths
        /\ call[t].op # "rename" => call[t].to = call[t].path
        /\ call[t] = [op |-> call[t].op, path |-> call[t].path, to |-> call[t].to]
        /\ call[t].op # "read" => call[t].path[1] # "dot" /\ call[t].to[1] # "dot"
    BY <1>2, CallFacts
  <1>4. CASE t \in own
    <2>1. /\ resolved[t] = "alt_path" /\ alt_path[t] = Home(call[t].to)
          /\ call[t].op = "rename" => resolved_old[t] = Home(call[t].path)
      BY <1>1, <1>4 DEF OwnResolved
    <2>2. /\ Home(call[t].path) \in Places /\ Home(call[t].to) \in Places
          /\ Home(call[t].path) # Nothing
      BY <1>1, <1>3, <1>4, PathFacts, PlaceFacts DEF CallFits
    <2>3. \A p : Pointee(t, p) = Home(call[t].to)
      BY <2>1 DEF Pointee, BufferOf
    <2> QED BY <1>3, <1>4, <2>1, <2>2, <2>3 DEF Passed
  <1>5. CASE t \notin own
    <2>1. /\ resolved[t] \in {"path", "alt_path", "asset_path"}
          /\ resolved[t] = "alt_path" => alt_path[t] \in Outside
          /\ resolved[t] = "asset_path" => asset_path[t] \in Outside
          /\ call[t].op = "rename" => resolved_old[t] \in Outside
      BY <1>1, <1>5 DEF ElsewhereResolved
    <2>2. /\ Itself(call[t].path) \in Places /\ Itself(call[t].to) \in Places
          /\ call[t].op # "read" => Itself(call[t].path) \in Outside /\ Itself(call[t].to) \in Outside
      BY <1>1, <1>3, <1>5, PathFacts DEF CallFits
    <2>3. /\ Pointee(t, call[t].path) \in Places /\ Pointee(t, call[t].to) \in Places
          /\ call[t].op # "read" => Pointee(t, call[t].path) \in Outside /\ Pointee(t, call[t].to) \in Outside
      BY <2>1, <2>2, PlaceFacts DEF Pointee, BufferOf
    <2>4. /\ call[t].op = "rename" => resolved_old[t] # Nothing
          /\ call[t].op = "rename" => resolved_old[t] \in Places
      BY <2>1, PlaceFacts
    <2> QED BY <1>3, <1>5, <2>1, <2>3, <2>4 DEF Passed
  <1> QED BY <1>4, <1>5

-----------------------------------------------------------------------------
(* The system calls.                                                         *)

IsCall(c) == c.op \in {"read", "create", "mkdir", "remove", "rename"}

\* An opening for reading is not done with anything, and changes nothing.
LEMMA ReadFacts ==
  ASSUME NEW f, NEW c, c.op = "read", f[c.path] \in Values
  PROVE  Sys!Answer(f, c) # Sys!Done /\ Sys!After(f, c) = f /\ \A q : Sys!Where(f, c, q) = q
  <1>1. Sys!Answer(f, c) # Sys!Done
    BY FilesAssumption DEF Sys!Answer, Sys!Failed, Sys!Done, Values
  <1> QED BY <1>1 DEF Sys!After, Sys!Where

\* A call changes no file but those it names, and leaves files there.
LEMMA AfterFacts ==
  ASSUME NEW f \in [Places -> Values], NEW c, IsCall(c), c.path \in Places, c.to \in Places
  PROVE  /\ Sys!After(f, c) \in [Places -> Values]
         /\ \A p \in Places \ {c.path, c.to} : Sys!After(f, c)[p] = f[p]
  <1>1. CASE Sys!Answer(f, c) # Sys!Done
    BY <1>1 DEF Sys!After
  <1>2. CASE Sys!Answer(f, c) = Sys!Done
    <2>1. CASE c.op = "read"
      BY <1>2, <2>1, ReadFacts
    <2>2. CASE c.op = "create"
      <3>1. Sys!After(f, c) = [f EXCEPT ![c.path] = Empty]
        BY <1>2, <2>2 DEF Sys!After
      <3> QED BY <3>1 DEF Values
    <2>3. CASE c.op = "mkdir"
      <3>1. Sys!After(f, c) = [f EXCEPT ![c.path] = Dir]
        BY <1>2, <2>3 DEF Sys!After
      <3> QED BY <3>1 DEF Values
    <2>4. CASE c.op = "remove"
      <3>1. Sys!After(f, c) = [f EXCEPT ![c.path] = Nothing]
        BY <1>2, <2>4 DEF Sys!After
      <3> QED BY <3>1 DEF Values
    <2>5. CASE c.op = "rename"
      <3>1. Sys!After(f, c) = [f EXCEPT ![c.path] = Nothing, ![c.to] = f[c.path]]
        BY <1>2, <2>5 DEF Sys!After
      <3> QED BY <3>1 DEF Values
    <2> QED BY <2>1, <2>2, <2>3, <2>4, <2>5 DEF IsCall
  <1> QED BY <1>1, <1>2

\* Files open for writing stay in places, and a thread that has none open gets
\* none by another thread's call.
LEMMA WritersFacts ==
  ASSUME FilesShape, NEW f, NEW c, NEW t \in Threads, c.path \in Places, c.to \in Places
  PROVE  /\ Sys!Writers(f, c, t) \in [Threads -> Places \cup {Nothing}]
         /\ \A u \in Threads \ {t} : writing[u] = Nothing => Sys!Writers(f, c, t)[u] = Nothing
  <1>1. \A q \in Places \cup {Nothing} : Sys!Where(f, c, q) \in Places \cup {Nothing}
    BY DEF Sys!Where
  <1>2. Sys!Where(f, c, Nothing) = Nothing
    BY FilesAssumption DEF Sys!Where
  <1> QED BY <1>1, <1>2 DEF Sys!Writers, FilesShape

\* The files of the own directories.
OwnFiles(f) == [p \in Own |-> f[p]]

\* Changing an own file and then taking the own files is the same as taking
\* them and then changing it.
LEMMA OwnExcept ==
  ASSUME NEW V, NEW f \in [Places -> V], NEW p \in Own, NEW v
  PROVE  OwnFiles([f EXCEPT ![p] = v]) = [OwnFiles(f) EXCEPT ![p] = v]
  <1> DEFINE g == [f EXCEPT ![p] = v]
  <1>1. \A q \in Own : g[q] = IF q = p THEN v ELSE f[q]
    BY PlaceFacts
  <1> HIDE DEF g
  <1>2. [q \in Own |-> g[q]] = [[q \in Own |-> f[q]] EXCEPT ![p] = v]
    BY <1>1
  <1> QED BY <1>2 DEF OwnFiles, g

\* On own places a call does to the own files what it does to all files.
LEMMA OwnCall ==
  ASSUME NEW f \in [Places -> Values], NEW c, IsCall(c), c.path \in Own, c.to \in Own
  PROVE  /\ Store!Answer(OwnFiles(f), c) = Sys!Answer(f, c)
         /\ Store!After(OwnFiles(f), c) = OwnFiles(Sys!After(f, c))
  <1>1. OwnFiles(f)[c.path] = f[c.path] /\ OwnFiles(f)[c.to] = f[c.to]
    BY DEF OwnFiles
  <1>2. Store!Answer(OwnFiles(f), c) = Sys!Answer(f, c)
    BY <1>1 DEF Store!Answer, Sys!Answer, Store!Failed, Sys!Failed, Store!Done, Sys!Done, IsCall
  <1>3. CASE Sys!Answer(f, c) # Sys!Done
    BY <1>2, <1>3 DEF Store!After, Sys!After, Store!Done, Sys!Done
  <1>4. CASE Sys!Answer(f, c) = Sys!Done
    <2>0. Own \subseteq Places
      BY PlaceFacts
    <2>1. CASE c.op = "read"
      <3>1. f[c.path] \in Values
        BY <2>0
      <3> QED BY <1>4, <2>1, <3>1, ReadFacts
    <2>2. CASE c.op = "create"
      <3> DEFINE after == [f EXCEPT ![c.path] = Empty]
                 ownAfter == [OwnFiles(f) EXCEPT ![c.path] = Empty]
      <3>1. Sys!After(f, c) = after /\ Store!After(OwnFiles(f), c) = ownAfter
        BY <1>2, <1>4, <2>2 DEF Sys!After, Store!After, Sys!Done, Store!Done
      <3>2. OwnFiles(after) = ownAfter
        BY OwnExcept
      <3> HIDE DEF after, ownAfter
      <3> QED BY <1>2, <3>1, <3>2
    <2>3. CASE c.op = "mkdir"
      <3> DEFINE after == [f EXCEPT ![c.path] = Dir]
                 ownAfter == [OwnFiles(f) EXCEPT ![c.path] = Dir]
      <3>1. Sys!After(f, c) = after /\ Store!After(OwnFiles(f), c) = ownAfter
        BY <1>2, <1>4, <2>3 DEF Sys!After, Store!After, Sys!Done, Store!Done
      <3>2. OwnFiles(after) = ownAfter
        BY OwnExcept
      <3> HIDE DEF after, ownAfter
      <3> QED BY <1>2, <3>1, <3>2
    <2>4. CASE c.op = "remove"
      <3> DEFINE after == [f EXCEPT ![c.path] = Nothing]
                 ownAfter == [OwnFiles(f) EXCEPT ![c.path] = Nothing]
      <3>1. Sys!After(f, c) = after /\ Store!After(OwnFiles(f), c) = ownAfter
        BY <1>2, <1>4, <2>4 DEF Sys!After, Store!After, Sys!Done, Store!Done
      <3>2. OwnFiles(after) = ownAfter
        BY OwnExcept
      <3> HIDE DEF after, ownAfter
      <3> QED BY <1>2, <3>1, <3>2
    <2>5. CASE c.op = "rename"
      <3> DEFINE gone == [f EXCEPT ![c.path] = Nothing]
                 ownGone == [OwnFiles(f) EXCEPT ![c.path] = Nothing]
                 after == [gone EXCEPT ![c.to] = f[c.path]]
                 ownAfter == [ownGone EXCEPT ![c.to] = f[c.path]]
      <3>1. Sys!After(f, c) = after /\ Store!After(OwnFiles(f), c) = ownAfter
        BY <1>1, <1>2, <1>4, <2>5 DEF Sys!After, Store!After, Sys!Done, Store!Done
      <3>2. OwnFiles(gone) = ownGone
        BY OwnExcept
      <3>3. gone \in [Places -> Values]
        BY <2>0 DEF Values
      <3>4. OwnFiles(after) = ownAfter
        <4> HIDE DEF gone, ownGone
        <4>1. OwnFiles(after) = [OwnFiles(gone) EXCEPT ![c.to] = f[c.path]]
          BY <3>3, OwnExcept
        <4> QED BY <3>2, <4>1
      <3> HIDE DEF after, ownAfter
      <3> QED BY <1>2, <3>1, <3>4
    <2> QED BY <2>1, <2>2, <2>3, <2>4, <2>5 DEF IsCall
  <1> QED BY <1>2, <1>3, <1>4

\* A place as the store sees it, and where the store sees a file go.
OwnOr(q) == IF q \in Own THEN q ELSE Nothing

LEMMA OwnWhere ==
  ASSUME NEW f \in [Places -> Values], NEW c, IsCall(c), c.path \in Own, c.to \in Own,
         NEW q \in Places \cup {Nothing}
  PROVE  Store!Where(OwnFiles(f), c, OwnOr(q)) = OwnOr(Sys!Where(f, c, q))
  <1>1. Store!Answer(OwnFiles(f), c) = Sys!Answer(f, c) /\ Store!Done = Sys!Done
    BY OwnCall DEF Store!Done, Sys!Done
  <1>2. Nothing \notin Own
    BY PlaceFacts
  <1>3. CASE q \in Own
    BY <1>1, <1>2, <1>3 DEF Store!Where, Sys!Where, OwnOr
  <1>4. CASE q \notin Own
    BY <1>1, <1>2, <1>4 DEF Store!Where, Sys!Where, OwnOr
  <1> QED BY <1>3, <1>4

\* Where a call outside the own directories leaves files the store sees.
LEMMA OutsideWhere ==
  ASSUME NEW f, NEW c, c.path \in Outside, c.to \in Outside, NEW q
  PROVE  OwnOr(Sys!Where(f, c, q)) = OwnOr(q)
  <1>1. c.path \notin Own /\ c.to \notin Own /\ Nothing \notin Own
    BY PlaceFacts
  <1>2. CASE q \in Own
    BY <1>1, <1>2 DEF Sys!Where, OwnOr
  <1>3. CASE q \notin Own
    BY <1>1, <1>3 DEF Sys!Where, OwnOr
  <1> QED BY <1>2, <1>3

-----------------------------------------------------------------------------
(* The store as AndroidFiles keeps it.                                       *)

Wanted(t) ==
  IF fpc[t] # "idle" /\ t \in own
  THEN [call[t] EXCEPT !.path = Home(call[t].path), !.to = Home(call[t].to)]
  ELSE Nothing
Reply(t) == IF t \in own THEN returned[t] ELSE Nothing
OwnWriting(t) == IF writing[t] \in Own THEN writing[t] ELSE Nothing

\* What the store sees of a step: the own files and, per thread, the call, its
\* answer and the file open for writing.
StoreSame ==
  /\ OwnFiles(fs)' = OwnFiles(fs)
  /\ \A t \in Threads : /\ Wanted(t)' = Wanted(t) /\ Reply(t)' = Reply(t)
                        /\ OwnWriting(t)' = OwnWriting(t)

StoreStep == [Store!Next]_(Store!vars)

LEMMA SameIsStutter == StoreSame => StoreStep
  <1> SUFFICES ASSUME StoreSame PROVE UNCHANGED Store!vars
    BY DEF StoreStep
  <1>1. [p \in Own |-> fs[p]]' = [p \in Own |-> fs[p]]
    BY DEF StoreSame, OwnFiles
  <1>2. [t \in Threads |-> Wanted(t)]' = [t \in Threads |-> Wanted(t)]
    BY DEF StoreSame
  <1>3. [t \in Threads |-> Reply(t)]' = [t \in Threads |-> Reply(t)]
    BY DEF StoreSame
  <1>4. [t \in Threads |-> OwnWriting(t)]' = [t \in Threads |-> OwnWriting(t)]
    BY DEF StoreSame
  <1> QED BY <1>1, <1>2, <1>3, <1>4 DEF Store!vars, Wanted, Reply, OwnWriting

LEMMA BeginIsBegin ==
  ASSUME NEW t \in Threads, NEW h \in Store!Calls, h.op = "create" => OwnWriting(t) = Nothing,
         OwnFiles(fs)' = OwnFiles(fs), Wanted(t) = Nothing, Wanted(t)' = h, Reply(t)' = Nothing,
         \A u \in Threads \ {t} : Wanted(u)' = Wanted(u) /\ Reply(u)' = Reply(u),
         \A u \in Threads : OwnWriting(u)' = OwnWriting(u)
  PROVE  StoreStep
  <1>1. [p \in Own |-> fs[p]]' = [p \in Own |-> fs[p]]
    BY DEF OwnFiles
  <1>2. [u \in Threads |-> Wanted(u)]' = [[u \in Threads |-> Wanted(u)] EXCEPT ![t] = h]
    OBVIOUS
  <1>3. [u \in Threads |-> Reply(u)]' = [[u \in Threads |-> Reply(u)] EXCEPT ![t] = Nothing]
    OBVIOUS
  <1>4. /\ [u \in Threads |-> Wanted(u)][t] = Nothing
        /\ [u \in Threads |-> OwnWriting(u)][t] = OwnWriting(t)
    OBVIOUS
  <1>5. [u \in Threads |-> OwnWriting(u)]' = [u \in Threads |-> OwnWriting(u)]
    OBVIOUS
  <1>6. Store!Begin(t, h)
    BY <1>1, <1>2, <1>3, <1>4, <1>5 DEF Store!Begin, Wanted, Reply, OwnWriting
  <1> QED BY <1>6 DEF StoreStep, Store!Next

LEMMA LeaveIsLeave ==
  ASSUME NEW t \in Threads,
         OwnFiles(fs)' = OwnFiles(fs), Wanted(t) = Nothing, Wanted(t)' = Nothing, Reply(t)' = Nothing,
         \A u \in Threads \ {t} : Wanted(u)' = Wanted(u) /\ Reply(u)' = Reply(u),
         \A u \in Threads : OwnWriting(u)' = OwnWriting(u)
  PROVE  StoreStep
  <1>1. [p \in Own |-> fs[p]]' = [p \in Own |-> fs[p]]
    BY DEF OwnFiles
  <1>2. [u \in Threads |-> Wanted(u)]' = [u \in Threads |-> Wanted(u)]
    OBVIOUS
  <1>3. [u \in Threads |-> Reply(u)]' = [[u \in Threads |-> Reply(u)] EXCEPT ![t] = Nothing]
    OBVIOUS
  <1>4. [u \in Threads |-> Wanted(u)][t] = Nothing
    OBVIOUS
  <1>5. [u \in Threads |-> OwnWriting(u)]' = [u \in Threads |-> OwnWriting(u)]
    OBVIOUS
  <1>6. Store!Leave(t)
    BY <1>1, <1>2, <1>3, <1>4, <1>5 DEF Store!Leave, Wanted, Reply, OwnWriting
  <1> QED BY <1>6 DEF StoreStep, Store!Next

LEMMA WantedDone ==
  ASSUME NEW t \in Threads, Wanted(t)' = Nothing, \A u \in Threads \ {t} : Wanted(u)' = Wanted(u)
  PROVE  [u \in Threads |-> Wanted(u)]' = [[u \in Threads |-> Wanted(u)] EXCEPT ![t] = Nothing]
  OBVIOUS

LEMMA EndIsEnd ==
  ASSUME NEW t \in Threads, Wanted(t) # Nothing, Wanted(t)' = Nothing,
         \/ /\ OwnFiles(fs)' = Store!After(OwnFiles(fs), Wanted(t))
            /\ Reply(t)' = Store!Answer(OwnFiles(fs), Wanted(t))
            /\ [u \in Threads |-> OwnWriting(u)]' = Store!Writers(OwnFiles(fs), Wanted(t), t)
         \/ /\ Wanted(t).op \in Store!MayFail
            /\ OwnFiles(fs)' = OwnFiles(fs) /\ Reply(t)' = Store!Failed
            /\ \A u \in Threads : OwnWriting(u)' = OwnWriting(u),
         \A u \in Threads \ {t} : Wanted(u)' = Wanted(u) /\ Reply(u)' = Reply(u)
  PROVE  StoreStep
  <1>1. [u \in Threads |-> Wanted(u)]' = [[u \in Threads |-> Wanted(u)] EXCEPT ![t] = Nothing]
    BY WantedDone
  <1>2. [u \in Threads |-> Wanted(u)][t] = Wanted(t)
    OBVIOUS
  <1>3. CASE /\ OwnFiles(fs)' = Store!After(OwnFiles(fs), Wanted(t))
             /\ Reply(t)' = Store!Answer(OwnFiles(fs), Wanted(t))
             /\ [u \in Threads |-> OwnWriting(u)]' = Store!Writers(OwnFiles(fs), Wanted(t), t)
    <2>1. [u \in Threads |-> Reply(u)]' =
            [[u \in Threads |-> Reply(u)] EXCEPT ![t] = Store!Answer(OwnFiles(fs), Wanted(t))]
      BY <1>3
    <2>2. Store!End(t)
      BY <1>1, <1>2, <1>3, <2>1 DEF Store!End, Wanted, Reply, OwnFiles, OwnWriting
    <2> QED BY <2>2 DEF StoreStep, Store!Next
  <1>4. CASE /\ Wanted(t).op \in Store!MayFail
             /\ OwnFiles(fs)' = OwnFiles(fs) /\ Reply(t)' = Store!Failed
             /\ \A u \in Threads : OwnWriting(u)' = OwnWriting(u)
    <2>1. [u \in Threads |-> Reply(u)]' = [[u \in Threads |-> Reply(u)] EXCEPT ![t] = Store!Failed]
      BY <1>4
    <2>2. [u \in Threads |-> OwnWriting(u)]' = [u \in Threads |-> OwnWriting(u)]
      BY <1>4
    <2>3. Store!End(t)
      BY <1>1, <1>2, <1>4, <2>1, <2>2 DEF Store!End, Wanted, Reply, OwnFiles, OwnWriting
    <2> QED BY <2>3 DEF StoreStep, Store!Next
  <1> QED BY <1>3, <1>4

LEMMA WriteIsWrite ==
  ASSUME NEW t \in Threads, NEW v \in Contents, Wanted(t) = Nothing, OwnWriting(t) # Nothing,
         OwnFiles(fs)' = [OwnFiles(fs) EXCEPT ![OwnWriting(t)] = v],
         \A u \in Threads : /\ Wanted(u)' = Wanted(u) /\ Reply(u)' = Reply(u)
                            /\ OwnWriting(u)' = OwnWriting(u)
  PROVE  StoreStep
  <1>1. /\ [u \in Threads |-> Wanted(u)]' = [u \in Threads |-> Wanted(u)]
        /\ [u \in Threads |-> Reply(u)]' = [u \in Threads |-> Reply(u)]
        /\ [u \in Threads |-> OwnWriting(u)]' = [u \in Threads |-> OwnWriting(u)]
    OBVIOUS
  <1>2. /\ [u \in Threads |-> Wanted(u)][t] = Wanted(t)
        /\ [u \in Threads |-> OwnWriting(u)][t] = OwnWriting(t)
    OBVIOUS
  <1>3. Store!Write(t)
    BY <1>1, <1>2 DEF Store!Write, Wanted, Reply, OwnWriting, OwnFiles
  <1> QED BY <1>3 DEF StoreStep, Store!Next

LEMMA CloseIsClose ==
  ASSUME NEW t \in Threads, Wanted(t) = Nothing, OwnWriting(t) # Nothing, OwnWriting(t)' = Nothing,
         OwnFiles(fs)' = OwnFiles(fs),
         \A u \in Threads : Wanted(u)' = Wanted(u) /\ Reply(u)' = Reply(u),
         \A u \in Threads \ {t} : OwnWriting(u)' = OwnWriting(u)
  PROVE  StoreStep
  <1>1. /\ [u \in Threads |-> Wanted(u)]' = [u \in Threads |-> Wanted(u)]
        /\ [u \in Threads |-> Reply(u)]' = [u \in Threads |-> Reply(u)]
        /\ [u \in Threads |-> OwnWriting(u)]' = [[u \in Threads |-> OwnWriting(u)] EXCEPT ![t] = Nothing]
    OBVIOUS
  <1>2. /\ [u \in Threads |-> Wanted(u)][t] = Wanted(t)
        /\ [u \in Threads |-> OwnWriting(u)][t] = OwnWriting(t)
    OBVIOUS
  <1>3. Store!Close(t)
    BY <1>1, <1>2 DEF Store!Close, Wanted, Reply, OwnWriting, OwnFiles
  <1> QED BY <1>3 DEF StoreStep, Store!Next

-----------------------------------------------------------------------------
(* The steps.                                                                *)

LEMMA FilesInitInv == Init => FilesInv /\ Store!Init
  <1> SUFFICES ASSUME Init PROVE FilesInv /\ Store!Init
    OBVIOUS
  <1> USE DEF Init
  <1>1. FilesShape
    BY DEF FilesShape, Values
  <1>2. \A t \in Threads : ThreadFits(t)
    BY DEF ThreadFits, CallFits, OwnResolved, ElsewhereResolved
  <1>3. \A p \in Own : fs[p] = Nothing
    <2> SUFFICES ASSUME NEW p \in Own PROVE fs[p] = Nothing
      OBVIOUS
    <2>1. p \in Places /\ p \notin ({"assets"} \X Shipped) \cup ({"under"} \X Local)
      BY PlaceFacts DEF Own
    <2> QED BY <2>1
  <1>4. Store!Init
    BY <1>3 DEF Store!Init
  <1> QED BY <1>1, <1>2, <1>4 DEF FilesInv

\* A thread whose variables a step leaves alone still fits.
LEMMA OthersFit ==
  ASSUME NEW u \in Threads, ThreadFits(u),
         fpc'[u] = fpc[u], call'[u] = call[u], u \in own' <=> u \in own,
         alt_path'[u] = alt_path[u], asset_path'[u] = asset_path[u],
         resolved'[u] = resolved[u], resolved_old'[u] = resolved_old[u],
         fpc[u] # "idle" /\ writing[u] = Nothing => writing'[u] = Nothing
  PROVE  ThreadFits(u)'
  <1>1. CallFits(u)'
    BY DEF ThreadFits, CallFits
  <1>2. OwnResolved(u)'
    BY DEF ThreadFits, OwnResolved
  <1>3. ElsewhereResolved(u)'
    BY DEF ThreadFits, ElsewhereResolved
  <1> QED BY <1>1, <1>2, <1>3 DEF ThreadFits

\* A call begins: in the own directories the store's call with the homes of its
\* paths, elsewhere nothing the store knows.
LEMMA CalledInv ==
  ASSUME FilesInv, NEW t \in Threads, NEW c \in WrapperCalls, IsOwn(c.path) <=> IsOwn(c.to),
         c.op = "create" => writing[t] = Nothing, Called(t, c)
  PROVE  FilesInv' /\ StoreStep
  <1>1. /\ call' = [call EXCEPT ![t] = c]
        /\ own' = IF IsOwn(c.path) THEN own \cup {t} ELSE own \ {t}
    BY DEF Called
  <1>2. /\ fpc[t] = "idle" /\ fpc' = [fpc EXCEPT ![t] = "resolve"]
        /\ returned' = [returned EXCEPT ![t] = Nothing]
        /\ UNCHANGED <<fs, alt_path, asset_path, resolved, resolved_old, writing>>
    BY DEF Called, buffers
  <1>3. FilesShape /\ \A u \in Threads : ThreadFits(u)
    BY DEF FilesInv
  <1>4. fpc'[t] = "resolve" /\ call'[t] = c /\ returned'[t] = Nothing
    BY <1>1, <1>2, <1>3 DEF FilesShape
  <1>5. \A u \in Threads \ {t} :
          /\ fpc'[u] = fpc[u] /\ call'[u] = call[u] /\ returned'[u] = returned[u]
          /\ u \in own' <=> u \in own
    BY <1>1, <1>2, <1>3 DEF FilesShape
  <1>6. FilesShape'
    BY <1>1, <1>2, <1>3 DEF FilesShape
  <1>7. \A u \in Threads \ {t} : ThreadFits(u)'
    BY <1>2, <1>3, <1>5, OthersFit
  <1>8. ThreadFits(t)'
    BY <1>1, <1>2, <1>4 DEF ThreadFits, CallFits, OwnResolved, ElsewhereResolved
  <1>9. OwnFiles(fs)' = OwnFiles(fs)
    BY <1>2 DEF OwnFiles
  <1>10. \A u \in Threads \ {t} : Wanted(u)' = Wanted(u) /\ Reply(u)' = Reply(u)
    BY <1>5 DEF Wanted, Reply
  <1>11. /\ Wanted(t) = Nothing /\ Reply(t)' = Nothing
         /\ c.op = "create" => OwnWriting(t) = Nothing
    BY <1>2, <1>4 DEF Wanted, Reply, OwnWriting
  <1>12. \A u \in Threads : OwnWriting(u)' = OwnWriting(u)
    BY <1>2 DEF OwnWriting
  <1>13. StoreStep
    <2>1. CASE IsOwn(c.path)
      <3> DEFINE h == [c EXCEPT !.path = Home(c.path), !.to = Home(c.to)]
      <3>1. t \in own' /\ Wanted(t)' = h
        BY <1>1, <1>4, <2>1 DEF Wanted
      <3>2. /\ c.op \in {"read", "create", "mkdir", "remove", "rename"}
            /\ c = [op |-> c.op, path |-> c.path, to |-> c.to]
            /\ c.op # "rename" => c.to = c.path
            /\ Home(c.path) \in Own /\ Home(c.to) \in Own
        BY <2>1, CallFacts, PathFacts
      <3>3. c \in [op : Store!Operations, path : Paths, to : Paths]
        BY DEF WrapperCalls, Sys!Operations, Store!Operations
      <3>4. /\ h \in [op : Store!Operations, path : Own, to : Own]
            /\ h.op = c.op /\ h.path = Home(c.path) /\ h.to = Home(c.to)
        BY <3>2, <3>3
      <3> HIDE DEF h
      <3>5. h \in Store!Calls
        BY <3>2, <3>4 DEF Store!Calls
      <3>6. \A g \in Store!Calls :
              Wanted(t)' = g /\ (g.op = "create" => OwnWriting(t) = Nothing) => StoreStep
        BY <1>9, <1>10, <1>11, <1>12, BeginIsBegin
      <3> QED BY <1>11, <3>1, <3>4, <3>5, <3>6
    <2>2. CASE ~IsOwn(c.path)
      <3>1. Wanted(t)' = Nothing
        BY <1>1, <2>2 DEF Wanted
      <3> QED BY <1>9, <1>10, <1>11, <1>12, <3>1, LeaveIsLeave
    <2> QED BY <2>1, <2>2
  <1> QED BY <1>3, <1>6, <1>7, <1>8, <1>13 DEF FilesInv

\* The guest's calls and the paths of AAssetManager_open are calls of wrappers.
LEMMA BeginCalls ==
  ASSUME NEW t, Begin(t) \/ OpenAsset(t)
  PROVE  \E c \in WrapperCalls : /\ IsOwn(c.path) <=> IsOwn(c.to)
                                 /\ c.op = "create" => writing[t] = Nothing
                                 /\ Called(t, c)
  <1>1. CASE Begin(t)
    <2>1. PICK c \in Sys!Calls : /\ c.op = "create" => writing[t] = Nothing
                                 /\ IsOwn(c.path) = IsOwn(c.to)
                                 /\ Called(t, c)
      BY <1>1 DEF Begin
    <2>2. c.path \in GuestPaths /\ c.to \in GuestPaths
      BY DEF Sys!Calls
    <2>3. c.path[1] # "dot" /\ c.to[1] # "dot"
      BY <2>2, FilesAssumption DEF GuestPaths
    <2>4. c \in WrapperCalls
      BY <2>2, <2>3 DEF Sys!Calls, WrapperCalls, Paths
    <2> QED BY <2>1, <2>4
  <1>2. CASE OpenAsset(t)
    <2>1. PICK p \in GuestPaths :
            Called(t, [op |-> "read", path |-> AssetPath(p), to |-> AssetPath(p)])
      BY <1>2 DEF OpenAsset
    <2>2. AssetPath(p) \in Paths
      BY DEF AssetPath, Paths, GuestPaths
    <2> DEFINE c == [op |-> "read", path |-> AssetPath(p), to |-> AssetPath(p)]
    <2>3. c \in WrapperCalls
      BY <2>2 DEF WrapperCalls, Sys!Operations
    <2> QED BY <2>1, <2>3
  <1> QED BY <1>1, <1>2

LEMMA BeginInv == \A t \in Threads : FilesInv /\ (Begin(t) \/ OpenAsset(t)) => FilesInv' /\ StoreStep
  <1> SUFFICES ASSUME NEW t \in Threads, FilesInv, Begin(t) \/ OpenAsset(t)
               PROVE  FilesInv' /\ StoreStep
    OBVIOUS
  <1>1. PICK c \in WrapperCalls : /\ IsOwn(c.path) <=> IsOwn(c.to)
                                  /\ c.op = "create" => writing[t] = Nothing
                                  /\ Called(t, c)
    BY BeginCalls
  <1> QED BY <1>1, CalledInv

\* The path is resolved: nothing the store sees.
LEMMA ResolvePathInv == \A t \in Threads : FilesInv /\ ResolvePath(t) => FilesInv' /\ StoreStep
  <1> SUFFICES ASSUME NEW t \in Threads, FilesInv, ResolvePath(t) PROVE FilesInv' /\ StoreStep
    OBVIOUS
  <1>1. /\ fpc[t] = "resolve" /\ Resolve(t, call[t].path)
        /\ fpc' = [fpc EXCEPT ![t] = IF call[t].op = "rename" THEN "copy" ELSE "system"]
        /\ UNCHANGED <<fs, call, resolved_old, returned, writing, own>>
    BY DEF ResolvePath
  <1>2. FilesShape /\ \A u \in Threads : ThreadFits(u)
    BY DEF FilesInv
  <1>3. /\ call[t] \in WrapperCalls
        /\ call[t].op = "create" => writing[t] = Nothing
        /\ IsOwn(call[t].path) <=> t \in own
        /\ IsOwn(call[t].to) <=> t \in own
    BY <1>1, <1>2 DEF ThreadFits, CallFits
  <1>4. /\ call[t].path \in Paths
        /\ call[t].op # "rename" => call[t].to = call[t].path
    BY <1>3, CallFacts
  <1>5. /\ fpc'[t] = IF call[t].op = "rename" THEN "copy" ELSE "system"
        /\ \A u \in Threads \ {t} : fpc'[u] = fpc[u]
    BY <1>1, <1>2 DEF FilesShape
  <1>6. /\ alt_path' = [u \in Threads |-> alt_path'[u]]
        /\ asset_path' = [u \in Threads |-> asset_path'[u]]
        /\ resolved' = [u \in Threads |-> resolved'[u]]
        /\ \A u \in Threads \ {t} : /\ alt_path'[u] = alt_path[u]
                                    /\ asset_path'[u] = asset_path[u]
                                    /\ resolved'[u] = resolved[u]
        /\ IsOwn(call[t].path) => resolved'[t] = "alt_path" /\ alt_path'[t] = Home(call[t].path)
        /\ ~IsOwn(call[t].path) =>
             /\ resolved'[t] \in {"path", "alt_path", "asset_path"}
             /\ resolved'[t] = "alt_path" => alt_path'[t] \in Outside
             /\ resolved'[t] = "asset_path" => asset_path'[t] \in Outside
    <2>1. PICK path \in Paths : path = call[t].path
      BY <1>4
    <2>2. Resolve(t, path)
      BY <1>1, <2>1
    <2> QED BY <1>2, <2>1, <2>2, ResolveFacts
  <1>7. FilesShape'
    BY <1>1, <1>2, <1>6 DEF FilesShape
  <1>8. \A u \in Threads \ {t} : ThreadFits(u)'
    BY <1>1, <1>2, <1>5, <1>6, OthersFit
  <1>9. CallFits(t)'
    BY <1>1, <1>3, <1>5 DEF CallFits
  <1>10. OwnResolved(t)'
    <2> SUFFICES ASSUME t \in own PROVE OwnResolved(t)'
      BY <1>1 DEF OwnResolved
    <2>1. resolved'[t] = "alt_path" /\ alt_path'[t] = Home(call[t].path) /\ call'[t] = call[t]
      BY <1>1, <1>3, <1>6
    <2>2. CASE call[t].op = "rename"
      BY <1>5, <2>1, <2>2 DEF OwnResolved
    <2>3. CASE call[t].op # "rename"
      <3>1. fpc'[t] = "system" /\ Home(call[t].to) = Home(call[t].path)
        BY <1>4, <1>5, <2>3
      <3> QED BY <2>1, <2>3, <3>1 DEF OwnResolved
    <2> QED BY <2>2, <2>3
  <1>11. ElsewhereResolved(t)'
    BY <1>1, <1>3, <1>4, <1>5, <1>6 DEF ElsewhereResolved
  <1>12. StoreSame
    <2>1. OwnFiles(fs)' = OwnFiles(fs)
      BY <1>1 DEF OwnFiles
    <2>2. \A u \in Threads : fpc'[u] # "idle" <=> fpc[u] # "idle"
      BY <1>1, <1>5
    <2>3. \A u \in Threads : Wanted(u)' = Wanted(u) /\ Reply(u)' = Reply(u)
      BY <1>1, <2>2 DEF Wanted, Reply
    <2>4. \A u \in Threads : OwnWriting(u)' = OwnWriting(u)
      BY <1>1 DEF OwnWriting
    <2> QED BY <2>1, <2>3, <2>4 DEF StoreSame
  <1> QED BY <1>2, <1>7, <1>8, <1>9, <1>10, <1>11, <1>12, SameIsStutter DEF FilesInv, ThreadFits

\* rename keeps the first place and resolves the second.
LEMMA RenameNewInv == \A t \in Threads : FilesInv /\ RenameNew(t) => FilesInv' /\ StoreStep
  <1> SUFFICES ASSUME NEW t \in Threads, FilesInv, RenameNew(t) PROVE FilesInv' /\ StoreStep
    OBVIOUS
  <1>1. /\ fpc[t] = "copy" /\ Resolve(t, call[t].to) /\ fpc' = [fpc EXCEPT ![t] = "system"]
        /\ resolved_old' = [resolved_old EXCEPT ![t] = Pointee(t, call[t].path)]
        /\ UNCHANGED <<fs, call, returned, writing, own>>
    BY DEF RenameNew, Kept
  <1>2. FilesShape /\ \A u \in Threads : ThreadFits(u)
    BY DEF FilesInv
  <1>3. /\ call[t] \in WrapperCalls /\ call[t].op = "rename"
        /\ IsOwn(call[t].path) <=> t \in own
        /\ IsOwn(call[t].to) <=> t \in own
    BY <1>1, <1>2 DEF ThreadFits, CallFits
  <1>4. /\ call[t].path \in Paths /\ call[t].to \in Paths
        /\ call[t].path[1] # "dot"
    BY <1>3, CallFacts
  <1>5. /\ fpc'[t] = "system" /\ resolved_old'[t] = Pointee(t, call[t].path)
        /\ \A u \in Threads \ {t} : fpc'[u] = fpc[u] /\ resolved_old'[u] = resolved_old[u]
    BY <1>1, <1>2 DEF FilesShape
  <1>6. /\ alt_path' = [u \in Threads |-> alt_path'[u]]
        /\ asset_path' = [u \in Threads |-> asset_path'[u]]
        /\ resolved' = [u \in Threads |-> resolved'[u]]
        /\ \A u \in Threads \ {t} : /\ alt_path'[u] = alt_path[u]
                                    /\ asset_path'[u] = asset_path[u]
                                    /\ resolved'[u] = resolved[u]
        /\ IsOwn(call[t].to) => resolved'[t] = "alt_path" /\ alt_path'[t] = Home(call[t].to)
        /\ ~IsOwn(call[t].to) =>
             /\ resolved'[t] \in {"path", "alt_path", "asset_path"}
             /\ resolved'[t] = "alt_path" => alt_path'[t] \in Outside
             /\ resolved'[t] = "asset_path" => asset_path'[t] \in Outside
    <2>1. PICK path \in Paths : path = call[t].to
      BY <1>4
    <2>2. Resolve(t, path)
      BY <1>1, <2>1
    <2> QED BY <1>2, <2>1, <2>2, ResolveFacts
  <1>7. t \in own => Pointee(t, call[t].path) = Home(call[t].path)
    BY <1>1, <1>2 DEF ThreadFits, OwnResolved, Pointee, BufferOf
  <1>8. t \notin own => Pointee(t, call[t].path) \in Outside
    <2> SUFFICES ASSUME t \notin own PROVE Pointee(t, call[t].path) \in Outside
      OBVIOUS
    <2>1. /\ resolved[t] \in {"path", "alt_path", "asset_path"}
          /\ resolved[t] = "alt_path" => alt_path[t] \in Outside
          /\ resolved[t] = "asset_path" => asset_path[t] \in Outside
      BY <1>1, <1>2 DEF ThreadFits, ElsewhereResolved
    <2>2. Itself(call[t].path) \in Outside
      BY <1>3, <1>4, PathFacts
    <2> QED BY <2>1, <2>2 DEF Pointee, BufferOf
  <1>9. FilesShape'
    BY <1>1, <1>2, <1>6 DEF FilesShape
  <1>10. \A u \in Threads \ {t} : ThreadFits(u)'
    BY <1>1, <1>2, <1>5, <1>6, OthersFit
  <1>11. CallFits(t)'
    BY <1>1, <1>3, <1>5 DEF CallFits
  <1>12. OwnResolved(t)'
    BY <1>1, <1>3, <1>5, <1>6, <1>7 DEF OwnResolved
  <1>13. ElsewhereResolved(t)'
    BY <1>1, <1>3, <1>5, <1>6, <1>8 DEF ElsewhereResolved
  <1>14. StoreSame
    <2>1. OwnFiles(fs)' = OwnFiles(fs)
      BY <1>1 DEF OwnFiles
    <2>2. \A u \in Threads : fpc'[u] # "idle" <=> fpc[u] # "idle"
      BY <1>1, <1>5
    <2>3. \A u \in Threads : Wanted(u)' = Wanted(u) /\ Reply(u)' = Reply(u)
      BY <1>1, <2>2 DEF Wanted, Reply
    <2>4. \A u \in Threads : OwnWriting(u)' = OwnWriting(u)
      BY <1>1 DEF OwnWriting
    <2> QED BY <2>1, <2>3, <2>4 DEF StoreSame
  <1> QED BY <1>2, <1>9, <1>10, <1>11, <1>12, <1>13, <1>14, SameIsStutter DEF FilesInv, ThreadFits

\* A system call changes no file but those it is passed.
LEMMA SystemFiles ==
  ASSUME FilesInv, NEW t \in Threads, System(t)
  PROVE  /\ fs' \in [Places -> Values]
         /\ IsCall(Passed(t)) /\ writing' \in [Threads -> Places \cup {Nothing}]
         /\ \A u \in Threads \ {t} : writing[u] = Nothing => writing'[u] = Nothing
         /\ \A p \in Places \ {Passed(t).path, Passed(t).to} : fs'[p] = fs[p]
  <1>1. fpc[t] = "system" /\ fs \in [Places -> Values]
    BY DEF System, FilesInv, FilesShape
  <1>2. Passed(t).path \in Places /\ Passed(t).to \in Places
    BY <1>1, PassedFacts
  <1>3. IsCall(Passed(t))
    <2>1. call[t] \in WrapperCalls
      BY <1>1 DEF FilesInv, ThreadFits, CallFits
    <2>2. Passed(t).op = call[t].op
      BY <1>1, PassedFacts
    <2> QED BY <2>1, <2>2, CallFacts DEF IsCall
  <1>4. CASE fs' = Sys!After(fs, Passed(t)) /\ writing' = Sys!Writers(fs, Passed(t), t)
    <2>1. FilesShape
      BY DEF FilesInv
    <2>2. /\ writing' \in [Threads -> Places \cup {Nothing}]
          /\ \A u \in Threads \ {t} : writing[u] = Nothing => writing'[u] = Nothing
      BY <1>2, <1>4, <2>1, WritersFacts
    <2> QED BY <1>1, <1>2, <1>3, <1>4, <2>2, AfterFacts
  <1>5. CASE fs' = fs /\ writing' = writing
    BY <1>1, <1>3, <1>5 DEF FilesInv, FilesShape
  <1> QED BY <1>4, <1>5 DEF System

LEMMA SystemInv == \A t \in Threads : FilesInv /\ System(t) => FilesInv' /\ StoreStep
  <1> SUFFICES ASSUME NEW t \in Threads, FilesInv, System(t) PROVE FilesInv' /\ StoreStep
    OBVIOUS
  <1>1. /\ fpc[t] = "system" /\ fpc' = [fpc EXCEPT ![t] = "idle"]
        /\ call' = [call EXCEPT ![t] = Nothing]
        /\ resolved' = [resolved EXCEPT ![t] = Nothing]
        /\ resolved_old' = [resolved_old EXCEPT ![t] = Nothing]
        /\ UNCHANGED <<alt_path, asset_path, own>>
    BY DEF System, buffers
  <1>2. \/ /\ fs' = Sys!After(fs, Passed(t))
           /\ writing' = Sys!Writers(fs, Passed(t), t)
           /\ returned' = [returned EXCEPT ![t] = Sys!Answer(fs, Passed(t))]
        \/ /\ call[t].op \in Sys!MayFail
           /\ returned' = [returned EXCEPT ![t] = Sys!Failed]
           /\ fs' = fs /\ writing' = writing
    BY DEF System
  <1>3. FilesShape /\ \A u \in Threads : ThreadFits(u)
    BY DEF FilesInv
  <1>4. /\ fs' \in [Places -> Values] /\ writing' \in [Threads -> Places \cup {Nothing}]
        /\ IsCall(Passed(t))
        /\ \A u \in Threads \ {t} : writing[u] = Nothing => writing'[u] = Nothing
        /\ \A p \in Places \ {Passed(t).path, Passed(t).to} : fs'[p] = fs[p]
    BY SystemFiles
  <1>5. /\ returned' = [u \in Threads |-> returned'[u]]
        /\ \A u \in Threads \ {t} : returned'[u] = returned[u]
    BY <1>2, <1>3 DEF FilesShape
  <1>6. /\ fpc'[t] = "idle"
        /\ \A u \in Threads \ {t} : /\ fpc'[u] = fpc[u] /\ call'[u] = call[u]
                                    /\ resolved'[u] = resolved[u]
                                    /\ resolved_old'[u] = resolved_old[u]
    BY <1>1, <1>3 DEF FilesShape
  <1>7. FilesShape'
    BY <1>1, <1>3, <1>4, <1>5 DEF FilesShape
  <1>8. \A u \in Threads \ {t} : ThreadFits(u)'
    BY <1>1, <1>3, <1>4, <1>6, OthersFit
  <1>9. ThreadFits(t)'
    BY <1>6 DEF ThreadFits, CallFits, OwnResolved, ElsewhereResolved
  <1>10. \A u \in Threads \ {t} : Wanted(u)' = Wanted(u) /\ Reply(u)' = Reply(u)
    BY <1>1, <1>5, <1>6 DEF Wanted, Reply
  <1>11. Wanted(t)' = Nothing
    BY <1>6 DEF Wanted
  <1>12. StoreStep
    <2>1. CASE t \in own
      <3>1. /\ call[t] \in WrapperCalls /\ call[t].path \in Paths /\ call[t].to \in Paths
            /\ IsOwn(call[t].path) /\ IsOwn(call[t].to)
        BY <1>1, <1>3, <2>1, CallFacts DEF ThreadFits, CallFits
      <3>2. Home(call[t].path) \in Own /\ Home(call[t].to) \in Own
        BY <3>1, PathFacts
      <3>3. call[t] \in [op : Sys!Operations, path : Paths, to : Paths]
        BY <3>1 DEF WrapperCalls
      <3>4. Wanted(t) = [call[t] EXCEPT !.path = Home(call[t].path), !.to = Home(call[t].to)]
        BY <1>1, <2>1 DEF Wanted
      <3>5. /\ Wanted(t) \in [op : Sys!Operations, path : Own, to : Own]
            /\ Wanted(t).op = call[t].op
            /\ Wanted(t).path = Home(call[t].path) /\ Wanted(t).to = Home(call[t].to)
        BY <3>2, <3>3, <3>4
      <3>6. Wanted(t) # Nothing
        <4>1. Wanted(t) \in [op : Sys!Operations, path : Places \cup Paths, to : Places \cup Paths]
          BY <3>5, PlaceFacts
        <4> QED BY <4>1, FilesAssumption
      <3>7. Passed(t) = Wanted(t)
        <4>1. /\ Passed(t) = [op |-> call[t].op, path |-> Passed(t).path, to |-> Passed(t).to]
              /\ Passed(t).path = Home(call[t].path) /\ Passed(t).to = Home(call[t].to)
          BY <1>1, <2>1, PassedFacts
        <4>2. Wanted(t) = [op |-> Wanted(t).op, path |-> Wanted(t).path, to |-> Wanted(t).to]
          BY <3>5
        <4> QED BY <3>5, <4>1, <4>2
      <3>8. IsCall(Wanted(t)) /\ Wanted(t).path \in Own /\ Wanted(t).to \in Own
        BY <3>1, <3>5, CallFacts DEF IsCall
      <3>9. /\ Store!Answer(OwnFiles(fs), Wanted(t)) = Sys!Answer(fs, Passed(t))
            /\ Store!After(OwnFiles(fs), Wanted(t)) = OwnFiles(Sys!After(fs, Passed(t)))
        BY <1>3, <3>7, <3>8, OwnCall DEF FilesShape
      <3>10. Reply(t)' = returned'[t]
        BY <1>1, <2>1 DEF Reply
      <3>11. CASE /\ fs' = Sys!After(fs, Passed(t))
                  /\ writing' = Sys!Writers(fs, Passed(t), t)
                  /\ returned' = [returned EXCEPT ![t] = Sys!Answer(fs, Passed(t))]
        <4>1. returned'[t] = Sys!Answer(fs, Passed(t))
          BY <1>3, <3>11 DEF FilesShape
        <4>2. OwnFiles(fs)' = OwnFiles(Sys!After(fs, Passed(t)))
          BY <3>11 DEF OwnFiles
        <4>3. [u \in Threads |-> OwnWriting(u)]' = Store!Writers(OwnFiles(fs), Wanted(t), t)
          <5>1. fs \in [Places -> Values] /\ writing \in [Threads -> Places \cup {Nothing}]
            BY <1>3 DEF FilesShape
          <5>2. \A u \in Threads :
                  Store!Where(OwnFiles(fs), Wanted(t), OwnWriting(u)) = OwnOr(Sys!Where(fs, Passed(t), writing[u]))
            BY <3>7, <3>8, <5>1, OwnWhere DEF OwnWriting, OwnOr
          <5>3. Store!Done = Sys!Done
            BY DEF Store!Done, Sys!Done
          <5>4. \A u \in Threads :
                  OwnOr(writing'[u]) =
                    IF u = t /\ Wanted(t).op = "create" /\ Store!Answer(OwnFiles(fs), Wanted(t)) = Store!Done
                    THEN Wanted(t).path ELSE Store!Where(OwnFiles(fs), Wanted(t), OwnWriting(u))
            BY <3>7, <3>8, <3>9, <3>11, <5>2, <5>3 DEF Sys!Writers, OwnOr
          <5>5. \A u \in Threads : OwnWriting(u)' = OwnOr(writing'[u])
            BY DEF OwnWriting, OwnOr
          <5>6. [u \in Threads |-> OwnWriting(u)]' = [u \in Threads |-> OwnOr(writing'[u])]
            BY <5>5
          <5>7. Store!Writers(OwnFiles(fs), Wanted(t), t) = [u \in Threads |-> OwnOr(writing'[u])]
            BY <5>4 DEF Store!Writers, OwnWriting, OwnFiles
          <5> QED BY <5>6, <5>7
        <4> QED BY <1>10, <1>11, <3>6, <3>9, <3>10, <4>1, <4>2, <4>3, EndIsEnd
      <3>12. CASE /\ call[t].op \in Sys!MayFail
                  /\ returned' = [returned EXCEPT ![t] = Sys!Failed]
                  /\ fs' = fs /\ writing' = writing
        <4>1. returned'[t] = Store!Failed
          BY <1>3, <3>12 DEF FilesShape, Sys!Failed, Store!Failed
        <4>2. OwnFiles(fs)' = OwnFiles(fs)
          BY <3>12 DEF OwnFiles
        <4>3. \A u \in Threads : OwnWriting(u)' = OwnWriting(u)
          BY <3>12 DEF OwnWriting
        <4>4. Wanted(t).op \in Store!MayFail
          BY <3>5, <3>12 DEF Sys!MayFail, Store!MayFail, Sys!Operations, Store!Operations
        <4> QED BY <1>10, <1>11, <3>6, <3>10, <4>1, <4>2, <4>3, <4>4, EndIsEnd
      <3> QED BY <1>2, <3>11, <3>12
    <2>2. CASE t \notin own
      <3>1. /\ Passed(t).path \in Places /\ Passed(t).op = call[t].op
            /\ call[t].op # "read" => Passed(t).path \in Outside /\ Passed(t).to \in Outside
            /\ call[t].op = "create" => writing[t] = Nothing
        BY <1>1, <1>3, <2>2, PassedFacts DEF ThreadFits, CallFits
      <3>2. (\A p \in Own : fs'[p] = fs[p]) /\ \A u \in Threads : OwnOr(writing'[u]) = OwnOr(writing[u])
        <4>1. CASE fs' = fs /\ writing' = writing
          BY <4>1
        <4>2. CASE call[t].op = "read" /\ fs' = Sys!After(fs, Passed(t)) /\ writing' = Sys!Writers(fs, Passed(t), t)
          <5>1. fs[Passed(t).path] \in Values
            BY <1>3, <3>1 DEF FilesShape
          <5>2. fs' = fs /\ \A q : Sys!Where(fs, Passed(t), q) = q
            BY <3>1, <4>2, <5>1, ReadFacts
          <5> QED BY <3>1, <4>2, <5>2 DEF Sys!Writers
        <4>3. CASE call[t].op # "read" /\ writing' = Sys!Writers(fs, Passed(t), t)
          <5>1. \A p \in Own : fs'[p] = fs[p]
            BY <1>4, <3>1, <4>3, PlaceFacts
          <5>2. \A u \in Threads : OwnOr(Sys!Where(fs, Passed(t), writing[u])) = OwnOr(writing[u])
            BY <3>1, <4>3, OutsideWhere
          <5>3. Passed(t).path \notin Own /\ Nothing \notin Own
            BY <3>1, <4>3, PlaceFacts
          <5> QED BY <3>1, <4>3, <5>1, <5>2, <5>3 DEF Sys!Writers, OwnOr
        <4> QED BY <1>2, <4>1, <4>2, <4>3
      <3>3. OwnFiles(fs)' = OwnFiles(fs)
        BY <3>2 DEF OwnFiles
      <3>4. Wanted(t)' = Wanted(t) /\ Reply(t)' = Reply(t)
        BY <1>1, <2>2 DEF Wanted, Reply
      <3>5. \A u \in Threads : OwnWriting(u)' = OwnWriting(u)
        BY <3>2 DEF OwnWriting, OwnOr
      <3> QED BY <1>10, <3>3, <3>4, <3>5, SameIsStutter DEF StoreSame
    <2> QED BY <2>1, <2>2
  <1> QED BY <1>3, <1>7, <1>8, <1>9, <1>12 DEF FilesInv

\* Contents come into a file that is open: the store's if it is there now.
LEMMA WriteOpenInv == \A t \in Threads : FilesInv /\ WriteOpen(t) => FilesInv' /\ StoreStep
  <1> SUFFICES ASSUME NEW t \in Threads, FilesInv, WriteOpen(t) PROVE FilesInv' /\ StoreStep
    OBVIOUS
  <1>1. /\ fpc[t] = "idle" /\ writing[t] # Nothing
        /\ UNCHANGED <<alt_path, asset_path, fpc, call, resolved, resolved_old, returned, writing, own>>
    BY DEF WriteOpen, buffers
  <1>2. PICK v \in Contents : fs' = [fs EXCEPT ![writing[t]] = v]
    BY DEF WriteOpen
  <1>3. FilesShape /\ \A u \in Threads : ThreadFits(u)
    BY DEF FilesInv
  <1>4. fs \in [Places -> Values] /\ writing[t] \in Places
    BY <1>1, <1>3 DEF FilesShape
  <1>5. FilesShape'
    BY <1>1, <1>2, <1>3 DEF FilesShape, Values
  <1>6. \A u \in Threads : ThreadFits(u)'
    BY <1>1, <1>3, OthersFit
  <1>7. \A u \in Threads : /\ Wanted(u)' = Wanted(u) /\ Reply(u)' = Reply(u)
                           /\ OwnWriting(u)' = OwnWriting(u)
    BY <1>1 DEF Wanted, Reply, OwnWriting
  <1>8. Wanted(t) = Nothing
    BY <1>1 DEF Wanted
  <1>9. CASE writing[t] \in Own
    <2>1. OwnWriting(t) = writing[t] /\ OwnWriting(t) # Nothing
      BY <1>1, <1>9 DEF OwnWriting
    <2>2. OwnFiles([fs EXCEPT ![writing[t]] = v]) = [OwnFiles(fs) EXCEPT ![writing[t]] = v]
      BY <1>4, <1>9, OwnExcept
    <2>3. OwnFiles(fs)' = [OwnFiles(fs) EXCEPT ![OwnWriting(t)] = v]
      BY <1>2, <2>1, <2>2 DEF OwnFiles
    <2> QED BY <1>5, <1>3, <1>6, <1>7, <1>8, <2>1, <2>3, WriteIsWrite DEF FilesInv
  <1>10. CASE writing[t] \notin Own
    <2>1. \A p \in Own : fs'[p] = fs[p]
      BY <1>2, <1>4, <1>10, PlaceFacts
    <2>2. OwnFiles(fs)' = OwnFiles(fs)
      BY <2>1 DEF OwnFiles
    <2> QED BY <1>5, <1>6, <1>7, <2>2, SameIsStutter DEF FilesInv, StoreSame
  <1> QED BY <1>9, <1>10

\* A file that is open is closed.
LEMMA CloseOpenInv == \A t \in Threads : FilesInv /\ CloseOpen(t) => FilesInv' /\ StoreStep
  <1> SUFFICES ASSUME NEW t \in Threads, FilesInv, CloseOpen(t) PROVE FilesInv' /\ StoreStep
    OBVIOUS
  <1>1. /\ fpc[t] = "idle" /\ writing' = [writing EXCEPT ![t] = Nothing]
        /\ UNCHANGED <<fs, alt_path, asset_path, fpc, call, resolved, resolved_old, returned, own>>
    BY DEF CloseOpen, buffers
  <1>2. FilesShape /\ \A u \in Threads : ThreadFits(u)
    BY DEF FilesInv
  <1>3. writing'[t] = Nothing /\ \A u \in Threads \ {t} : writing'[u] = writing[u]
    BY <1>1, <1>2 DEF FilesShape
  <1>4. FilesShape'
    BY <1>1, <1>2 DEF FilesShape
  <1>5. \A u \in Threads : ThreadFits(u)'
    BY <1>1, <1>2, <1>3, OthersFit
  <1>6. \A u \in Threads : Wanted(u)' = Wanted(u) /\ Reply(u)' = Reply(u)
    BY <1>1 DEF Wanted, Reply
  <1>7. OwnFiles(fs)' = OwnFiles(fs) /\ Wanted(t) = Nothing
    BY <1>1 DEF OwnFiles, Wanted
  <1>8. OwnWriting(t)' = Nothing /\ \A u \in Threads \ {t} : OwnWriting(u)' = OwnWriting(u)
    BY <1>3, PlaceFacts DEF OwnWriting
  <1>9. CASE OwnWriting(t) # Nothing
    BY <1>4, <1>5, <1>6, <1>7, <1>8, <1>9, CloseIsClose DEF FilesInv
  <1>10. CASE OwnWriting(t) = Nothing
    BY <1>4, <1>5, <1>6, <1>7, <1>8, <1>10, SameIsStutter DEF FilesInv, StoreSame
  <1> QED BY <1>9, <1>10

LEMMA FileInv == \A t \in Threads : FilesInv /\ File(t) => FilesInv' /\ StoreStep
  BY BeginInv, ResolvePathInv, RenameNewInv, SystemInv, WriteOpenInv, CloseOpenInv DEF File

\* Steps that leave the files and the calls alone.
LEMMA FilesFrame ==
  FilesInv /\ UNCHANGED <<fs, buffers, fpc, call, resolved, resolved_old, returned, writing, own>>
    => FilesInv' /\ StoreStep
  <1> SUFFICES ASSUME FilesInv,
                      UNCHANGED <<fs, buffers, fpc, call, resolved, resolved_old, returned, writing, own>>
               PROVE  FilesInv' /\ StoreStep
    OBVIOUS
  <1>1. UNCHANGED <<fs, alt_path, asset_path, fpc, call, resolved, resolved_old, returned, writing, own>>
    BY DEF buffers
  <1>2. FilesShape'
    BY <1>1 DEF FilesInv, FilesShape
  <1>3. \A u \in Threads : ThreadFits(u)'
    BY <1>1, OthersFit DEF FilesInv
  <1>4. StoreSame
    <2>1. OwnFiles(fs)' = OwnFiles(fs)
      BY <1>1 DEF OwnFiles
    <2>2. \A u \in Threads : Wanted(u)' = Wanted(u) /\ Reply(u)' = Reply(u)
      BY <1>1 DEF Wanted, Reply
    <2>3. \A u \in Threads : OwnWriting(u)' = OwnWriting(u)
      BY <1>1 DEF OwnWriting
    <2> QED BY <2>1, <2>2, <2>3 DEF StoreSame
  <1> QED BY <1>2, <1>3, <1>4, SameIsStutter DEF FilesInv

AssetsKept ==
  \A t \in Threads : t \in own /\ fpc[t] = "system" /\ fpc'[t] = "idle"
    => \A n \in Names : fs'[<<"assets", n>>] = fs[<<"assets", n>>]

\* A call in the own directories ends with its system call, which reaches its
\* homes.
LEMMA FileKeepsAssets == \A u \in Threads : FilesInv /\ File(u) => AssetsKept
  <1> SUFFICES ASSUME NEW u \in Threads, FilesInv, File(u),
                      NEW t \in Threads, t \in own, fpc[t] = "system", fpc'[t] = "idle",
                      NEW n \in Names
               PROVE  fs'[<<"assets", n>>] = fs[<<"assets", n>>]
    BY DEF AssetsKept
  <1>1. fpc \in [Threads -> {"idle", "resolve", "copy", "system"}]
    BY DEF FilesInv, FilesShape
  <1>2. \/ System(u) \/ fpc' = fpc
        \/ fpc' = [fpc EXCEPT ![u] = "resolve"]
        \/ fpc' = [fpc EXCEPT ![u] = IF call[u].op = "rename" THEN "copy" ELSE "system"]
        \/ fpc' = [fpc EXCEPT ![u] = "system"]
    BY DEF File, Begin, OpenAsset, Called, ResolvePath, RenameNew, WriteOpen, CloseOpen
  <1>3. System(t)
    BY <1>1, <1>2 DEF System
  <1>4. \A p \in Places \ {Passed(t).path, Passed(t).to} : fs'[p] = fs[p]
    BY <1>3, SystemFiles
  <1>5. CallFits(t) /\ call[t] \in WrapperCalls
    BY DEF FilesInv, ThreadFits, CallFits
  <1>6. Passed(t).path \in Own /\ Passed(t).to \in Own
    BY <1>5, PassedFacts, CallFacts, PathFacts DEF CallFits
  <1>7. <<"assets", n>> \in Places /\ <<"assets", n>> \notin Own
    BY DEF Places, Own
  <1> QED BY <1>4, <1>6, <1>7

-----------------------------------------------------------------------------
(* Opening a file.                                                           *)

Reading(t) == fpc[t] = "system" /\ call[t].op = "read" /\ t \notin own /\ t \notin disturbed

PlaceOf(t) == Pointee(t, call[t].path)

\* What an undisturbed opening outside the own directories has resolved its path
\* to is the place the path stands for, unless nothing is at either, and has its
\* name.
ReadFits(t) ==
  Reading(t) => /\ PlaceOf(t) \in Places /\ PlaceOf(t)[2] = call[t].path[2]
                /\ \/ PlaceOf(t) = Meant(call[t].path)
                   \/ fs[PlaceOf(t)] = Nothing /\ fs[Meant(call[t].path)] = Nothing

OpenInv == FilesInv /\ \A t \in Threads : ReadFits(t)

\* The places a path may stand for, and where it was found.
LEMMA MeantFacts ==
  ASSUME NEW path \in Paths, ~IsOwn(path)
  PROVE  LET places == {Itself(path), <<"under", path[2]>>, <<"assets", path[2]>>}
         IN places \subseteq Places /\ Meant(path) \in places /\ \A p \in places : p[2] = path[2]
  <1>1. path[2] \in Names /\ Itself(path) \in Places /\ Itself(path)[2] = path[2]
    BY PathFacts
  <1> QED BY <1>1 DEF Meant, Places

\* A path that is not the guest's own resolves to what it stands for.
LEMMA ResolveFinds ==
  ASSUME FilesShape, NEW t \in Threads, NEW path \in Paths, ~IsOwn(path),
         Resolve(t, path), fs' = fs
  PROVE  LET place == Pointee(t, path)' IN
           /\ place \in Places /\ place[2] = path[2]
           /\ place = Meant(path) \/ (fs[place] = Nothing /\ fs[Meant(path)] = Nothing)
  <1> DEFINE self == Itself(path)
             below == <<"under", path[2]>>
             asset == <<"assets", path[2]>>
  <1>1. /\ self \in Places /\ below \in Places /\ asset \in Places
        /\ self[2] = path[2] /\ below[2] = path[2] /\ asset[2] = path[2]
    BY MeantFacts
  <1>2. CASE Exists(self)
    <2>1. resolved' = [resolved EXCEPT ![t] = "path"]
      BY <1>2 DEF Resolve, Redirected
    <2>2. Pointee(t, path)' = self
      BY <2>1 DEF Pointee, FilesShape
    <2>3. Meant(path) = self
      BY <1>2 DEF Meant
    <2> QED BY <1>1, <2>2, <2>3
  <1>3. CASE ~Exists(self) /\ FoundBelow(path)
    <2>1. /\ alt_path' = [alt_path EXCEPT ![t] = below]
          /\ resolved' = [resolved EXCEPT ![t] = "alt_path"]
      BY <1>3 DEF Resolve, Redirected, FoundBelow, BufferOf
    <2>2. Pointee(t, path)' = below
      BY <2>1 DEF Pointee, FilesShape, BufferOf
    <2>3. Meant(path) = below
      BY <1>3 DEF Meant, FoundBelow
    <2> QED BY <1>1, <2>2, <2>3
  <1>4. CASE ~Exists(self) /\ ~FoundBelow(path)
    <2>1. /\ asset_path' = [asset_path EXCEPT ![t] = asset]
          /\ resolved' = [resolved EXCEPT ![t] = IF Exists(asset) THEN "asset_path" ELSE "path"]
      BY <1>4 DEF Resolve, Redirected, BufferOf
    <2>2. Meant(path) = asset
      BY <1>4 DEF Meant, FoundBelow
    <2>3. CASE Exists(asset)
      <3>1. Pointee(t, path)' = asset
        BY <2>1, <2>3 DEF Pointee, FilesShape, BufferOf
      <3> QED BY <1>1, <2>2, <3>1
    <2>4. CASE ~Exists(asset)
      <3>1. Pointee(t, path)' = self
        BY <2>1, <2>4 DEF Pointee, FilesShape
      <3>2. fs[self] = Nothing /\ fs[asset] = Nothing
        BY <1>4, <2>4 DEF Exists
      <3> QED BY <1>1, <2>2, <3>1, <3>2
    <2> QED BY <2>3, <2>4
  <1> QED BY <1>2, <1>3, <1>4

\* A step that makes or removes no file of a reader's name and leaves its own
\* state alone.
LEMMA ReaderLeftAlone ==
  ASSUME FilesInv, NEW t \in Threads, ReadFits(t), Reading(t)' => Reading(t),
         call'[t] = call[t], resolved'[t] = resolved[t],
         alt_path'[t] = alt_path[t], asset_path'[t] = asset_path[t],
         Reading(t)' => \A p \in Places : p[2] = call[t].path[2] => (fs'[p] = Nothing <=> fs[p] = Nothing)
  PROVE  ReadFits(t)'
  <1> SUFFICES ASSUME Reading(t)'
               PROVE  /\ PlaceOf(t)' \in Places /\ PlaceOf(t)'[2] = call'[t].path[2]
                      /\ \/ PlaceOf(t)' = Meant(call[t].path)'
                         \/ fs'[PlaceOf(t)'] = Nothing /\ fs'[Meant(call[t].path)'] = Nothing
    BY DEF ReadFits
  <1> DEFINE path == call[t].path
  <1>1. Reading(t) /\ path \in Paths /\ ~IsOwn(path)
    <2>1. Reading(t) /\ CallFits(t)
      BY DEF FilesInv, ThreadFits
    <2> QED BY <2>1, CallFacts DEF Reading, CallFits
  <1>2. /\ PlaceOf(t) \in Places /\ PlaceOf(t)[2] = path[2]
        /\ PlaceOf(t) = Meant(path) \/ (fs[PlaceOf(t)] = Nothing /\ fs[Meant(path)] = Nothing)
    BY <1>1 DEF ReadFits
  <1>3. PlaceOf(t)' = PlaceOf(t)
    BY DEF PlaceOf, Pointee, BufferOf
  <1>4. \A p \in Places : p[2] = path[2] => (fs'[p] = Nothing <=> fs[p] = Nothing)
    OBVIOUS
  <1>5. /\ Meant(path) \in Places /\ Meant(path)[2] = path[2]
        /\ fs'[Itself(path)] = Nothing <=> fs[Itself(path)] = Nothing
        /\ fs'[<<"under", path[2]>>] = Nothing <=> fs[<<"under", path[2]>>] = Nothing
    BY <1>1, <1>4, MeantFacts
  <1>6. Meant(path)' = Meant(path)
    BY <1>5 DEF Meant, Exists
  <1>7. /\ fs'[PlaceOf(t)] = Nothing <=> fs[PlaceOf(t)] = Nothing
        /\ fs'[Meant(path)] = Nothing <=> fs[Meant(path)] = Nothing
    BY <1>2, <1>4, <1>5
  <1> QED BY <1>2, <1>3, <1>6, <1>7

LEMMA OpenInit == Init => OpenInv
  BY FilesInitInv DEF OpenInv, ReadFits, Reading, Init

LEMMA OpenBegin == \A t \in Threads : OpenInv /\ (Begin(t) \/ OpenAsset(t)) => OpenInv'
  <1> SUFFICES ASSUME NEW t \in Threads, OpenInv, Begin(t) \/ OpenAsset(t),
                      NEW u \in Threads
               PROVE  ReadFits(u)'
    BY BeginInv DEF OpenInv
  <1>1. /\ fpc[t] = "idle" /\ fpc' = [fpc EXCEPT ![t] = "resolve"]
        /\ \E c : call' = [call EXCEPT ![t] = c]
        /\ \A s \in Threads \ {t} : s \in own' <=> s \in own
        /\ disturbed' = disturbed \ {t}
        /\ UNCHANGED <<fs, alt_path, asset_path, resolved>>
    <2>1. PICK c : Called(t, c)
      BY BeginCalls
    <2> QED BY <2>1 DEF Called, buffers
  <1>2. FilesInv /\ FilesShape /\ ReadFits(u)
    BY DEF OpenInv, FilesInv
  <1>3. CASE u = t
    BY <1>1, <1>2, <1>3 DEF ReadFits, Reading, FilesShape
  <1>4. CASE u # t
    <2>1. fpc'[u] = fpc[u] /\ call'[u] = call[u]
      BY <1>1, <1>2, <1>4 DEF FilesShape
    <2>2. Reading(u)' => Reading(u)
      BY <1>1, <1>4, <2>1 DEF Reading
    <2> QED BY <1>1, <1>2, <2>1, <2>2, ReaderLeftAlone
  <1> QED BY <1>3, <1>4

LEMMA OpenResolvePath == \A t \in Threads : OpenInv /\ ResolvePath(t) => OpenInv'
  <1> SUFFICES ASSUME NEW t \in Threads, OpenInv, ResolvePath(t),
                      NEW u \in Threads
               PROVE  ReadFits(u)'
    BY ResolvePathInv DEF OpenInv
  <1>1. /\ fpc[t] = "resolve" /\ Resolve(t, call[t].path)
        /\ fpc' = [fpc EXCEPT ![t] = IF call[t].op = "rename" THEN "copy" ELSE "system"]
        /\ UNCHANGED <<fs, call, own, disturbed>>
    BY DEF ResolvePath
  <1>2. FilesInv /\ FilesShape /\ ReadFits(u) /\ CallFits(t)
    BY DEF OpenInv, FilesInv, ThreadFits
  <1>3. call[t] \in WrapperCalls /\ call[t].path \in Paths /\ (IsOwn(call[t].path) <=> t \in own)
    BY <1>1, <1>2, CallFacts DEF CallFits
  <1>4. CASE u = t
    <2> SUFFICES ASSUME Reading(t)' PROVE ReadFits(t)'
      BY <1>4 DEF ReadFits
    <2>1. ~IsOwn(call[t].path)
      BY <1>1, <1>3 DEF Reading
    <2>2. PICK path \in Paths : path = call[t].path
      BY <1>3
    <2>3. ~IsOwn(path) /\ Resolve(t, path)
      BY <1>1, <2>1, <2>2
    <2>4. /\ Pointee(t, path)' \in Places /\ Pointee(t, path)'[2] = path[2]
          /\ \/ Pointee(t, path)' = Meant(path)
             \/ fs[Pointee(t, path)'] = Nothing /\ fs[Meant(path)] = Nothing
      BY <1>1, <1>2, <2>3, ResolveFinds
    <2>5. PlaceOf(t)' = Pointee(t, path)' /\ call'[t].path = path /\ Meant(path)' = Meant(path)
      BY <1>1, <2>2 DEF PlaceOf, Pointee, Meant, Exists
    <2>6. \/ PlaceOf(t)' = Meant(call[t].path)'
          \/ fs'[PlaceOf(t)'] = Nothing /\ fs'[Meant(call[t].path)'] = Nothing
      BY <1>1, <2>2, <2>4, <2>5
    <2> QED BY <2>4, <2>5, <2>6 DEF ReadFits
  <1>5. CASE u # t
    <2>1. fpc'[u] = fpc[u]
      BY <1>1, <1>2, <1>5 DEF FilesShape
    <2>2. resolved'[u] = resolved[u] /\ alt_path'[u] = alt_path[u] /\ asset_path'[u] = asset_path[u]
      <3>1. PICK path \in Paths : path = call[t].path
        BY <1>3
      <3>2. Resolve(t, path)
        BY <1>1, <3>1
      <3> QED BY <1>2, <1>5, <3>2, ResolveFacts
    <2>3. Reading(u)' => Reading(u)
      BY <1>1, <2>1 DEF Reading
    <2> QED BY <1>1, <1>2, <2>2, <2>3, ReaderLeftAlone
  <1> QED BY <1>4, <1>5

LEMMA OpenRenameNew == \A t \in Threads : OpenInv /\ RenameNew(t) => OpenInv'
  <1> SUFFICES ASSUME NEW t \in Threads, OpenInv, RenameNew(t),
                      NEW u \in Threads
               PROVE  ReadFits(u)'
    BY RenameNewInv DEF OpenInv
  <1>1. /\ fpc[t] = "copy" /\ Resolve(t, call[t].to) /\ fpc' = [fpc EXCEPT ![t] = "system"]
        /\ UNCHANGED <<fs, call, own, disturbed>>
    BY DEF RenameNew
  <1>2. FilesInv /\ FilesShape /\ ReadFits(u) /\ CallFits(t)
    BY DEF OpenInv, FilesInv, ThreadFits
  <1>3. call[t] \in WrapperCalls /\ call[t].to \in Paths /\ call[t].op = "rename"
    BY <1>1, <1>2, CallFacts DEF CallFits
  <1>4. CASE u = t
    BY <1>1, <1>3, <1>4 DEF ReadFits, Reading
  <1>5. CASE u # t
    <2>1. fpc'[u] = fpc[u]
      BY <1>1, <1>2, <1>5 DEF FilesShape
    <2>2. resolved'[u] = resolved[u] /\ alt_path'[u] = alt_path[u] /\ asset_path'[u] = asset_path[u]
      <3>1. PICK path \in Paths : path = call[t].to
        BY <1>3
      <3>2. Resolve(t, path)
        BY <1>1, <3>1
      <3> QED BY <1>2, <1>5, <3>2, ResolveFacts
    <2>3. Reading(u)' => Reading(u)
      BY <1>1, <2>1 DEF Reading
    <2> QED BY <1>1, <1>2, <2>2, <2>3, ReaderLeftAlone
  <1> QED BY <1>4, <1>5

\* A system call that leaves a reader undisturbed makes and removes no file of its
\* name.
LEMMA OpenSystem == \A t \in Threads : OpenInv /\ System(t) => OpenInv'
  <1> SUFFICES ASSUME NEW t \in Threads, OpenInv, System(t),
                      NEW u \in Threads
               PROVE  ReadFits(u)'
    BY SystemInv DEF OpenInv
  <1>1. /\ fpc' = [fpc EXCEPT ![t] = "idle"]
        /\ call' = [call EXCEPT ![t] = Nothing]
        /\ resolved' = [resolved EXCEPT ![t] = Nothing]
        /\ UNCHANGED <<alt_path, asset_path, own>>
        /\ disturbed' = disturbed \cup Disturbs(t)
    BY DEF System, buffers
  <1>2. FilesInv /\ FilesShape /\ ReadFits(u)
    BY DEF OpenInv, FilesInv
  <1>3. CASE u = t
    BY <1>1, <1>2, <1>3 DEF ReadFits, Reading, FilesShape
  <1>4. CASE u # t
    <2>1. fpc'[u] = fpc[u] /\ call'[u] = call[u] /\ resolved'[u] = resolved[u]
      BY <1>1, <1>2, <1>4 DEF FilesShape
    <2>2. Reading(u)' => Reading(u)
      BY <1>1, <2>1 DEF Reading
    <2>3. Reading(u)' => \A p \in Places : p[2] = call[u].path[2] => (fs'[p] = Nothing <=> fs[p] = Nothing)
      BY <1>1, <1>4, <2>1 DEF Reading, Disturbs
    <2> QED BY <1>1, <1>2, <2>1, <2>2, <2>3, ReaderLeftAlone
  <1> QED BY <1>3, <1>4

\* Contents that are written make and remove no file, nor does a closing.
LEMMA OpenWriteOpen == \A t \in Threads : OpenInv /\ WriteOpen(t) => OpenInv'
  <1> SUFFICES ASSUME NEW t \in Threads, OpenInv, WriteOpen(t),
                      NEW u \in Threads
               PROVE  ReadFits(u)'
    BY WriteOpenInv DEF OpenInv
  <1>1. /\ fpc[t] = "idle" /\ disturbed' = disturbed \cup Disturbs(t)
        /\ UNCHANGED <<alt_path, asset_path, fpc, call, resolved, own>>
    BY DEF WriteOpen, buffers
  <1>2. FilesInv /\ ReadFits(u)
    BY DEF OpenInv
  <1>3. Reading(u)' => Reading(u) /\ u # t
    BY <1>1 DEF Reading
  <1>4. Reading(u)' => \A p \in Places : p[2] = call[u].path[2] => (fs'[p] = Nothing <=> fs[p] = Nothing)
    BY <1>1, <1>3 DEF Reading, Disturbs
  <1> QED BY <1>1, <1>2, <1>3, <1>4, ReaderLeftAlone

LEMMA OpenCloseOpen == \A t \in Threads : OpenInv /\ CloseOpen(t) => OpenInv'
  <1> SUFFICES ASSUME NEW t \in Threads, OpenInv, CloseOpen(t),
                      NEW u \in Threads
               PROVE  ReadFits(u)'
    BY CloseOpenInv DEF OpenInv
  <1>1. UNCHANGED <<fs, alt_path, asset_path, fpc, call, resolved, own, disturbed>>
    BY DEF CloseOpen, buffers
  <1>2. FilesInv /\ ReadFits(u)
    BY DEF OpenInv
  <1>3. Reading(u)' => Reading(u)
    BY <1>1 DEF Reading
  <1> QED BY <1>1, <1>2, <1>3, ReaderLeftAlone

LEMMA OpenFile == \A t \in Threads : OpenInv /\ File(t) => OpenInv'
  BY OpenBegin, OpenResolvePath, OpenRenameNew, OpenSystem, OpenWriteOpen, OpenCloseOpen DEF File

LEMMA OpenFrame ==
  OpenInv /\ UNCHANGED <<fs, buffers, fpc, call, resolved, resolved_old, returned, writing, own, disturbed>>
    => OpenInv'
  <1> SUFFICES ASSUME OpenInv, NEW u \in Threads,
                      UNCHANGED <<fs, alt_path, asset_path, fpc, call, resolved, own, disturbed>>
               PROVE  ReadFits(u)'
    BY FilesFrame DEF OpenInv, buffers
  <1>1. FilesInv /\ ReadFits(u)
    BY DEF OpenInv
  <1>2. Reading(u)' => Reading(u)
    BY DEF Reading
  <1> QED BY <1>1, <1>2, ReaderLeftAlone

Opens ==
  \A t \in Threads : fpc[t] = "system" /\ fpc'[t] = "idle" /\ call[t].op = "read"
                     /\ t \notin disturbed /\ t \notin own
    => LET file == fs[Meant(call[t].path)]
       IN returned'[t] = IF file = Nothing THEN Sys!Failed ELSE file

\* An opening ends with its system call, on the place it resolved its path to.
LEMMA FileOpens == \A u \in Threads : OpenInv /\ File(u) => Opens
  <1> SUFFICES ASSUME NEW u \in Threads, OpenInv, File(u),
                      NEW t \in Threads, fpc[t] = "system", fpc'[t] = "idle",
                      call[t].op = "read", t \notin disturbed, t \notin own
               PROVE  returned'[t] = IF fs[Meant(call[t].path)] = Nothing
                                     THEN Sys!Failed ELSE fs[Meant(call[t].path)]
    BY DEF Opens
  <1>1. /\ fpc \in [Threads -> {"idle", "resolve", "copy", "system"}]
        /\ returned = [s \in Threads |-> returned[s]]
        /\ CallFits(t) /\ ReadFits(t)
    BY DEF OpenInv, FilesInv, FilesShape, ThreadFits
  <1>2. System(t)
    <2>1. \/ System(u) \/ fpc' = fpc
          \/ fpc' = [fpc EXCEPT ![u] = "resolve"]
          \/ fpc' = [fpc EXCEPT ![u] = IF call[u].op = "rename" THEN "copy" ELSE "system"]
          \/ fpc' = [fpc EXCEPT ![u] = "system"]
      BY DEF File, Begin, OpenAsset, Called, ResolvePath, RenameNew, WriteOpen, CloseOpen
    <2> QED BY <1>1, <2>1 DEF System
  <1>3. returned' = [returned EXCEPT ![t] = Sys!Answer(fs, Passed(t))]
    BY <1>2 DEF System, Sys!MayFail
  <1>4. fs[PlaceOf(t)] = fs[Meant(call[t].path)]
    BY <1>1 DEF ReadFits, Reading
  <1>5. Passed(t).op = "read" /\ Passed(t).path = PlaceOf(t)
    <2>1. call[t] = [op |-> call[t].op, path |-> call[t].path, to |-> call[t].to]
      BY <1>1, CallFacts DEF CallFits
    <2> QED BY <2>1 DEF Passed, PlaceOf
  <1> QED BY <1>1, <1>3, <1>4, <1>5 DEF Sys!Answer

-----------------------------------------------------------------------------
(* The theorems.                                                             *)

\* In every reachable state each call in progress holds the places its paths
\* stand for.
THEOREM FilesCorrect == Spec => []FilesInv
  <1>1. FilesInv /\ [Next]_vars => FilesInv'
    BY FileInv, FilesFrame DEF Next, vars
  <1> QED BY FilesInitInv, <1>1, PTL DEF Spec

\* The own directories implement the store: what threads create, write, open,
\* remove and rename there under any name of a file is the same file.
THEOREM FilesImplementStore == Spec => RefinesFileStore
  <1>1. FilesInv /\ [Next]_vars => StoreStep
    BY FileInv, FilesFrame DEF Next, vars
  <1> QED BY FilesInitInv, FilesCorrect, <1>1, PTL DEF Spec, RefinesFileStore, Store!Spec, StoreStep

\* No call there touches an asset.
THEOREM AssetsAreSafe == Spec => AssetsSurvive
  <1>1. FilesInv /\ [Next]_vars => [AssetsKept]_vars
    BY FileKeepsAssets DEF Next
  <1> QED BY FilesCorrect, <1>1, PTL DEF Spec, AssetsSurvive, AssetsKept

\* A call that opens a file elsewhere, undisturbed, answers with the one its path
\* stands for, or fails if there is none.
THEOREM OpensFind == Spec => OpensWhatIsThere
  <1>1. OpenInv /\ [Next]_vars => OpenInv'
    BY OpenFile, OpenFrame DEF Next, vars
  <1>2. OpenInv /\ [Next]_vars => [Opens]_vars
    BY FileOpens DEF Next
  <1> QED BY OpenInit, <1>1, <1>2, PTL DEF Spec, OpensWhatIsThere, Opens

(***************************************************************************)
(* GuestServices                                                           *)
(***************************************************************************)
-----------------------------------------------------------------------------
(* A step of the whole is a step of one service and none of the other.       *)

LEMMA ServicesFileStep ==
  FilesInv /\ [ServicesNext]_<<vars, jniVars>> => FilesInv' /\ StoreStep
  <1>1. ASSUME FilesInv, NEW t \in Threads, FileStep(t) PROVE FilesInv' /\ StoreStep
    BY <1>1, FileInv DEF FileStep
  <1>2. ASSUME FilesInv, NEW t \in Threads, JniStep(t) PROVE FilesInv' /\ StoreStep
    BY <1>2, FilesFrame DEF JniStep
  <1>3. ASSUME FilesInv, UNCHANGED <<vars, jniVars>> PROVE FilesInv' /\ StoreStep
    BY <1>3, FilesFrame DEF vars
  <1> QED BY <1>1, <1>2, <1>3 DEF ServicesNext

LEMMA ServicesJniStep == [ServicesNext]_<<vars, jniVars>> => [JniNext]_jniVars
  BY SameThreads DEF ServicesNext, FileStep, JniStep, JniNext

-----------------------------------------------------------------------------
(* The theorems.                                                             *)

\* The tables behave as they do alone, so that what holds of them holds here.
THEOREM ServicesUseTables == ServicesSpec => JniSpec
  BY ServicesJniStep, PTL DEF ServicesSpec, ServicesInit, JniSpec

\* IDs keep naming their members, calls' scans find names and the tables keep
\* their types, whatever files the threads use in between.
THEOREM ServicesKeepIds == ServicesSpec => [](JniTypeOK /\ IdsNameTheirMembers /\ ScansFindNames)
  BY ServicesUseTables, JniTypes, IdsName, ScansFind, PTL

\* The own directories are a file store, whatever IDs the threads look up in
\* between.
THEOREM ServicesKeepFiles == ServicesSpec => RefinesFileStore
  <1>1. ServicesInit => FilesInv /\ Store!Init
    BY FilesInitInv DEF ServicesInit
  <1>2. ServicesSpec => []FilesInv
    BY <1>1, ServicesFileStep, PTL DEF ServicesSpec
  <1> QED BY <1>1, <1>2, ServicesFileStep, PTL DEF ServicesSpec, RefinesFileStore, Store!Spec, StoreStep

\* Nor do those look-ups come between a path and the file that it stands for, or
\* lead a call in the own directories to an asset.
THEOREM ServicesOpenFiles == ServicesSpec => AssetsSurvive /\ OpensWhatIsThere
  <1>1. ServicesInit => OpenInv
    BY OpenInit DEF ServicesInit
  <1>2. OpenInv => FilesInv
    BY DEF OpenInv
  <1>3. OpenInv /\ [ServicesNext]_<<vars, jniVars>> => OpenInv'
    <2>1. ASSUME OpenInv, NEW t \in Threads, FileStep(t) PROVE OpenInv'
      BY <2>1, OpenFile DEF FileStep
    <2>2. ASSUME OpenInv, NEW t \in Threads, JniStep(t) PROVE OpenInv'
      BY <2>2, OpenFrame DEF JniStep
    <2>3. ASSUME OpenInv, UNCHANGED <<vars, jniVars>> PROVE OpenInv'
      BY <2>3, OpenFrame DEF vars
    <2> QED BY <2>1, <2>2, <2>3 DEF ServicesNext
  <1>4. OpenInv /\ [ServicesNext]_<<vars, jniVars>> => [AssetsKept]_vars /\ [Opens]_vars
    <2>1. ASSUME OpenInv, NEW t \in Threads, FileStep(t) PROVE AssetsKept /\ Opens
      BY <1>2, <2>1, FileKeepsAssets, FileOpens DEF FileStep
    <2>2. ASSUME OpenInv, NEW t \in Threads, JniStep(t) PROVE AssetsKept /\ Opens
      <3>1. fpc' = fpc
        BY <2>2 DEF JniStep
      <3>2. \A s \in Threads : ~(fpc[s] = "system" /\ fpc'[s] = "idle")
        BY <3>1
      <3> QED BY <3>2 DEF AssetsKept, Opens
    <2>3. ASSUME UNCHANGED <<vars, jniVars>> PROVE [AssetsKept]_vars /\ [Opens]_vars
      BY <2>3
    <2> QED BY <2>1, <2>2, <2>3 DEF ServicesNext
  <1> QED BY <1>1, <1>3, <1>4, PTL
          DEF ServicesSpec, AssetsSurvive, AssetsKept, OpensWhatIsThere, Opens
=============================================================================
