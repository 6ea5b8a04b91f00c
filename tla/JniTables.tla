----------------------------- MODULE JniTables -----------------------------
(* The method and field IDs of the JNI shim (src/jni_shim.c).  GetMethodID   *)
(* and GetFieldID append the name to a table and hand out a number; the      *)
(* Call... and Get...Field functions find the name by that number and answer *)
(* by the name.  Every guest thread gets the same environment, and nothing   *)
(* locks the tables.  The tables keep the caller's pointers to the names; a  *)
(* name here is a value, so that the strings stay as they are is assumed.    *)
EXTENDS Integers, FiniteSets

CONSTANTS Clients,       \* guest threads
          MaxMethods,    \* MAX_METHODS, 32
          MaxFields,     \* MAX_FIELDS, 16
          MethodNames, FieldNames,     \* names the guest looks up
          CountryCode, WindowService, SdkInt,    \* the names that have an answer
          Null, Unknown

ASSUME JniAssumption ==
  /\ IsFiniteSet(Clients) /\ MaxMethods \in 1 .. 99 /\ MaxFields \in Nat \ {0}
  /\ {Null, Unknown} \cap (MethodNames \cup FieldNames) = {} /\ Null # Unknown
  /\ CountryCode \notin FieldNames /\ {WindowService, SdkInt} \cap MethodNames = {}

Tables == {"methods", "fields"}
Limit == [methods |-> MaxMethods, fields |-> MaxFields]
FirstId == [methods |-> 100, fields |-> 200]
NamesOf == [methods |-> MethodNames, fields |-> FieldNames]

VARIABLES table,       \* g_methods, g_fields: entries with id and name
          count,       \* g_num_methods, g_num_fields
          jpc, lookup, \* per thread: next step and the lookup it is in
          slot,        \* per thread: the count it read
          granted,     \* history: lookups answered with an ID, and that ID
          overlapped   \* history: tables that two lookups were in at once

jniVars == <<table, count, jpc, lookup, slot, granted, overlapped>>

JniInit ==
  /\ table = [k \in Tables |-> [i \in 0 .. Limit[k] - 1 |-> [id |-> 0, name |-> Null]]]
  /\ count = [k \in Tables |-> 0]
  /\ jpc = [t \in Clients |-> "idle"]
  /\ lookup = [t \in Clients |-> [kind |-> Null, name |-> Null]]
  /\ slot = [t \in Clients |-> 0]
  /\ granted = {} /\ overlapped = {}

\* Mutation: a full table has room for one entry more than it has.
HasRoomLate(k) == count[k] <= Limit[k]
HasRoom(k) == count[k] < Limit[k]

\* GetMethodID, GetFieldID and their static forms: read the count.
LookupBegin(t) ==
  /\ jpc[t] = "idle"
  /\ \E k \in Tables : \E name \in NamesOf[k] :
       /\ lookup' = [lookup EXCEPT ![t] = [kind |-> k, name |-> name]]
       /\ IF HasRoom(k)
          THEN /\ slot' = [slot EXCEPT ![t] = count[k]]
               /\ jpc' = [jpc EXCEPT ![t] = "fill"]
               /\ overlapped' = IF \E u \in Clients : jpc[u] # "idle" /\ lookup[u].kind = k
                                THEN overlapped \cup {k} ELSE overlapped
               /\ UNCHANGED granted
          ELSE /\ granted' = granted \cup {[kind |-> k, name |-> name, id |-> 0]}
               /\ UNCHANGED <<slot, jpc, overlapped>>
  /\ UNCHANGED <<table, count>>

Id(k, i) == FirstId[k] + i

\* Fill the entry.
LookupFill(t) ==
  LET k == lookup[t].kind IN
    /\ jpc[t] = "fill"
    /\ table' = [table EXCEPT ![k][slot[t]] = [id |-> Id(k, slot[t]), name |-> lookup[t].name]]
    /\ jpc' = [jpc EXCEPT ![t] = "count"]
    /\ UNCHANGED <<count, lookup, slot, granted, overlapped>>

\* Count it: from the count read at first, or read anew.
LookupEnd(t) ==
  LET k == lookup[t].kind IN
    /\ jpc[t] = "count"
    /\ \E n \in {slot[t], count[k]} : count' = [count EXCEPT ![k] = n + 1]
    /\ granted' = granted \cup {[kind |-> k, name |-> lookup[t].name, id |-> Id(k, slot[t])]}
    /\ jpc' = [jpc EXCEPT ![t] = "idle"]
    /\ UNCHANGED <<table, lookup, slot, overlapped>>

Jni(t) == LookupBegin(t) \/ LookupFill(t) \/ LookupEnd(t)
JniNext == \E t \in Clients : Jni(t)

JniSpec == JniInit /\ [][JniNext]_jniVars

-----------------------------------------------------------------------------
(* The calls, which change nothing.                                          *)

\* Mutation: the scan misses the newest entry.
ScannedShort(k) == 0 .. count[k] - 2
Scanned(k) == 0 .. count[k] - 1

\* Entries in the table with this id; what is past its end is not its own.
Matches(k, id) == {i \in Scanned(k) : i < Limit[k] /\ table[k][i].id = id}

\* find_method_name, find_field_name: the first entry with this id.
Found(k, id) ==
  IF Matches(k, id) = {} THEN Unknown
  ELSE table[k][CHOOSE i \in Matches(k, id) : \A j \in Matches(k, id) : i <= j].name

\* CallObjectMethod, GetObjectField and GetIntField have answers for one name
\* each; all other calls answer nothing.
AnswerTo(k, id) ==
  LET name == Found(k, id) IN
    IF name \in {CountryCode, WindowService, SdkInt} THEN name ELSE Null

-----------------------------------------------------------------------------
(* Properties.                                                               *)

\* The type of the tables.
JniTypeOK ==
  /\ \A k \in Tables :
       /\ table[k] \in [0 .. Limit[k] - 1 -> [id : Nat, name : NamesOf[k] \cup {Null}]]
       /\ count[k] \in 0 .. Limit[k] + Cardinality(Clients) - 1
  /\ jpc \in [Clients -> {"idle", "fill", "count"}]
  /\ \A t \in Clients : jpc[t] # "idle" => lookup[t].kind \in Tables /\ slot[t] < Limit[lookup[t].kind]

\* An ID stays the ID of what it was got for, however many lookups follow and
\* in whatever order threads make them, so that a call has the answer its name
\* has; only a table that two threads were in at once can confuse two names.
IdsNameTheirMembers ==
  \A g \in granted : g.id # 0 /\ g.kind \notin overlapped => Found(g.kind, g.id) = g.name

\* The scan of a table that a call makes stays inside the table, and what it
\* finds for what a lookup returned, the 0 of a full table included, is never a
\* null name to compare, unless two threads were in the table at once: then it
\* may count an entry nobody filled or one past the last.
ScansFindNames ==
  \A k \in Tables : k \notin overlapped =>
    count[k] <= Limit[k] /\ \A g \in granted : g.kind = k => Found(k, g.id) # Null
=============================================================================
