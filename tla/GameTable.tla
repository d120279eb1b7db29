------------------------------ MODULE GameTable ------------------------------
(***************************************************************************)
(* The table of servers of one game (emulator/game.cpp) in its SQLite      *)
(* database (emulator/sqlite.cpp).                                         *)
(*                                                                         *)
(* The table has a column for each key of the game.  With the policy       *)
(* add_as_string an update may bring keys the game does not know: a column *)
(* is added for each, one ALTER TABLE after the other, and the keys are    *)
(* cached in m_Data.keys and m_Params.  No operation suspends, so each is  *)
(* one step; but an operation may fail on its way.                         *)
(*                                                                         *)
(* m_Params holds views of the names in m_Data.keys and pointers to them.  *)
(* When that vector grows its elements move, and what m_Params holds is    *)
(* stale: what a lookup gives from then on is undefined.                   *)
(***************************************************************************)
EXTENDS Naturals, FiniteSets

CONSTANTS
  Servers,     \* endpoints
  Keys,        \* names a heartbeat or a request may bring
  Order,       \* Order[k]: the place of k among the names, as std::map has them
  Column,      \* Column[k]: the column k names; names that differ in case agree
  Illegal,     \* names IsValidParamName refuses
  Reserved,    \* names that are words of SQL
  Configured,  \* m_Data.keys at the start
  AddKeys,     \* misssingKeyPolicy is add_as_string
  SPARE,       \* most elements the vector may have room for at the start
  Values,      \* of a key
  Default,     \* what a column holds if nothing was stored
  None

Columns == {Column[k] : k \in Keys}

ASSUME KeyAssumption ==
  /\ IsFiniteSet(Keys)
  /\ Order \in [Keys -> Nat]
  /\ \A k, l \in Keys : Order[k] = Order[l] => k = l
  /\ DOMAIN Column = Keys
  /\ Illegal \subseteq Keys /\ Reserved \subseteq Keys
  /\ Default \notin Values
  /\ AddKeys \in BOOLEAN
  /\ SPARE \in Nat

(* Connect refuses what cannot be the columns of a table, and with it the  *)
(* start of the emulator: only such configurations get further.            *)
ASSUME ConfigurationAssumption ==
  /\ Configured \subseteq Keys \ (Illegal \cup Reserved)
  /\ \A k, l \in Configured : Column[k] = Column[l] => k = l

ASSUME NoneAssumption ==
  /\ None \notin [Columns -> Values \cup {Default}]
  /\ None \notin [known : SUBSET Keys, value : Values]

VARIABLES
  columns,     \* of the table
  params,      \* names of m_Data.keys, and in m_Params
  room,        \* elements m_Data.keys can take before it moves
  stale,       \* those of them that refer to where the keys were
  rows,        \* rows[s]: the row of s; or None
  authorizer,  \* the authorizer set in the database
  refused,     \* auxiliary: keys of the last update, if it failed; or {}
  sent         \* auxiliary: the last update of s that was stored; or None

vars == <<columns, params, room, stale, rows, authorizer, refused, sent>>

(* The constructor and Connect.                                            *)
Init ==
  /\ columns = {Column[k] : k \in Configured}
  /\ params = Configured
  /\ room \in 0..SPARE
  /\ stale = {}
  /\ rows = [s \in Servers |-> None]
  /\ authorizer = "none"
  /\ refused = {}
  /\ sent = [s \in Servers |-> None]

-----------------------------------------------------------------------------
(* What an authorizer lets through: that of the new columns nothing but    *)
(* ALTER TABLE.                                                            *)
Allows(a, statement) == a = "none" \/ statement = "alter"

(* Variant: the authorizer stays set.                                      *)
LeftBehind(a) == a

(* The authorizer a statement has run under is released after it, by the   *)
(* destructor of its guard, whether the statement failed or not.           *)
Released(a) == "none"

(* m_Params.contains, for the keys of an update: those it finds.  Once an  *)
(* entry is stale the map compares with what was left in freed memory, and *)
(* may miss any of them.                                                   *)
Found(K) ==
  IF stale = {} THEN {K \cap params} ELSE SUBSET (K \cap params)

(* The keys an update adds.                                                *)
ToAdd(K) == IF AddKeys THEN K ELSE {}

(* Whether ALTER TABLE works for k, if it did for those of add before k.   *)
Addable(add, k) ==
  /\ k \notin Reserved
  /\ Column[k] \notin columns
  /\ \A l \in add : Order[l] < Order[k] => Column[l] # Column[k]

(* Those for which it does: exec stops at the first statement that fails,  *)
(* and there is no transaction to take back the others.                    *)
Altered(add) ==
  {k \in add : \A l \in add : Order[l] <= Order[k] => Addable(add, l)}

(* Variant: a name in other case makes a column of its own.                *)
NamedAsGiven(add) == Altered(add)

AddedColumns(add) == {Column[k] : k \in Altered(add)}

(* Variant: the keys are cached before the columns are added.              *)
CacheFirst(add) ==
  /\ params' = params \cup add
  /\ UNCHANGED <<room, stale>>

CacheUntouched(add) == UNCHANGED <<room, params, stale>>

(* emplace_back and emplace for each.  How much room the vector has after  *)
(* it moved depends on the library; before the last of the new keys it may *)
(* have moved more than once.                                              *)
Cache(add) ==
  /\ params' = params \cup add
  /\ IF Cardinality(add) <= room
     THEN room' = room - Cardinality(add) /\ UNCHANGED stale
     ELSE /\ room' \in 0..Cardinality(params \cup add)
          /\ \E moved \in SUBSET add : moved # add /\ stale' = params \cup moved

-----------------------------------------------------------------------------
Refuse(K) == refused' = K

(* A name that cannot be a column: thrown before anything is done.         *)
RefuseName(s, K, F) ==
  /\ AddKeys /\ (K \ F) \cap Illegal # {}
  /\ Refuse(K)
  /\ UNCHANGED <<columns, params, room, stale, rows, authorizer, sent>>

(* Variant: the row is stored before the columns are added.                *)
StoredFirst(s, K, F, v) ==
  rows' = [rows EXCEPT ![s] = [c \in Columns |-> v]]

RowUntouched(s, K, F, v) == UNCHANGED rows

(* exec fails for one of the new columns.                                  *)
AlterFails(s, K, F, v) ==
  LET add == ToAdd(K \ F)
  IN /\ ~(AddKeys /\ (K \ F) \cap Illegal # {})
     /\ Altered(add) # add
     /\ columns' = columns \cup AddedColumns(add)
     /\ CacheUntouched(add)
     /\ RowUntouched(s, K, F, v)
     /\ authorizer' = Released("columns")
     /\ Refuse(K)
     /\ UNCHANGED sent

(* The columns are there, and the row is inserted with the keys that were  *)
(* known before: the value of a new key is stored by the next update only. *)
(* The insertion fails for a name without a column.                        *)
Inserts(F, cols) == \A k \in F : Column[k] \in cols

(* Variant: columns the update does not name keep what they hold.          *)
Merged(s, F, v) ==
  [c \in Columns |->
     IF \E k \in F : Column[k] = c THEN v
     ELSE IF rows[s] = None THEN Default ELSE rows[s][c]]

Row(s, F, v) ==
  [c \in Columns |-> IF \E k \in F : Column[k] = c THEN v ELSE Default]

Insert(s, K, F, v) ==
  LET add == ToAdd(K \ F)
      before == IF add = {} THEN authorizer ELSE Released("columns")
  IN /\ ~(AddKeys /\ (K \ F) \cap Illegal # {})
     /\ Altered(add) = add
     /\ columns' = columns \cup AddedColumns(add)
     /\ IF add = {} THEN CacheUntouched(add) ELSE Cache(add)
     /\ authorizer' = before
     /\ IF Inserts(F, columns') /\ Allows(before, "insert")
        THEN /\ rows' = [rows EXCEPT ![s] = Row(s, F, v)]
             /\ sent' = [sent EXCEPT ![s] = [known |-> F, value |-> v]]
             /\ refused' = {}
        ELSE Refuse(K) /\ UNCHANGED <<rows, sent>>

(* An update of s with the keys K, which all have the value v.             *)
AddOrUpdateServer(s, K, v) ==
  \E F \in Found(K) :
    \/ RefuseName(s, K, F)
    \/ AlterFails(s, K, F, v)
    \/ Insert(s, K, F, v)

RemoveServer(s) ==
  /\ Allows(authorizer, "delete")
  /\ rows' = [rows EXCEPT ![s] = None]
  /\ sent' = [sent EXCEPT ![s] = None]
  /\ refused' = {}
  /\ UNCHANGED <<columns, params, room, stale, authorizer>>

Next ==
  \E s \in Servers :
    \/ \E K \in SUBSET Keys, v \in Values : AddOrUpdateServer(s, K, v)
    \/ RemoveServer(s)

Spec == Init /\ [][Next]_vars

(* column_at: what a row gives for a field, the empty string for no value. *)
Shown(s, f) == rows[s][Column[f]]

(* GetServers without a filter: the rows with the values of the fields, or *)
(* nothing if there is no column for one of them, as preparing the query   *)
(* then fails and that is only logged.                                     *)
GetServers(fields) ==
  IF \E f \in fields : f \in Illegal \cup Reserved \/ Column[f] \notin columns
  THEN {}
  ELSE {[server |-> s, data |-> [f \in fields |-> Shown(s, f)]] :
          s \in {t \in Servers : rows[t] # None}}

-----------------------------------------------------------------------------
TypeOK ==
  /\ columns \subseteq Columns
  /\ room \in Nat
  /\ params \subseteq Keys
  /\ stale \subseteq params
  /\ rows \in [Servers -> [Columns -> Values \cup {Default}] \cup {None}]
  /\ authorizer \in {"none", "columns"}
  /\ refused \subseteq Keys
  /\ sent \in [Servers -> [known : SUBSET Keys, value : Values] \cup {None}]

(* A cached key has a column, so that an insertion never names one that is *)
(* missing; also after an update that failed between two columns.          *)
CachedHaveColumn == \A k \in params : Column[k] \in columns

(* While the cache can be relied on, an update is refused only because of  *)
(* a key it does not hold: one that cannot be a column, one for which      *)
(* there is a column already, or one that another key of the update takes  *)
(* for itself.  In particular nothing a server sends makes the updates of  *)
(* another fail that keeps to the keys of the game.                        *)
RefusalHasCause ==
  refused # {} /\ stale = {} =>
    \E k \in refused \ params :
      \/ k \in Illegal \cup Reserved
      \/ Column[k] \in columns
      \/ \E l \in refused \ params : l # k /\ Column[l] = Column[k]

(* An update that fails changes no row, neither its own nor another's.     *)
RefusedChangesNoRow == [][refused' # {} => rows' = rows]_vars

(* A list shows of every server in the table what it said last, for the    *)
(* keys that were known by then, and the default for all others: nothing   *)
(* of an earlier update, and nothing of a column that came later.          *)
Due(s, f) ==
  IF \E k \in sent[s].known : Column[k] = Column[f] THEN sent[s].value ELSE Default

ListShowsLastUpdate ==
  \A fields \in SUBSET Keys :
    LET list == GetServers(fields)
    IN list # {} =>
         /\ {e.server : e \in list} = {s \in Servers : sent[s] # None}
         /\ \A e \in list, f \in fields : e.data[f] = Due(e.server, f)

(* What is stored for a server is what it sent: the inductive invariant.   *)
Stored(known, v) ==
  [c \in Columns |-> IF \E k \in known : Column[k] = c THEN v ELSE Default]

RowsAreSent ==
  \A s \in Servers :
    /\ rows[s] = None <=> sent[s] = None
    /\ sent[s] # None => rows[s] = Stored(sent[s].known, sent[s].value)

TableInv ==
  /\ TypeOK
  /\ authorizer = "none"
  /\ CachedHaveColumn
  /\ RefusalHasCause
  /\ RowsAreSent

(* "references to m_Data.keys" (game.h, of m_Params): what m_Params refers *)
(* to are the keys, and not where they were before the vector moved.       *)
ParamsReferToKeys == stale = {}
=============================================================================
