--------------------------- MODULE GameTableProofs ---------------------------
(***************************************************************************)
(* Theorems about GameTable, for every set of keys, every policy and every *)
(* configuration Connect accepts.                                          *)
(***************************************************************************)
EXTENDS GameTable, FiniteSetTheorems, TLAPS

LEMMA RoomIsNat ==
  ASSUME room \in Nat, NEW add \in SUBSET Keys
  PROVE  /\ Cardinality(add) \in Nat
         /\ Cardinality(add) <= room => room - Cardinality(add) \in Nat
         /\ \A P \in SUBSET Keys : 0..Cardinality(P) \subseteq Nat
  <1>1. \A P \in SUBSET Keys : IsFiniteSet(P) /\ Cardinality(P) \in Nat
    BY FS_Subset, FS_CardinalityType, KeyAssumption
  <1> QED BY <1>1

(* Every key an update is missing gets a column, or one of them cannot.    *)
LEMMA AlteredCause ==
  ASSUME NEW add \in SUBSET Keys
  PROVE  /\ Altered(add) \subseteq add
         /\ AddedColumns(add) \subseteq Columns
         /\ Altered(add) = add => \A k \in add : Column[k] \in AddedColumns(add)
         /\ Altered(add) # add =>
              \E k \in add : \/ k \in Reserved
                             \/ Column[k] \in columns
                             \/ \E l \in add : l # k /\ Column[l] = Column[k]
  <1>1. Altered(add) \subseteq add
    BY DEF Altered
  <1>2. AddedColumns(add) \subseteq Columns
    BY <1>1 DEF AddedColumns, Columns
  <1>3. Altered(add) = add => \A k \in add : Column[k] \in AddedColumns(add)
    BY DEF AddedColumns
  <1>4. ASSUME Altered(add) # add
        PROVE  \E k \in add : \/ k \in Reserved
                              \/ Column[k] \in columns
                              \/ \E l \in add : l # k /\ Column[l] = Column[k]
    <2>1. PICK k \in add : ~Addable(add, k)
      BY <1>4 DEF Altered
    <2>2. ASSUME NEW l \in add, Order[l] < Order[k] PROVE l # k
      <3>1. Order[l] \in Nat /\ Order[k] \in Nat
        BY KeyAssumption
      <3> QED BY <2>2, <3>1
    <2> QED BY <2>1, <2>2 DEF Addable
  <1> QED BY <1>1, <1>2, <1>3, <1>4

-----------------------------------------------------------------------------
LEMMA TableInit == Init => TableInv
  <1> SUFFICES ASSUME Init PROVE TableInv
    OBVIOUS
  <1>1. Configured \subseteq Keys
    BY ConfigurationAssumption
  <1>2. TypeOK
    BY <1>1, KeyAssumption DEF Init, TypeOK, Columns
  <1>3. CachedHaveColumn /\ RefusalHasCause /\ RowsAreSent
    BY DEF Init, CachedHaveColumn, RefusalHasCause, RowsAreSent
  <1> QED BY <1>2, <1>3 DEF Init, TableInv

(* What an update finds of its keys are cached keys, and all of them while *)
(* the cache can be relied on.                                             *)
LEMMA FoundKeys ==
  ASSUME NEW K \in SUBSET Keys, NEW F \in Found(K)
  PROVE  /\ F \subseteq K \cap params
         /\ stale = {} => F = K \cap params
  BY DEF Found

LEMMA RefuseNameKeeps ==
  ASSUME TableInv, NEW s \in Servers, NEW K \in SUBSET Keys, NEW F \in Found(K),
         RefuseName(s, K, F)
  PROVE  TableInv'
  <1>1. TypeOK' /\ authorizer' = "none" /\ CachedHaveColumn' /\ RowsAreSent'
    BY DEF TableInv, TypeOK, CachedHaveColumn, RowsAreSent, RefuseName, Refuse
  <1>2. ASSUME stale' = {}
        PROVE  \E k \in refused' \ params' : k \in Illegal
    BY <1>2, FoundKeys DEF RefuseName, Refuse
  <1>3. RefusalHasCause'
    BY <1>2 DEF RefusalHasCause
  <1> QED BY <1>1, <1>3 DEF TableInv

LEMMA AlterFailsKeeps ==
  ASSUME TableInv, NEW s \in Servers, NEW K \in SUBSET Keys, NEW F \in Found(K),
         NEW v \in Values, AlterFails(s, K, F, v)
  PROVE  TableInv'
  <1> DEFINE add == ToAdd(K \ F)
  <1>1. add \in SUBSET Keys /\ add \subseteq K \ F
    BY DEF ToAdd
  <1>2. /\ Altered(add) # add
        /\ columns' = columns \cup AddedColumns(add)
        /\ UNCHANGED <<params, room, stale, rows, sent>>
        /\ authorizer' = "none"
        /\ refused' = K
    BY DEF AlterFails, CacheUntouched, RowUntouched, Released, Refuse
  <1> HIDE DEF add
  <1>3. TypeOK'
    BY <1>1, <1>2, AlteredCause DEF TableInv, TypeOK
  <1>4. CachedHaveColumn' /\ RowsAreSent'
    BY <1>2 DEF TableInv, CachedHaveColumn, RowsAreSent
  <1>5. ASSUME stale' = {}
        PROVE  \E k \in refused' \ params' :
                 \/ k \in Reserved
                 \/ Column[k] \in columns'
                 \/ \E l \in refused' \ params' : l # k /\ Column[l] = Column[k]
    <2>1. add \subseteq refused' \ params'
      BY <1>1, <1>2, <1>5, FoundKeys
    <2> QED BY <1>1, <1>2, <2>1, AlteredCause
  <1>6. RefusalHasCause'
    BY <1>5 DEF RefusalHasCause
  <1> QED BY <1>2, <1>3, <1>4, <1>6 DEF TableInv

(* What is cached is typed, and the keys of the cache are those added.     *)
LEMMA CacheTypes ==
  ASSUME TypeOK, NEW add \in SUBSET Keys,
         IF add = {} THEN CacheUntouched(add) ELSE Cache(add)
  PROVE  params' = params \cup add /\ room' \in Nat /\ stale' \subseteq params'
  <1>1. CASE add = {}
    BY <1>1 DEF CacheUntouched, TypeOK
  <1>2. CASE add # {}
    <2>1. params' = params \cup add
      BY <1>2 DEF Cache
    <2>2. stale' \subseteq params'
      BY <1>2, <2>1 DEF Cache, TypeOK
    <2>3. room \in Nat /\ params \cup add \in SUBSET Keys
      BY DEF TypeOK
    <2>4. /\ Cardinality(add) <= room => room - Cardinality(add) \in Nat
          /\ 0..Cardinality(params \cup add) \subseteq Nat
      BY <2>3, RoomIsNat
    <2>5. room' \in Nat
      BY <1>2, <2>4 DEF Cache
    <2> QED BY <2>1, <2>2, <2>5
  <1> QED BY <1>1, <1>2

LEMMA StoredTypes ==
  ASSUME NEW F \in SUBSET Keys, NEW v \in Values
  PROVE  /\ Stored(F, v) \in [Columns -> Values \cup {Default}]
         /\ Stored(F, v) # None
         /\ [known |-> F, value |-> v] # None
  <1>1. Stored(F, v) \in [Columns -> Values \cup {Default}]
    BY DEF Stored
  <1>2. [known |-> F, value |-> v] \in [known : SUBSET Keys, value : Values]
    OBVIOUS
  <1> QED BY <1>1, <1>2, NoneAssumption

(* An insertion never fails: what an update finds has a column, and no     *)
(* authorizer is left behind.                                              *)
LEMMA InsertKeeps ==
  ASSUME TableInv, NEW s \in Servers, NEW K \in SUBSET Keys, NEW F \in Found(K),
         NEW v \in Values, Insert(s, K, F, v)
  PROVE  TableInv'
  <1> DEFINE add == ToAdd(K \ F)
             before == IF add = {} THEN authorizer ELSE Released("columns")
  <1>1. add \in SUBSET Keys
    BY DEF ToAdd
  <1>2. before = "none"
    BY DEF TableInv, Released
  <1>3. /\ Altered(add) = add
        /\ columns' = columns \cup AddedColumns(add)
        /\ IF add = {} THEN CacheUntouched(add) ELSE Cache(add)
        /\ authorizer' = "none"
    BY <1>2 DEF Insert
  <1>4. Inserts(F, columns') /\ Allows(before, "insert")
    BY <1>2, <1>3, FoundKeys DEF TableInv, CachedHaveColumn, Inserts, Allows
  <1>5. /\ rows' = [rows EXCEPT ![s] = Row(s, F, v)]
        /\ sent' = [sent EXCEPT ![s] = [known |-> F, value |-> v]]
        /\ refused' = {}
    BY <1>4 DEF Insert
  <1> HIDE DEF add, before
  <1>6. /\ params' = params \cup add
        /\ room' \in Nat
        /\ stale' \subseteq params'
    BY <1>1, <1>3, CacheTypes DEF TableInv
  <1>7. F \in SUBSET Keys /\ Row(s, F, v) = Stored(F, v)
    BY FoundKeys DEF Row, Stored
  <1>8. TypeOK'
    <2>1. columns' \subseteq Columns /\ params' \subseteq Keys
      BY <1>1, <1>3, <1>6, AlteredCause DEF TableInv, TypeOK
    <2>2. rows' \in [Servers -> [Columns -> Values \cup {Default}] \cup {None}]
      <3>1. Row(s, F, v) \in [Columns -> Values \cup {Default}]
        BY <1>7, StoredTypes
      <3> QED BY <1>5, <3>1 DEF TableInv, TypeOK
    <2>3. sent' \in [Servers -> [known : SUBSET Keys, value : Values] \cup {None}]
      BY <1>5, <1>7 DEF TableInv, TypeOK
    <2> QED BY <1>3, <1>5, <1>6, <2>1, <2>2, <2>3 DEF TypeOK
  <1>9. CachedHaveColumn'
    BY <1>1, <1>3, <1>6, AlteredCause DEF TableInv, CachedHaveColumn
  <1>10. RefusalHasCause'
    BY <1>5 DEF RefusalHasCause
  <1>11. RowsAreSent'
    <2> SUFFICES ASSUME NEW t \in Servers
                 PROVE  /\ rows'[t] = None <=> sent'[t] = None
                        /\ sent'[t] # None => rows'[t] = Stored(sent'[t].known, sent'[t].value)
      BY DEF RowsAreSent, Stored
    <2>1. CASE t = s
      <3>1. rows'[t] = Stored(F, v) /\ sent'[t] = [known |-> F, value |-> v]
        BY <1>5, <1>7, <2>1 DEF TableInv, TypeOK
      <3> QED BY <1>7, <3>1, StoredTypes
    <2>2. CASE t # s
      BY <1>5, <2>2 DEF TableInv, TypeOK, RowsAreSent
    <2> QED BY <2>1, <2>2
  <1> QED BY <1>3, <1>8, <1>9, <1>10, <1>11 DEF TableInv

LEMMA RemoveKeeps ==
  ASSUME TableInv, NEW s \in Servers, RemoveServer(s)
  PROVE  TableInv'
  <1>1. TypeOK'
    BY DEF TableInv, TypeOK, RemoveServer
  <1>2. CachedHaveColumn' /\ RefusalHasCause' /\ authorizer' = "none"
    BY DEF TableInv, CachedHaveColumn, RefusalHasCause, RemoveServer
  <1>3. RowsAreSent'
    BY DEF TableInv, TypeOK, RowsAreSent, RemoveServer, Stored
  <1> QED BY <1>1, <1>2, <1>3 DEF TableInv

LEMMA TableStep == TableInv /\ [Next]_vars => TableInv'
  <1> SUFFICES ASSUME TableInv, [Next]_vars PROVE TableInv'
    OBVIOUS
  <1>1. ASSUME NEW s \in Servers, NEW K \in SUBSET Keys, NEW v \in Values,
               AddOrUpdateServer(s, K, v)
        PROVE  TableInv'
    BY <1>1, RefuseNameKeeps, AlterFailsKeeps, InsertKeeps DEF AddOrUpdateServer
  <1>2. ASSUME NEW s \in Servers, RemoveServer(s) PROVE TableInv'
    BY <1>2, RemoveKeeps
  <1>3. CASE UNCHANGED vars
    BY <1>3 DEF vars, TableInv, TypeOK, CachedHaveColumn, RefusalHasCause, RowsAreSent
  <1> QED BY <1>1, <1>2, <1>3 DEF Next

(* AddOrUpdateServer, RemoveServers: the inductive invariant.              *)
THEOREM TableInvHolds == Spec => []TableInv
  BY TableInit, TableStep, PTL DEF Spec

-----------------------------------------------------------------------------
(* The variables keep to their types, the columns to those keys name.      *)
THEOREM TypeOKHolds == Spec => []TypeOK
  <1>1. TableInv => TypeOK
    BY DEF TableInv
  <1> QED BY <1>1, TableInvHolds, PTL

(* A key in m_Params has its column, whatever ALTER TABLE failed before.   *)
THEOREM CachedHaveColumnHolds == Spec => []CachedHaveColumn
  <1>1. TableInv => CachedHaveColumn
    BY DEF TableInv
  <1> QED BY <1>1, TableInvHolds, PTL

(* Nothing a server sends makes AddOrUpdateServer fail for another.        *)
THEOREM RefusalHasCauseHolds == Spec => []RefusalHasCause
  <1>1. TableInv => RefusalHasCause
    BY DEF TableInv
  <1> QED BY <1>1, TableInvHolds, PTL

LEMMA ListFromRows == TableInv => ListShowsLastUpdate
  <1> SUFFICES ASSUME TableInv, NEW fields \in SUBSET Keys, GetServers(fields) # {}
               PROVE  /\ {e.server : e \in GetServers(fields)} = {s \in Servers : sent[s] # None}
                      /\ \A e \in GetServers(fields), f \in fields : e.data[f] = Due(e.server, f)
    BY DEF ListShowsLastUpdate
  <1> DEFINE listed == {s \in Servers : sent[s] # None}
             Entry(s) == [server |-> s, data |-> [f \in fields |-> Shown(s, f)]]
  <1>1. {t \in Servers : rows[t] # None} = listed
    BY DEF TableInv, RowsAreSent
  <1>2. GetServers(fields) = {Entry(s) : s \in listed}
    BY <1>1 DEF GetServers
  <1>3. \A s \in listed : Entry(s).server = s
    OBVIOUS
  <1> HIDE DEF Entry, listed
  <1>4. {e.server : e \in GetServers(fields)} = listed
    <2>1. ASSUME NEW s \in listed PROVE \E e \in GetServers(fields) : e.server = s
      BY <1>2, <1>3
    <2>2. ASSUME NEW e \in GetServers(fields) PROVE e.server \in listed
      BY <1>2, <1>3
    <2> QED BY <2>1, <2>2
  <1>5. ASSUME NEW s \in listed, NEW f \in fields PROVE Entry(s).data[f] = Due(s, f)
    <2>0. s \in Servers /\ sent[s] # None
      BY DEF listed
    <2>1. Column[f] \in Columns
      BY DEF Columns
    <2>2. rows[s] = Stored(sent[s].known, sent[s].value)
      BY <2>0 DEF TableInv, RowsAreSent
    <2>3. Shown(s, f) = Due(s, f)
      BY <2>1, <2>2 DEF Shown, Due, Stored
    <2> QED BY <2>3 DEF Entry
  <1>6. \A e \in GetServers(fields), f \in fields : e.data[f] = Due(e.server, f)
    BY <1>2, <1>3, <1>5
  <1> QED BY <1>4, <1>6 DEF listed

(* GetServers gives what each server said last, and the default elsewhere. *)
THEOREM ListShowsLastUpdateHolds == Spec => []ListShowsLastUpdate
  BY ListFromRows, TableInvHolds, PTL

(* An AddOrUpdateServer that fails leaves every row as it is.              *)
THEOREM RefusedChangesNoRowHolds == Spec => RefusedChangesNoRow
  <1>1. [Next]_vars => [refused' # {} => rows' = rows]_vars
    <2> SUFFICES ASSUME Next, refused' # {} PROVE rows' = rows
      BY DEF vars
    <2>1. ASSUME NEW s \in Servers, NEW K \in SUBSET Keys, NEW v \in Values,
                 AddOrUpdateServer(s, K, v)
          PROVE  rows' = rows
      BY <2>1 DEF AddOrUpdateServer, RefuseName, AlterFails, Insert, RowUntouched, Refuse
    <2>2. ASSUME NEW s \in Servers, RemoveServer(s) PROVE rows' = rows
      BY <2>2 DEF RemoveServer
    <2> QED BY <2>1, <2>2 DEF Next
  <1> QED BY <1>1, PTL DEF Spec, RefusedChangesNoRow

-----------------------------------------------------------------------------
(* Where the views of m_Params can be relied on: they go stale only when a *)
(* key has been added, so never under another policy than add_as_string.   *)
ViewsInv ==
  /\ Configured \subseteq params
  /\ stale # {} => AddKeys /\ params # Configured

LEMMA ViewsStep ==
  ASSUME ViewsInv, [Next]_vars
  PROVE  ViewsInv'
  <1>1. CASE UNCHANGED <<params, stale>>
    BY <1>1 DEF ViewsInv
  <1>2. ASSUME NEW s \in Servers, NEW K \in SUBSET Keys, NEW F \in Found(K),
               NEW v \in Values, Insert(s, K, F, v), ~UNCHANGED <<params, stale>>
        PROVE  ViewsInv'
    <2> DEFINE add == ToAdd(K \ F)
    <2>1. add # {} /\ Cache(add)
      BY <1>2 DEF Insert, CacheUntouched
    <2>2. AddKeys /\ add = K \ F
      BY <2>1 DEF ToAdd
    <2>3. params' = params \cup add
      BY <2>1 DEF Cache
    <2>4. stale' # {} => params' # Configured
      <3>1. CASE stale = {}
        <4>1. add \cap params = {}
          <5>1. F = K \cap params
            BY <3>1 DEF Found
          <5> QED BY <2>2, <5>1
        <4> QED BY <2>1, <2>3, <4>1 DEF ViewsInv
      <3>2. CASE stale # {}
        BY <2>3, <3>2 DEF ViewsInv
      <3> QED BY <3>1, <3>2
    <2> QED BY <2>2, <2>3, <2>4 DEF ViewsInv
  <1> QED BY <1>1, <1>2
          DEF Next, AddOrUpdateServer, RemoveServer, RefuseName, AlterFails,
              CacheUntouched, vars

(* m_Params refers to the keys as long as the game has those of its        *)
(* configuration, and with the other policies always: only a key that      *)
(* AddOrUpdateServer adds can move m_Data.keys.                            *)
THEOREM ParamsReferUntilKeysAdded ==
  /\ Spec => [](params = Configured => ParamsReferToKeys)
  /\ ~AddKeys => (Spec => []ParamsReferToKeys)
  <1>1. Init => ViewsInv
    BY DEF Init, ViewsInv
  <1>2. ViewsInv => (params = Configured => ParamsReferToKeys)
    BY DEF ViewsInv, ParamsReferToKeys
  <1>3. ASSUME ~AddKeys PROVE ViewsInv => ParamsReferToKeys
    BY <1>3 DEF ViewsInv, ParamsReferToKeys
  <1>4. Spec => []ViewsInv
    BY <1>1, ViewsStep, PTL DEF Spec
  <1>5. Spec => [](params = Configured => ParamsReferToKeys)
    BY <1>2, <1>4, PTL
  <1>6. ASSUME ~AddKeys PROVE Spec => []ParamsReferToKeys
    <2>1. ViewsInv => ParamsReferToKeys
      BY <1>3, <1>6
    <2> QED BY <1>4, <2>1, PTL
  <1> QED BY <1>5, <1>6
=============================================================================
