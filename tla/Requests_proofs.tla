-------------------------- MODULE Requests_proofs --------------------------
(***************************************************************************)
(* Theorems about the components whose requests interleave on tables of    *)
(* their own, for every number of requests and rows:                       *)
(*                                                                         *)
(*   Assets           an asset's row and its object                        *)
(*   Deals            pipelines, deals and their tasks                     *)
(*   WorkspaceAccess  confirmation tokens and conversations                *)
(*   Provisioning     the commands that set an installation up             *)
(*                                                                         *)
(* and about automations' graphs, for any number of nodes and edges:       *)
(*                                                                         *)
(*   AutomationBuilder  the graph the editor would save                    *)
(*   GraphValidation    the server's check of a draft                      *)
(***************************************************************************)
EXTENDS Assets, Deals, WorkspaceAccess, Provisioning, AutomationBuilder, GraphValidation,
        TLAPS, FiniteSetTheorems, WellFoundedInduction

-----------------------------------------------------------------------------
(* Assets.                                                                 *)

LEMMA IdleRequestType ==
  /\ IdleRequest \in Request
  /\ IdleRequest.step = "idle"
<1>1. PICK a \in AssetIds, c \in Contents : TRUE
  BY AssetsAssumption
<1>2. <<a, 1>> \in Keys
  BY AssetsAssumption DEF Keys
<1>3. [step |-> "idle", asset |-> a, own |-> <<a, 1>>, old |-> <<a, 1>>,
       content |-> c, visibility |-> "private"] \in Request
  BY <1>2 DEF Request, AssetSteps, Visibility
<1>4. \E q \in Request : q.step = "idle"
  BY <1>3
<1> QED
  BY <1>4 DEF IdleRequest

LEMMA AssetOfKey == \A k \in Keys : AssetOf(k) \in AssetIds
BY DEF Keys, AssetOf

(* Every step of a request keeps the types.                                *)
LEMMA AssetTypeStep ==
  ASSUME AssetTypeOK, [AssetNext]_assetVars
  PROVE  AssetTypeOK'
<1> USE IdleRequestType, AssetOfKey DEF AssetTypeOK
<1>1. ASSUME NEW r \in AssetRequests, NEW fresh \in Keys, NEW c \in Contents,
             NEW whole \in BOOLEAN, NEW v \in Visibility,
             StartUpload(r, AssetOf(fresh), fresh, c, whole, v)
      PROVE  AssetTypeOK'
  BY <1>1 DEF StartUpload, PutAssetObject, Request, AssetSteps
<1>2. ASSUME NEW r \in AssetRequests, NEW fresh \in Keys, NEW c \in Contents,
             NEW whole \in BOOLEAN, PutReplacement(r, fresh, c, whole)
      PROVE  AssetTypeOK'
  BY <1>2 DEF PutReplacement, PutAssetObject, Request, AssetSteps
<1>3. ASSUME NEW r \in AssetRequests, NEW a \in AssetIds,
             ReadForReplace(r, a) \/ ReadForDelete(r, a)
      PROVE  AssetTypeOK'
  <2>1. assetRow[a].key \in Keys
    BY <1>3 DEF ReadForReplace, ReadForDelete, Exists, AssetRows
  <2>2. \A step \in AssetSteps :
          [assetReq[r] EXCEPT !.step = step, !.asset = a, !.old = assetRow[a].key] \in Request
    BY <2>1 DEF Request
  <2> QED
    BY <1>3, <2>2 DEF ReadForReplace, ReadForDelete, AssetSteps
<1>4. ASSUME NEW r \in AssetRequests, NEW a \in AssetIds,
             NEW patch \in Visibility \cup {"unset"}, ReadForUpdate(r, a, patch)
      PROVE  AssetTypeOK'
  <2>1. assetRow[a].visibility \in Visibility
    BY <1>4 DEF ReadForUpdate, Exists, AssetRows
  <2>2. [assetReq[r] EXCEPT
           !.step = "metadata", !.asset = a,
           !.visibility = IF patch = "unset" THEN assetRow[a].visibility ELSE patch] \in Request
    BY <2>1 DEF Request, AssetSteps, Visibility
  <2> QED
    BY <1>4, <2>2 DEF ReadForUpdate
<1>5. ASSUME NEW r \in AssetRequests, NEW a \in AssetIds, NEW isMember \in BOOLEAN,
             FindAsset(r, a, isMember)
      PROVE  AssetTypeOK'
  <2>1. assetRow[a].key \in Keys /\ assetRow[a].content \in Contents
    BY <1>5 DEF FindAsset, Exists, AssetRows
  <2>2. [assetReq[r] EXCEPT !.step = "serve", !.asset = a, !.old = assetRow[a].key,
                            !.content = assetRow[a].content] \in Request
    BY <2>1 DEF Request, AssetSteps
  <2> QED
    BY <1>5, <2>2 DEF FindAsset
<1>6. ASSUME NEW r \in AssetRequests, DiscardObject(r) \/ DeleteOldObject(r)
      PROVE  AssetTypeOK'
  BY <1>6 DEF DiscardObject, DeleteOldObject, Finish, Request
<1>7. ASSUME NEW r \in AssetRequests, InsertAsset(r)
      PROVE  AssetTypeOK'
  BY <1>7 DEF InsertAsset, Finish, AssetRows, Request
<1>8. ASSUME NEW r \in AssetRequests, UpdateContent(r)
      PROVE  AssetTypeOK'
  <2> DEFINE q == assetReq[r]
  <2>1. q.asset \in AssetIds /\ q.own \in Keys /\ q.content \in Contents
    BY DEF Request
  <2>2. assetReq' \in [AssetRequests -> Request]
    BY <1>8 DEF UpdateContent, Request, AssetSteps
  <2>3. CASE Exists(q.asset)
    <3>1. [assetRow[q.asset] EXCEPT !.key = q.own, !.content = q.content] \in AssetRows
      BY <2>1, <2>3 DEF Exists, AssetRows
    <3>2. assetRow' = [assetRow EXCEPT ![q.asset] =
                         [assetRow[q.asset] EXCEPT !.key = q.own, !.content = q.content]]
      BY <1>8, <2>1, <2>3 DEF UpdateContent
    <3> QED
      BY <1>8, <2>1, <2>2, <3>1, <3>2 DEF UpdateContent
  <2> QED
    BY <1>8, <2>2, <2>3 DEF UpdateContent
<1>9. ASSUME NEW r \in AssetRequests, UpdateMetadata(r) \/ DeleteRow(r)
      PROVE  AssetTypeOK'
  BY <1>9 DEF UpdateMetadata, DeleteRow, Exists, Finish, AssetRows, Request, AssetSteps
<1>10. ASSUME NEW r \in AssetRequests, ServeAsset(r) \/ AssetRequestDies(r)
       PROVE  AssetTypeOK'
  BY <1>10 DEF ServeAsset, AssetRequestDies, Finish, Request
<1>11. ASSUME NEW a \in AssetIds, ArchiveAsset(a) \/ RestoreAsset(a)
       PROVE  AssetTypeOK'
  <2>1. assetRow[a] \in AssetRows
    BY <1>11 DEF ArchiveAsset, RestoreAsset, Exists
  <2>2. \A b \in BOOLEAN : [assetRow[a] EXCEPT !.archived = b] \in AssetRows
    BY <2>1 DEF AssetRows
  <2> QED
    BY <1>11, <2>2 DEF ArchiveAsset, RestoreAsset
<1>12. CASE UNCHANGED assetVars
  BY <1>12 DEF assetVars
<1> QED
  BY <1>1, <1>2, <1>3, <1>4, <1>5, <1>6, <1>7, <1>8, <1>9, <1>10, <1>11, <1>12 DEF AssetNext

(* Rows, objects and what requests are about to do keep their types.       *)
(* (asset-service.ts, asset-repository.ts)                                 *)
THEOREM AssetTypeCorrect == AssetSpec => []AssetTypeOK
<1>1. AssetInit => AssetTypeOK
  BY IdleRequestType DEF AssetInit, AssetTypeOK
<1> QED
  BY <1>1, AssetTypeStep, PTL DEF AssetSpec

-----------------------------------------------------------------------------
(* Why a row always has its object.  A request that has put an object owns *)
(* its key until it gives it to the row or discards it; a request that has *)
(* read a row holds the key it found; and once it is about to delete that  *)
(* object, no row points at it and none ever will again.                   *)

Owning == {"insert", "update", "discard"}
Holding == {"put", "update", "deleteOld", "deleteRow", "serve"}

RowBacked ==
  \A a \in AssetIds : Exists(a) =>
    /\ assetRow[a].key \in keysUsed
    /\ AssetOf(assetRow[a].key) = a
    /\ bucket[assetRow[a].key] = assetRow[a].content

OwnKeyPrivate ==
  \A r \in AssetRequests : assetReq[r].step \in Owning =>
    /\ assetReq[r].own \in keysUsed
    /\ AssetOf(assetReq[r].own) = assetReq[r].asset
    /\ assetReq[r].step # "discard" => bucket[assetReq[r].own] = assetReq[r].content
    /\ \A a \in AssetIds : Exists(a) => assetRow[a].key # assetReq[r].own
    /\ \A s \in AssetRequests :
         /\ s # r /\ assetReq[s].step \in Owning => assetReq[s].own # assetReq[r].own
         /\ assetReq[s].step \in Holding => assetReq[s].old # assetReq[r].own

OldKeyKnown ==
  \A r \in AssetRequests : assetReq[r].step \in Holding =>
    /\ assetReq[r].old \in keysUsed
    /\ AssetOf(assetReq[r].old) = assetReq[r].asset
    /\ assetReq[r].step = "deleteOld" =>
         \A a \in AssetIds : Exists(a) => assetRow[a].key # assetReq[r].old
    /\ assetReq[r].step = "serve" =>
         bucket[assetReq[r].old] \in {assetReq[r].content, "absent"}

AssetInv == AssetTypeOK /\ RowBacked /\ OwnKeyPrivate /\ OldKeyKnown

LEMMA AssetInvInit == AssetInit => AssetInv
BY IdleRequestType DEF AssetInit, AssetInv, AssetTypeOK, RowBacked, OwnKeyPrivate,
   OldKeyKnown, Owning, Holding, Exists

(* Every step keeps a row on its object, a request on its own key and on   *)
(* the key that it has read.                                               *)
LEMMA AssetInvStep ==
  ASSUME AssetInv, [AssetNext]_assetVars
  PROVE  AssetInv'
<1> AssetTypeOK /\ AssetTypeOK'
  BY AssetTypeStep DEF AssetInv
<1> USE IdleRequestType, AssetOfKey
        DEF AssetTypeOK, AssetInv, Owning, Holding, Request, Exists
<1>1. ASSUME NEW r \in AssetRequests, NEW fresh \in Keys, NEW c \in Contents,
             NEW whole \in BOOLEAN, NEW v \in Visibility,
             StartUpload(r, AssetOf(fresh), fresh, c, whole, v)
      PROVE  RowBacked' /\ OwnKeyPrivate' /\ OldKeyKnown'
  <2>1. RowBacked'
    BY <1>1 DEF StartUpload, PutAssetObject, RowBacked
  <2>2. OwnKeyPrivate'
    BY <1>1 DEF StartUpload, PutAssetObject, RowBacked, OwnKeyPrivate, OldKeyKnown
  <2>3. OldKeyKnown'
    BY <1>1 DEF StartUpload, PutAssetObject, OldKeyKnown
  <2> QED
    BY <2>1, <2>2, <2>3
<1>2. ASSUME NEW r \in AssetRequests, NEW fresh \in Keys, NEW c \in Contents,
             NEW whole \in BOOLEAN, PutReplacement(r, fresh, c, whole)
      PROVE  RowBacked' /\ OwnKeyPrivate' /\ OldKeyKnown'
  <2>1. RowBacked'
    BY <1>2 DEF PutReplacement, PutAssetObject, RowBacked
  <2>2. OwnKeyPrivate'
    BY <1>2 DEF PutReplacement, PutAssetObject, RowBacked, OwnKeyPrivate, OldKeyKnown
  <2>3. OldKeyKnown'
    BY <1>2 DEF PutReplacement, PutAssetObject, OldKeyKnown
  <2> QED
    BY <2>1, <2>2, <2>3
<1>3. ASSUME NEW r \in AssetRequests, NEW a \in AssetIds,
             ReadForReplace(r, a) \/ ReadForDelete(r, a)
      PROVE  RowBacked' /\ OwnKeyPrivate' /\ OldKeyKnown'
  <2>1. /\ assetReq'[r].step \in Holding \ {"deleteOld", "serve"}
        /\ assetReq'[r].step \notin Owning
        /\ assetReq'[r].asset = a
        /\ assetReq'[r].old = assetRow[a].key
    BY <1>3 DEF ReadForReplace, ReadForDelete
  <2>2. \A s \in AssetRequests : s # r => assetReq'[s] = assetReq[s]
    BY <1>3 DEF ReadForReplace, ReadForDelete
  <2>3. Exists(a) /\ UNCHANGED <<assetRow, bucket, keysUsed>>
    BY <1>3 DEF ReadForReplace, ReadForDelete
  <2>4. RowBacked'
    BY <2>3 DEF RowBacked
  <2>5. \A s \in AssetRequests : assetReq[s].step \in Owning => assetReq[s].own # assetRow[a].key
    BY <2>3 DEF OwnKeyPrivate
  <2>6. OwnKeyPrivate'
    BY <2>1, <2>2, <2>3, <2>5 DEF OwnKeyPrivate
  <2>7. OldKeyKnown'
    BY <2>1, <2>2, <2>3 DEF OldKeyKnown, RowBacked
  <2> QED
    BY <2>4, <2>6, <2>7
<1>4. ASSUME NEW r \in AssetRequests, NEW a \in AssetIds,
             NEW patch \in Visibility \cup {"unset"}, ReadForUpdate(r, a, patch)
      PROVE  RowBacked' /\ OwnKeyPrivate' /\ OldKeyKnown'
  BY <1>4 DEF ReadForUpdate, RowBacked, OwnKeyPrivate, OldKeyKnown
<1>5. ASSUME NEW r \in AssetRequests, NEW a \in AssetIds, NEW isMember \in BOOLEAN,
             FindAsset(r, a, isMember)
      PROVE  RowBacked' /\ OwnKeyPrivate' /\ OldKeyKnown'
  <2>1. /\ assetReq'[r].step = "serve"
        /\ assetReq'[r].asset = a
        /\ assetReq'[r].old = assetRow[a].key
        /\ assetReq'[r].content = assetRow[a].content
    BY <1>5 DEF FindAsset
  <2>2. \A s \in AssetRequests : s # r => assetReq'[s] = assetReq[s]
    BY <1>5 DEF FindAsset
  <2>3. Exists(a) /\ UNCHANGED <<assetRow, bucket, keysUsed>>
    BY <1>5 DEF FindAsset
  <2>4. RowBacked'
    BY <2>3 DEF RowBacked
  <2>5. OwnKeyPrivate'
    BY <2>1, <2>2, <2>3 DEF OwnKeyPrivate
  <2>6. OldKeyKnown'
    BY <2>1, <2>2, <2>3 DEF OldKeyKnown, RowBacked
  <2> QED
    BY <2>4, <2>5, <2>6
<1>6. ASSUME NEW r \in AssetRequests, DiscardObject(r) \/ DeleteOldObject(r)
      PROVE  RowBacked' /\ OwnKeyPrivate' /\ OldKeyKnown'
  <2> DEFINE k == IF assetReq[r].step = "discard" THEN assetReq[r].own ELSE assetReq[r].old
  <2>1. /\ k \in Keys
        /\ bucket' = [bucket EXCEPT ![k] = "absent"]
        /\ assetReq' = [assetReq EXCEPT ![r] = IdleRequest]
        /\ UNCHANGED <<assetRow, keysUsed>>
    BY <1>6 DEF DiscardObject, DeleteOldObject, Finish
  <2>2. \A a \in AssetIds : Exists(a) => assetRow[a].key # k
    BY <1>6 DEF DiscardObject, DeleteOldObject, OwnKeyPrivate, OldKeyKnown
  <2>3. \A s \in AssetRequests : s # r /\ assetReq[s].step \in Owning => assetReq[s].own # k
    BY <1>6 DEF DiscardObject, DeleteOldObject, OwnKeyPrivate
  <2>4. assetReq'[r].step = "idle" /\ \A s \in AssetRequests : s # r => assetReq'[s] = assetReq[s]
    BY <2>1
  <2> HIDE DEF k
  <2>5. RowBacked'
    BY <2>1, <2>2 DEF RowBacked, AssetRows
  <2>6. OwnKeyPrivate'
    BY <2>1, <2>3, <2>4 DEF OwnKeyPrivate
  <2>7. OldKeyKnown'
    BY <2>1, <2>4 DEF OldKeyKnown
  <2> QED
    BY <2>5, <2>6, <2>7
<1>7. ASSUME NEW r \in AssetRequests, InsertAsset(r)
      PROVE  RowBacked' /\ OwnKeyPrivate' /\ OldKeyKnown'
  BY <1>7 DEF InsertAsset, Finish, RowBacked, OwnKeyPrivate, OldKeyKnown
<1>8. ASSUME NEW r \in AssetRequests, UpdateContent(r)
      PROVE  RowBacked' /\ OwnKeyPrivate' /\ OldKeyKnown'
  <2>1. RowBacked'
    BY <1>8 DEF UpdateContent, RowBacked, OwnKeyPrivate, OldKeyKnown
  <2>2. OwnKeyPrivate'
    BY <1>8 DEF UpdateContent, RowBacked, OwnKeyPrivate, OldKeyKnown
  <2>3. OldKeyKnown'
    BY <1>8 DEF UpdateContent, RowBacked, OwnKeyPrivate, OldKeyKnown
  <2> QED
    BY <2>1, <2>2, <2>3
<1>9. ASSUME NEW r \in AssetRequests, UpdateMetadata(r)
      PROVE  RowBacked' /\ OwnKeyPrivate' /\ OldKeyKnown'
  BY <1>9 DEF UpdateMetadata, Finish, RowBacked, OwnKeyPrivate, OldKeyKnown
<1>10. ASSUME NEW r \in AssetRequests, DeleteRow(r)
       PROVE  RowBacked' /\ OwnKeyPrivate' /\ OldKeyKnown'
  <2>1. RowBacked'
    BY <1>10 DEF DeleteRow, RowBacked, OwnKeyPrivate, OldKeyKnown
  <2>2. OwnKeyPrivate'
    BY <1>10 DEF DeleteRow, RowBacked, OwnKeyPrivate, OldKeyKnown
  <2>3. OldKeyKnown'
    BY <1>10 DEF DeleteRow, RowBacked, OwnKeyPrivate, OldKeyKnown
  <2> QED
    BY <2>1, <2>2, <2>3
<1>11. ASSUME NEW r \in AssetRequests, ServeAsset(r) \/ AssetRequestDies(r)
       PROVE  RowBacked' /\ OwnKeyPrivate' /\ OldKeyKnown'
  BY <1>11 DEF ServeAsset, AssetRequestDies, Finish, RowBacked, OwnKeyPrivate, OldKeyKnown
<1>12. ASSUME NEW a \in AssetIds, ArchiveAsset(a) \/ RestoreAsset(a)
       PROVE  RowBacked' /\ OwnKeyPrivate' /\ OldKeyKnown'
  <2>1. /\ \A b \in AssetIds : (Exists(b) <=> Exists(b)')
        /\ \A b \in AssetIds : Exists(b) => /\ assetRow'[b].key = assetRow[b].key
                                            /\ assetRow'[b].content = assetRow[b].content
        /\ UNCHANGED <<bucket, keysUsed, assetReq>>
    <3>1. PICK archived \in BOOLEAN :
            assetRow' = [assetRow EXCEPT ![a] = [assetRow[a] EXCEPT !.archived = archived]]
      BY <1>12 DEF ArchiveAsset, RestoreAsset
    <3>2. Exists(a) /\ UNCHANGED <<bucket, keysUsed, assetReq>>
      BY <1>12 DEF ArchiveAsset, RestoreAsset
    <3>3. [assetRow[a] EXCEPT !.archived = archived] \in AssetRows
      BY <3>2 DEF AssetRows
    <3> QED
      BY <3>1, <3>2, <3>3, AssetsAssumption DEF AssetRows
  <2> QED
    BY <2>1 DEF RowBacked, OwnKeyPrivate, OldKeyKnown
<1>13. CASE UNCHANGED assetVars
  BY <1>13 DEF assetVars, RowBacked, OwnKeyPrivate, OldKeyKnown
<1> QED
  BY <1>1, <1>2, <1>3, <1>4, <1>5, <1>6, <1>7, <1>8, <1>9, <1>10, <1>11, <1>12, <1>13
     DEF AssetNext

(* Whatever uploads, replacements, deletions and readers interleave and    *)
(* die between their steps, an asset's row points at an object that holds  *)
(* what the row says, and a reader gets the object its row described or    *)
(* none.  (asset-service.ts: the object is put before the row names it,    *)
(* and the row is changed or deleted before the old object goes.)          *)
(* Whatever uploads, replacements, deletions and readers interleave and    *)
(* die between their steps, an asset's row points at an object that holds  *)
(* what the row says.  (asset-service.ts: put, then the row, then the old  *)
(* object; the row goes before its object.)                                *)
THEOREM RowsKeepTheirObject == AssetSpec => []RowHasObject
<1>1. AssetInv => RowHasObject
  BY DEF AssetInv, RowBacked, OldKeyKnown, RowHasObject, Holding
<1> QED
  BY <1>1, AssetInvInit, AssetInvStep, PTL DEF AssetSpec

-----------------------------------------------------------------------------
(* Deals.  The invariant adds that a request carries columns that are well  *)
(* formed in the pipeline there is.                                         *)

(* What a request carries follows from the step it is at.                  *)
LEMMA DealRequestFields ==
  ASSUME NEW q \in DealRequestState
  PROVE  /\ q.step \in {"insertDeal", "writeDeal"} => q.columns \in DealColumns
         /\ q.step \in {"writeDeal", "moveDeal", "insertTask"} => q.deal \in DealIds
         /\ q.step = "moveDeal" => q.stage \in Stages
         /\ q.step = "writeTask" => /\ q.task \in TaskIds
                                    /\ q.status \in TaskStatus
                                    /\ q.completedAt \in BOOLEAN
BY DEF DealRequestState, IdleDeal

LEMMA RequestAgain ==
  ASSUME DealTypeOK, NEW r \in DealRequests, NEW state \in DealRequestState,
         Continue(r, state)
  PROVE  /\ dealReq' \in [DealRequests -> DealRequestState]
         /\ dealReq'[r] = state
         /\ \A s \in DealRequests : s # r => dealReq'[s] = dealReq[s]
BY DEF DealTypeOK, Continue

LEMMA IdleIsRequest == IdleDeal \in DealRequestState /\ IdleDeal.step = "idle"
BY DEF DealRequestState, IdleDeal

LEMMA DealColumnsFields ==
  ASSUME NEW c \in DealColumns
  PROVE  /\ c.stage \in Stages /\ c.status \in DealStatus /\ c.value \in Values
         /\ c.wonAt \in BOOLEAN /\ c.lostAt \in BOOLEAN
BY DEF DealColumns

LEMMA DealRowFields ==
  ASSUME DealTypeOK, NEW d \in DealIds, deals[d] # Missing
  PROVE  deals[d] \in DealRow /\ deals[d].columns \in DealColumns /\ deals[d].archived \in BOOLEAN
BY DEF DealTypeOK, DealRow

-----------------------------------------------------------------------------
(* What a request is about to write is well formed where it was read, and  *)
(* stays so until it writes.                                               *)
ColumnsWellFormed(c, there) ==
  /\ c.stage[1] \in there
  /\ c.wonAt <=> c.status = "won"
  /\ c.lostAt <=> c.status = "lost"

RequestReady(q, there, rows) ==
  /\ q.step \in {"insertDeal", "writeDeal"} => ColumnsWellFormed(q.columns, there)
  /\ q.step = "moveDeal" => q.stage[1] \in there
  /\ q.step = "insertTask" => rows[q.deal] # Missing
  /\ q.step = "writeTask" => (q.completedAt <=> q.status = "completed")

RequestsReady == \A r \in DealRequests : RequestReady(dealReq[r], pipelines, deals)

DealInv == DealTypeOK /\ DealsConsistent /\ RequestsReady

LEMMA MergedColumns ==
  ASSUME NEW current \in DealColumns, NEW patch \in Patch, NEW there,
         ColumnsWellFormed(current, there),
         Keep(patch.stage, current.stage)[1] \in there
  PROVE  /\ Merged(current, patch) \in DealColumns
         /\ ColumnsWellFormed(Merged(current, patch), there)
<1> DEFINE status == Keep(patch.status, current.status)
<1>1. /\ status \in DealStatus
      /\ Keep(patch.stage, current.stage) \in Stages
      /\ Keep(patch.value, current.value) \in Values
  BY DealColumnsFields, DealsAssumption DEF Patch, Keep
<1>2. (status = "won" /\ (current.status = "won" => current.wonAt)) <=> status = "won"
  BY DEF ColumnsWellFormed
<1>3. (status = "lost" /\ (current.status = "lost" => current.lostAt)) <=> status = "lost"
  BY DEF ColumnsWellFormed
<1>4. /\ (status = "won" /\ (current.status = "won" => current.wonAt)) \in BOOLEAN
      /\ (status = "lost" /\ (current.status = "lost" => current.lostAt)) \in BOOLEAN
  OBVIOUS
<1> HIDE DEF status
<1> QED
  BY <1>1, <1>2, <1>3, <1>4 DEF Merged, DealColumns, ColumnsWellFormed, status

(* A request that reads goes on with what it has checked.                  *)
LEMMA DealReadKeeps ==
  ASSUME DealInv, NEW r \in DealRequests, NEW state \in DealRequestState,
         RequestReady(state, pipelines, deals),
         Continue(r, state), UNCHANGED <<pipelines, deals, tasks, archivedAs>>
  PROVE  DealInv'
<1>1. DealTypeOK'
  BY RequestAgain DEF DealInv, DealTypeOK
<1>2. DealsConsistent'
  BY DEF DealInv, DealsConsistent, OnePipeline, DealsWellFormed, ArchivedKept,
         TasksWellFormed, StageExists
<1>3. RequestsReady'
  <2> SUFFICES ASSUME NEW s \in DealRequests
               PROVE  RequestReady(dealReq[s], pipelines, deals)'
    BY DEF RequestsReady
  <2>1. dealReq'[s] = IF s = r THEN state ELSE dealReq[s]
    BY RequestAgain DEF DealInv
  <2>2. RequestReady(dealReq[s], pipelines, deals)
    BY DEF DealInv, RequestsReady
  <2> QED
    BY <2>1, <2>2 DEF RequestReady
<1> QED
  BY <1>1, <1>2, <1>3 DEF DealInv

(* A request that is over leaves the others ready: pipelines and deals     *)
(* stay once they are there.                                               *)
LEMMA DealWriteKeepsReady ==
  ASSUME DealInv, NEW r \in DealRequests, Continue(r, IdleDeal),
         pipelines \subseteq pipelines',
         \A d \in DealIds : deals[d] # Missing => deals'[d] # Missing
  PROVE  RequestsReady' /\ dealReq' \in [DealRequests -> DealRequestState]
<1> SUFFICES ASSUME NEW s \in DealRequests
             PROVE  RequestReady(dealReq[s], pipelines, deals)'
  BY IdleIsRequest, RequestAgain DEF RequestsReady, DealInv
<1>1. dealReq'[s] = IF s = r THEN IdleDeal ELSE dealReq[s]
  BY RequestAgain, IdleIsRequest DEF DealInv
<1>2. RequestReady(dealReq[s], pipelines, deals)
  BY DEF DealInv, RequestsReady
<1>3. dealReq[s] \in DealRequestState
  BY DEF DealInv, DealTypeOK
<1> QED
  BY <1>1, <1>2, <1>3, DealRequestFields, IdleIsRequest DEF RequestReady, ColumnsWellFormed

(* A row that is written keeps the deal well formed, when what is written  *)
(* is, and an archived row is left as it was.                              *)
LEMMA DealWriteKeeps ==
  ASSUME DealInv, NEW r \in DealRequests, NEW d \in DealIds, NEW row \in DealRow,
         ColumnsWellFormed(row.columns, pipelines), ~row.archived,
         deals' = [deals EXCEPT ![d] = row],
         Continue(r, IdleDeal), UNCHANGED <<pipelines, tasks, archivedAs>>
  PROVE  DealInv'
<1>1. /\ deals' \in [DealIds -> DealRow \cup {Missing}]
      /\ deals'[d] = row /\ row # Missing
      /\ \A e \in DealIds : e # d => deals'[e] = deals[e]
  BY DealsAssumption DEF DealInv, DealTypeOK
<1>2. RequestsReady' /\ dealReq' \in [DealRequests -> DealRequestState]
  BY <1>1, DealWriteKeepsReady
<1>3. DealTypeOK'
  BY <1>1, <1>2 DEF DealInv, DealTypeOK
<1>4. OnePipeline'
  BY DEF DealInv, DealsConsistent, OnePipeline
<1>5. DealsWellFormed'
  BY <1>1 DEF DealInv, DealsConsistent, DealsWellFormed, ColumnsWellFormed, StageExists
<1>6. ArchivedKept'
  BY <1>1 DEF DealInv, DealsConsistent, ArchivedKept
<1>7. TasksWellFormed'
  BY <1>1 DEF DealInv, DealsConsistent, TasksWellFormed, DealTypeOK, TaskRow
<1> QED
  BY <1>2, <1>3, <1>4, <1>5, <1>6, <1>7 DEF DealInv, DealsConsistent

LEMMA NothingWrittenKeeps ==
  ASSUME DealInv, NEW r \in DealRequests, Continue(r, IdleDeal),
         UNCHANGED <<pipelines, deals, tasks, archivedAs>>
  PROVE  DealInv'
<1>1. RequestReady(IdleDeal, pipelines, deals)
  BY DEF RequestReady, IdleDeal
<1> QED
  BY <1>1, DealReadKeeps, IdleIsRequest

(* The task rows, when one is written for a deal there is.                 *)
LEMMA TaskWriteKeeps ==
  ASSUME DealInv, NEW r \in DealRequests, NEW t \in TaskIds, NEW row \in TaskRow,
         deals[row.deal] # Missing, row.completedAt <=> row.status = "completed",
         tasks' = [tasks EXCEPT ![t] = row],
         Continue(r, IdleDeal), UNCHANGED <<pipelines, deals, archivedAs>>
  PROVE  DealInv'
<1>1. /\ tasks' \in [TaskIds -> TaskRow \cup {Missing}]
      /\ \A u \in TaskIds : tasks'[u] = IF u = t THEN row ELSE tasks[u]
  BY DEF DealInv, DealTypeOK
<1>2. RequestsReady' /\ dealReq' \in [DealRequests -> DealRequestState]
  BY DealWriteKeepsReady
<1>3. DealTypeOK'
  BY <1>1, <1>2 DEF DealInv, DealTypeOK
<1>4. OnePipeline' /\ DealsWellFormed' /\ ArchivedKept'
  BY DEF DealInv, DealsConsistent, OnePipeline, DealsWellFormed, ArchivedKept, StageExists
<1>5. TasksWellFormed'
  BY <1>1 DEF DealInv, DealsConsistent, TasksWellFormed
<1> QED
  BY <1>2, <1>3, <1>4, <1>5 DEF DealInv, DealsConsistent

LEMMA DealInvInit == DealInit => DealInv
BY IdleIsRequest DEF DealInit, DealInv, DealTypeOK, DealsConsistent, OnePipeline,
   DealsWellFormed, ArchivedKept, TasksWellFormed, RequestsReady, RequestReady

LEMMA DealInvStep ==
  ASSUME DealInv, [DealNext]_dealVars
  PROVE  DealInv'
<1>1. ASSUME NEW r \in DealRequests, FindDefaultPipeline(r)
      PROVE  DealInv'
  <2>1. [step |-> "seed"] \in DealRequestState
    BY DEF DealRequestState
  <2>2. RequestReady([step |-> "seed"], pipelines, deals)
    BY DEF RequestReady
  <2> QED
    BY <1>1, <2>1, <2>2, DealReadKeeps DEF FindDefaultPipeline
<1>2. ASSUME NEW r \in DealRequests, NEW p \in PipelineIds, SeedPipeline(r, p)
      PROVE  DealInv'
  <2>1. /\ pipelines \subseteq pipelines' /\ pipelines' \subseteq PipelineIds
        /\ UNCHANGED <<deals, tasks, archivedAs>>
    BY <1>2 DEF SeedPipeline, DealInv, DealTypeOK
  <2>2. RequestsReady' /\ dealReq' \in [DealRequests -> DealRequestState]
    BY <1>2, <2>1, DealWriteKeepsReady DEF SeedPipeline
  <2>3. OnePipeline'
    BY <1>2 DEF SeedPipeline, DealInv, DealsConsistent, OnePipeline
  <2>4. DealsWellFormed' /\ ArchivedKept' /\ TasksWellFormed'
    BY <2>1 DEF DealInv, DealsConsistent, DealsWellFormed, ArchivedKept, TasksWellFormed, StageExists
  <2> QED
    BY <2>1, <2>2, <2>3, <2>4 DEF DealInv, DealTypeOK, DealsConsistent
<1>3. ASSUME NEW r \in DealRequests, NEW stage \in Stages, NEW status \in DealStatus,
             NEW value \in Values, CheckDeal(r, stage, status, value)
      PROVE  DealInv'
  <2> DEFINE columns == [stage |-> stage, status |-> status, value |-> value,
                         wonAt |-> status = "won", lostAt |-> status = "lost"]
             state == [step |-> "insertDeal", columns |-> columns]
  <2>1. columns \in DealColumns /\ ColumnsWellFormed(columns, pipelines)
    BY <1>3 DEF DealColumns, ColumnsWellFormed, CheckDeal, StageExists
  <2> HIDE DEF columns
  <2>2. state \in DealRequestState
    BY <2>1 DEF DealRequestState
  <2>3. RequestReady(state, pipelines, deals)
    BY <2>1 DEF RequestReady
  <2>4. Continue(r, state) /\ UNCHANGED <<pipelines, deals, tasks, archivedAs>>
    BY <1>3 DEF CheckDeal, columns
  <2> QED
    BY <2>2, <2>3, <2>4, DealReadKeeps
<1>4. ASSUME NEW r \in DealRequests, NEW d \in DealIds, InsertDeal(r, d)
      PROVE  DealInv'
  <2> DEFINE row == [columns |-> dealReq[r].columns, archived |-> FALSE]
  <2>1. Step(r) = "insertDeal" /\ dealReq[r].step = "insertDeal"
    BY <1>4 DEF InsertDeal, Step
  <2>2. dealReq[r].columns \in DealColumns
    BY <2>1, DealRequestFields DEF DealInv, DealTypeOK
  <2>3. ColumnsWellFormed(dealReq[r].columns, pipelines)
    BY <2>1 DEF DealInv, RequestsReady, RequestReady
  <2>4. row \in DealRow /\ row.columns = dealReq[r].columns /\ ~row.archived
    BY <2>2 DEF DealRow
  <2>5. deals' = [deals EXCEPT ![d] = row]
    BY <1>4 DEF InsertDeal
  <2> HIDE DEF row
  <2> QED
    BY <1>4, <2>3, <2>4, <2>5, DealWriteKeeps DEF InsertDeal
<1>5. ASSUME NEW r \in DealRequests, NEW d \in DealIds, CheckTask(r, d)
      PROVE  DealInv'
  <2> DEFINE state == [step |-> "insertTask", deal |-> d]
  <2>1. state \in DealRequestState
    BY DEF DealRequestState
  <2>2. RequestReady(state, pipelines, deals)
    BY <1>5 DEF RequestReady, CheckTask, Open
  <2> QED
    BY <1>5, <2>1, <2>2, DealReadKeeps DEF CheckTask
<1>6. ASSUME NEW r \in DealRequests, NEW d \in DealIds, NEW patch \in Patch, ReadDeal(r, d, patch)
      PROVE  DealInv'
  <2> DEFINE columns == Merged(deals[d].columns, patch)
             state == [step |-> "writeDeal", deal |-> d, columns |-> columns]
  <2>1. deals[d] # Missing /\ deals[d].columns \in DealColumns
    BY <1>6, DealRowFields DEF ReadDeal, Open, DealInv
  <2>2. ColumnsWellFormed(deals[d].columns, pipelines)
    BY <2>1 DEF DealInv, DealsConsistent, DealsWellFormed, ColumnsWellFormed, StageExists
  <2>3. Keep(patch.stage, deals[d].columns.stage)[1] \in pipelines
    BY <1>6 DEF ReadDeal, StageExists
  <2>4. columns \in DealColumns /\ ColumnsWellFormed(columns, pipelines)
    BY <2>1, <2>2, <2>3, MergedColumns
  <2> HIDE DEF columns
  <2>5. state \in DealRequestState
    BY <2>4 DEF DealRequestState
  <2>6. RequestReady(state, pipelines, deals)
    BY <2>4 DEF RequestReady
  <2>7. Continue(r, state) /\ UNCHANGED <<pipelines, deals, tasks, archivedAs>>
    BY <1>6 DEF ReadDeal, columns
  <2> QED
    BY <2>5, <2>6, <2>7, DealReadKeeps
<1>7. ASSUME NEW r \in DealRequests, NEW d \in DealIds, NEW stage \in Stages,
             ReadForMove(r, d, stage)
      PROVE  DealInv'
  <2> DEFINE state == [step |-> "moveDeal", deal |-> d, stage |-> stage]
  <2>1. state \in DealRequestState
    BY DEF DealRequestState
  <2>2. stage[1] \in pipelines
    BY <1>7 DEF ReadForMove, Open, DealInv, DealsConsistent, DealsWellFormed, StageExists
  <2>3. RequestReady(state, pipelines, deals)
    BY <2>2 DEF RequestReady
  <2> QED
    BY <1>7, <2>1, <2>3, DealReadKeeps DEF ReadForMove
<1>8. ASSUME NEW r \in DealRequests, NEW t \in TaskIds, InsertTask(r, t)
      PROVE  DealInv'
  <2> DEFINE row == [deal |-> dealReq[r].deal, status |-> "open", completedAt |-> FALSE]
  <2>1. dealReq[r].step = "insertTask"
    BY <1>8 DEF InsertTask, Step
  <2>2. row \in TaskRow
    BY <2>1, DealRequestFields DEF TaskRow, TaskStatus, DealInv, DealTypeOK
  <2>3. deals[row.deal] # Missing
    BY <2>1 DEF DealInv, RequestsReady, RequestReady
  <2> QED
    BY <1>8, <2>2, <2>3, TaskWriteKeeps DEF InsertTask
<1>9. ASSUME NEW r \in DealRequests, NEW t \in TaskIds, NEW patch \in TaskStatus \cup {Unset},
             ReadTask(r, t, patch)
      PROVE  DealInv'
  <2> DEFINE status == Keep(patch, tasks[t].status)
             completed == status = "completed"
                          /\ (tasks[t].status = "completed" => tasks[t].completedAt)
             state == [step |-> "writeTask", task |-> t, status |-> status,
                       completedAt |-> completed]
  <2>1. tasks[t] \in TaskRow
    BY <1>9 DEF ReadTask, DealInv, DealTypeOK
  <2>2. status \in TaskStatus
    BY <2>1, DealsAssumption DEF Keep, TaskRow
  <2>3. completed <=> status = "completed"
    BY <1>9 DEF ReadTask, DealInv, DealsConsistent, TasksWellFormed
  <2>4. completed \in BOOLEAN
    OBVIOUS
  <2>5. Continue(r, state) /\ UNCHANGED <<pipelines, deals, tasks, archivedAs>>
    BY <1>9 DEF ReadTask
  <2> HIDE DEF status, completed
  <2>6. state \in DealRequestState
    BY <2>2, <2>4 DEF DealRequestState
  <2>7. RequestReady(state, pipelines, deals)
    BY <2>3 DEF RequestReady
  <2> QED
    BY <2>5, <2>6, <2>7, DealReadKeeps
<1>10. ASSUME NEW r \in DealRequests, WriteDeal(r)
       PROVE  DealInv'
  <2> DEFINE d == dealReq[r].deal
             row == [deals[d] EXCEPT !.columns = dealReq[r].columns]
  <2>1. dealReq[r].step = "writeDeal"
    BY <1>10 DEF WriteDeal, Step
  <2>2. d \in DealIds /\ dealReq[r].columns \in DealColumns
    BY <2>1, DealRequestFields DEF DealInv, DealTypeOK
  <2>3. ColumnsWellFormed(dealReq[r].columns, pipelines)
    BY <2>1 DEF DealInv, RequestsReady, RequestReady
  <2>4. CASE Open(d)
    <3>1. deals[d] \in DealRow /\ ~deals[d].archived
      BY <2>2, <2>4, DealRowFields DEF Open, DealInv
    <3>2. row \in DealRow /\ row.columns = dealReq[r].columns /\ ~row.archived
      BY <2>2, <3>1 DEF DealRow
    <3>3. deals' = [deals EXCEPT ![d] = row]
      BY <1>10, <2>4 DEF WriteDeal
    <3> HIDE DEF row
    <3> QED
      BY <1>10, <2>2, <2>3, <3>2, <3>3, DealWriteKeeps DEF WriteDeal
  <2>5. CASE ~Open(d)
    BY <1>10, <2>5, NothingWrittenKeeps DEF WriteDeal
  <2> QED
    BY <2>4, <2>5
<1>11. ASSUME NEW r \in DealRequests, MoveDeal(r)
       PROVE  DealInv'
  <2> DEFINE d == dealReq[r].deal
             columns == [deals[d].columns EXCEPT !.stage = dealReq[r].stage]
             row == [deals[d] EXCEPT !.columns = columns]
  <2>1. dealReq[r].step = "moveDeal"
    BY <1>11 DEF MoveDeal, Step
  <2>2. d \in DealIds /\ dealReq[r].stage \in Stages
    BY <2>1, DealRequestFields DEF DealInv, DealTypeOK
  <2>3. dealReq[r].stage[1] \in pipelines
    BY <2>1 DEF DealInv, RequestsReady, RequestReady
  <2>4. CASE Open(d)
    <3>1. /\ deals[d] # Missing /\ deals[d] \in DealRow /\ ~deals[d].archived
          /\ deals[d].columns \in DealColumns
      BY <2>2, <2>4, DealRowFields DEF Open, DealInv
    <3>2. ColumnsWellFormed(deals[d].columns, pipelines)
      BY <2>2, <3>1 DEF DealInv, DealsConsistent, DealsWellFormed, ColumnsWellFormed, StageExists
    <3>3. columns \in DealColumns /\ ColumnsWellFormed(columns, pipelines)
      BY <2>2, <2>3, <3>1, <3>2 DEF DealColumns, ColumnsWellFormed
    <3>4. deals' = [deals EXCEPT ![d] = row]
      BY <1>11, <2>4 DEF MoveDeal
    <3> HIDE DEF columns
    <3>5. row \in DealRow /\ row.columns = columns /\ ~row.archived
      BY <3>1, <3>3 DEF DealRow
    <3> HIDE DEF row
    <3> QED
      BY <1>11, <2>2, <3>3, <3>4, <3>5, DealWriteKeeps DEF MoveDeal
  <2>5. CASE ~Open(d)
    BY <1>11, <2>5, NothingWrittenKeeps DEF MoveDeal
  <2> QED
    BY <2>4, <2>5
<1>12. ASSUME NEW r \in DealRequests, WriteTask(r)
       PROVE  DealInv'
  <2> DEFINE t == dealReq[r].task
             row == [tasks[t] EXCEPT !.status = dealReq[r].status,
                                     !.completedAt = dealReq[r].completedAt]
  <2>1. dealReq[r].step = "writeTask"
    BY <1>12 DEF WriteTask, Step
  <2>2. /\ t \in TaskIds /\ dealReq[r].status \in TaskStatus
        /\ dealReq[r].completedAt \in BOOLEAN
    BY <2>1, DealRequestFields DEF DealInv, DealTypeOK
  <2>3. dealReq[r].completedAt <=> dealReq[r].status = "completed"
    BY <2>1 DEF DealInv, RequestsReady, RequestReady
  <2>4. CASE tasks[t] # Missing
    <3>1. tasks[t] \in TaskRow /\ deals[tasks[t].deal] # Missing
      BY <2>2, <2>4 DEF DealInv, DealTypeOK, DealsConsistent, TasksWellFormed
    <3>2. /\ row \in TaskRow /\ row.deal = tasks[t].deal
          /\ row.status = dealReq[r].status /\ row.completedAt = dealReq[r].completedAt
      BY <2>2, <3>1 DEF TaskRow
    <3>3. tasks' = [tasks EXCEPT ![t] = row]
      BY <1>12, <2>4 DEF WriteTask
    <3> HIDE DEF row
    <3>4. deals[row.deal] # Missing /\ (row.completedAt <=> row.status = "completed")
      BY <2>3, <3>1, <3>2
    <3>5. Continue(r, IdleDeal) /\ UNCHANGED <<pipelines, deals, archivedAs>>
      BY <1>12 DEF WriteTask
    <3> HIDE DEF t
    <3> QED
      BY <2>2, <3>2, <3>3, <3>4, <3>5, TaskWriteKeeps
  <2>5. CASE tasks[t] = Missing
    BY <1>12, <2>5, NothingWrittenKeeps DEF WriteTask
  <2> QED
    BY <2>4, <2>5
<1>13. ASSUME NEW r \in DealRequests, DealRequestDies(r)
       PROVE  DealInv'
  BY <1>13, NothingWrittenKeeps DEF DealRequestDies
<1>14. ASSUME NEW d \in DealIds, ArchiveDeal(d)
       PROVE  DealInv'
  <2> DEFINE row == [deals[d] EXCEPT !.archived = TRUE]
  <2>1. deals[d] # Missing /\ deals[d] \in DealRow /\ deals[d].columns \in DealColumns
    BY <1>14, DealRowFields DEF ArchiveDeal, Open, DealInv
  <2>2. row \in DealRow /\ row.columns = deals[d].columns /\ row.archived
    BY <2>1 DEF DealRow
  <2>3. deals' = [deals EXCEPT ![d] = row]
    BY <1>14 DEF ArchiveDeal
  <2> HIDE DEF row
  <2>4. /\ deals' \in [DealIds -> DealRow \cup {Missing}]
        /\ deals'[d] = row /\ row # Missing
        /\ \A e \in DealIds : e # d => deals'[e] = deals[e]
    BY <2>2, <2>3, DealsAssumption DEF DealInv, DealTypeOK
  <2>5. archivedAs' = [archivedAs EXCEPT ![d] = row.columns]
        /\ UNCHANGED <<pipelines, tasks, dealReq>>
    BY <1>14, <2>2 DEF ArchiveDeal
  <2>6. DealTypeOK'
    BY <2>1, <2>2, <2>4, <2>5 DEF DealInv, DealTypeOK
  <2>7. OnePipeline' /\ DealsWellFormed'
    BY <2>1, <2>2, <2>4, <2>5 DEF DealInv, DealsConsistent, OnePipeline, DealsWellFormed, StageExists
  <2>8. ArchivedKept'
    BY <2>2, <2>4, <2>5 DEF DealInv, DealTypeOK, DealsConsistent, ArchivedKept
  <2>9. TasksWellFormed'
    BY <2>4, <2>5 DEF DealInv, DealTypeOK, TaskRow, DealsConsistent, TasksWellFormed
  <2>10. RequestsReady'
    <3> SUFFICES ASSUME NEW s \in DealRequests
                 PROVE  RequestReady(dealReq[s], pipelines, deals)'
      BY DEF RequestsReady
    <3>1. RequestReady(dealReq[s], pipelines, deals) /\ dealReq[s] \in DealRequestState
      BY DEF DealInv, DealTypeOK, RequestsReady
    <3> QED
      BY <2>4, <2>5, <3>1, DealRequestFields DEF RequestReady
  <2> QED
    BY <2>6, <2>7, <2>8, <2>9, <2>10 DEF DealInv, DealsConsistent
<1>15. ASSUME NEW t \in TaskIds, DeleteTask(t)
       PROVE  DealInv'
  <2>1. UNCHANGED <<pipelines, deals, archivedAs, dealReq>>
    BY <1>15 DEF DeleteTask
  <2>2. tasks' = [tasks EXCEPT ![t] = Missing]
    BY <1>15 DEF DeleteTask
  <2>3. DealTypeOK'
    BY <2>1, <2>2 DEF DealInv, DealTypeOK
  <2>4. OnePipeline' /\ DealsWellFormed' /\ ArchivedKept'
    BY <2>1 DEF DealInv, DealsConsistent, OnePipeline, DealsWellFormed, ArchivedKept, StageExists
  <2>5. TasksWellFormed'
    BY <2>1, <2>2 DEF DealInv, DealTypeOK, DealsConsistent, TasksWellFormed
  <2>6. RequestsReady'
    BY <2>1 DEF DealInv, RequestsReady
  <2> QED
    BY <2>3, <2>4, <2>5, <2>6 DEF DealInv, DealsConsistent
<1>16. CASE UNCHANGED dealVars
  BY <1>16 DEF dealVars, DealInv, DealTypeOK, DealsConsistent, OnePipeline, DealsWellFormed,
     ArchivedKept, TasksWellFormed, RequestsReady, StageExists
<1> QED
  BY <1>1, <1>2, <1>3, <1>4, <1>5, <1>6, <1>7, <1>8, <1>9, <1>10, <1>11, <1>12, <1>13,
     <1>14, <1>15, <1>16 DEF DealNext

(* Pipelines, deals, tasks and what requests carry keep their types.       *)
(* (deals/service.ts, deals/repository.ts)                                 *)
THEOREM DealTypeCorrect == DealSpec => []DealTypeOK
<1>1. DealInv => DealTypeOK
  BY DEF DealInv
<1> QED
  BY <1>1, DealInvInit, DealInvStep, PTL DEF DealSpec

(* However first visits race there is one pipeline; a deal stands in a     *)
(* stage of it, with the closing time of its status and no other; an       *)
(* archived deal is never changed again; and a task has a time of          *)
(* completion exactly when it is completed - though requests read the rows *)
(* they write in statements of their own.  (deals/service.ts)              *)
THEOREM DealsAlwaysConsistent == DealSpec => []DealsConsistent
<1>1. DealInv => DealsConsistent
  BY DEF DealInv
<1> QED
  BY <1>1, DealInvInit, DealInvStep, PTL DEF DealSpec

-----------------------------------------------------------------------------
(* WorkspaceAccess.  The invariant follows a token from the request that    *)
(* prepares it to the one that takes its row away.                          *)

(* What an attempt must agree with in the row it was confirmed from.       *)
AttemptMatches(a, row) ==
  /\ [workspace |-> a.workspace, key |-> a.key, enrollment |-> a.enrollment,
      expires |-> row.expires] = row
  /\ a.at < row.expires
  /\ HasWorkspaceRole(a.role, "marketer")

(* A token that can still be confirmed is as it was prepared and nothing   *)
(* was attempted on it; one that was confirmed belongs to one request.     *)
TokenUnspent ==
  \A t \in Tokens : confirmation[t] # None =>
    /\ confirmation[t] = prepared[t]
    /\ attempted[t] = {}
    /\ \A r \in AccessRequests : In(r, "enroll") => accessReq[r].attempt.token # t

EnrollmentOwned ==
  \A r \in AccessRequests : In(r, "enroll") =>
    LET a == accessReq[r].attempt
    IN /\ prepared[a.token] # None
       /\ AttemptMatches(a, prepared[a.token])
       /\ attempted[a.token] = {}
       /\ \A s \in AccessRequests : s # r /\ In(s, "enroll") =>
            accessReq[s].attempt.token # a.token

AttemptedOnce ==
  \A t \in Tokens : attempted[t] # {} =>
    \E x : /\ attempted[t] = {x}
           /\ prepared[t] # None
           /\ AttemptMatches(x[1], prepared[t])

AccessTyped ==
  /\ AccessTypeOK
  /\ attempted \in [Tokens -> SUBSET (Attempt \X {0, 1})]

AccessInv ==
  AccessTyped /\ TokenUnspent /\ EnrollmentOwned /\ AttemptedOnce /\ ConversationPrivate

LEMMA AccessIdleState ==
  AccessIdle \in AccessState /\ AccessIdle.step = "idle"
BY DEF AccessIdle, AccessState

LEMMA AccessStateFields ==
  ASSUME NEW q \in AccessState
  PROVE  /\ q.step \in {"tool", "member"} => q.workspace \in Workspaces /\ q.role \in RolesGiven
         /\ q.step = "tool" => q.key \in ApiKeys
         /\ q.step = "member" => q.user \in Users
         /\ q.step = "enroll" => q.attempt \in Attempt
BY DEF AccessState, AccessIdle

LEMMA ResumeFields ==
  ASSUME AccessTypeOK, NEW r \in AccessRequests, NEW state \in AccessState, Resume(r, state)
  PROVE  /\ accessReq' \in [AccessRequests -> AccessState]
         /\ accessReq'[r] = state
         /\ \A s \in AccessRequests : s # r => accessReq'[s] = accessReq[s]
BY DEF AccessTypeOK, Resume

LEMMA AccessInvInit == AccessInit => AccessInv
<1> SUFFICES ASSUME AccessInit PROVE AccessInv
  OBVIOUS
<1>1. clock \in 0 .. MaxClock
  BY AccessAssumption DEF AccessInit
<1>2. AccessTyped
  BY <1>1, AccessIdleState DEF AccessInit, AccessTyped, AccessTypeOK
<1> QED
  BY <1>2, AccessIdleState DEF AccessInit, AccessInv, TokenUnspent, EnrollmentOwned, AttemptedOnce,
     ConversationPrivate, In

(* A step that only moves one request on, to no enrollment.                *)
LEMMA MovesOn ==
  ASSUME AccessInv, NEW r \in AccessRequests, NEW state \in AccessState,
         state.step # "enroll", Resume(r, state), UNCHANGED <<confirmation, prepared, attempted>>
  PROVE  /\ accessReq' \in [AccessRequests -> AccessState]
         /\ TokenUnspent' /\ EnrollmentOwned' /\ AttemptedOnce'
<1>1. /\ accessReq' \in [AccessRequests -> AccessState]
      /\ accessReq'[r] = state
      /\ \A s \in AccessRequests : s # r => accessReq'[s] = accessReq[s]
  BY ResumeFields DEF AccessInv, AccessTyped
<1>2. \A s \in AccessRequests : In(s, "enroll")' => s # r /\ In(s, "enroll") /\ accessReq'[s] = accessReq[s]
  BY <1>1 DEF In
<1>3. TokenUnspent'
  BY <1>2 DEF AccessInv, TokenUnspent
<1>4. EnrollmentOwned'
  BY <1>2 DEF AccessInv, EnrollmentOwned
<1>5. AttemptedOnce'
  BY DEF AccessInv, AttemptedOnce
<1> QED
  BY <1>1, <1>3, <1>4, <1>5

LEMMA AccessInvStep ==
  ASSUME AccessInv, [AccessNext]_accessVars
  PROVE  AccessInv'
<1> USE DEF rowVars, accessHistory
<1>t. AccessTypeOK /\ AccessTyped
  BY DEF AccessInv, AccessTyped
<1>1. CASE Tick
  <2>1. clock' \in 0 .. MaxClock
    BY <1>1, <1>t, AccessAssumption DEF Tick, AccessTypeOK
  <2> QED
    BY <1>1, <2>1 DEF Tick, AccessInv, AccessTyped, AccessTypeOK, TokenUnspent, EnrollmentOwned,
       AttemptedOnce, ConversationPrivate, In
<1>2. CASE PurgeExpiredIdempotencyKeys
  <2>1. /\ confirmation' \in [Tokens -> TokenRow \cup {None}]
        /\ \A t \in Tokens : confirmation'[t] # None => confirmation'[t] = confirmation[t]
        /\ UNCHANGED <<clock, member, apiKey, conversation, accessReq, accessHistory>>
    BY <1>2, <1>t DEF PurgeExpiredIdempotencyKeys, AccessTypeOK
  <2> QED
    BY <2>1 DEF AccessInv, AccessTyped, AccessTypeOK, TokenUnspent, EnrollmentOwned,
       AttemptedOnce, ConversationPrivate, In
<1>3. ASSUME NEW r \in AccessRequests, EndRequest(r)
      PROVE  AccessInv'
  <2>1. /\ Resume(r, AccessIdle)
        /\ UNCHANGED <<clock, rowVars, accessHistory>>
    BY <1>3 DEF EndRequest
  <2>2. /\ accessReq' \in [AccessRequests -> AccessState]
        /\ TokenUnspent' /\ EnrollmentOwned' /\ AttemptedOnce'
    BY <2>1, AccessIdleState, MovesOn
  <2> QED
    BY <2>1, <2>2 DEF AccessInv, AccessTyped, AccessTypeOK, ConversationPrivate
<1>4. ASSUME NEW r \in AccessRequests, EnrollContactManually(r)
      PROVE  AccessInv'
  <2> DEFINE a == accessReq[r].attempt
             x == <<a, 0>>
  <2>1. In(r, "enroll") /\ a \in Attempt /\ a.token \in Tokens
    BY <1>4, <1>t, AccessStateFields DEF EnrollContactManually, AccessTypeOK, In, Attempt
  <2>2. attempted[a.token] = {}
    BY <2>1 DEF AccessInv, EnrollmentOwned
  <2>3. attempted' = [attempted EXCEPT ![a.token] = {x}]
    BY <1>4, <2>2 DEF EnrollContactManually
  <2>4. /\ attempted' \in [Tokens -> SUBSET (Attempt \X {0, 1})]
        /\ attempted'[a.token] = {x}
        /\ \A t \in Tokens : t # a.token => attempted'[t] = attempted[t]
    BY <1>t, <2>1, <2>3 DEF AccessTyped
  <2>5. /\ Resume(r, AccessIdle)
        /\ UNCHANGED <<clock, rowVars, prepared, forwarded>>
    BY <1>4 DEF EnrollContactManually
  <2>6. /\ accessReq' \in [AccessRequests -> AccessState]
        /\ accessReq'[r] = AccessIdle
        /\ \A s \in AccessRequests : s # r => accessReq'[s] = accessReq[s]
    BY <1>t, <2>5, AccessIdleState, ResumeFields
  <2>7. AccessTyped'
    BY <1>t, <2>4, <2>5, <2>6 DEF AccessTyped, AccessTypeOK
  <2>8. TokenUnspent'
    BY <2>1, <2>4, <2>5, <2>6, AccessIdleState DEF AccessInv, TokenUnspent, In
  <2>9. EnrollmentOwned'
    <3> SUFFICES ASSUME NEW s \in AccessRequests, In(s, "enroll")'
                 PROVE  LET b == accessReq[s].attempt
                        IN  (/\ prepared[b.token] # None
                             /\ AttemptMatches(b, prepared[b.token])
                             /\ attempted[b.token] = {}
                             /\ \A q \in AccessRequests : q # s /\ In(q, "enroll") =>
                                  accessReq[q].attempt.token # b.token)'
      BY DEF EnrollmentOwned
    <3>1. s # r /\ In(s, "enroll") /\ accessReq'[s] = accessReq[s]
      BY <2>6, AccessIdleState DEF In
    <3>2. accessReq[s].attempt.token \in Tokens
      BY <1>t, <3>1, AccessStateFields DEF AccessTypeOK, In, Attempt
    <3>3. accessReq[s].attempt.token # a.token
      BY <2>1, <3>1 DEF AccessInv, EnrollmentOwned
    <3>4. \A q \in AccessRequests : In(q, "enroll")' => q # r /\ In(q, "enroll")
                                                       /\ accessReq'[q] = accessReq[q]
      BY <2>6, AccessIdleState DEF In
    <3> QED
      BY <2>4, <2>5, <3>1, <3>2, <3>3, <3>4 DEF AccessInv, EnrollmentOwned
  <2>10. AttemptedOnce'
    <3>1. x[1] = a /\ prepared[a.token] # None /\ AttemptMatches(a, prepared[a.token])
      BY <2>1 DEF AccessInv, EnrollmentOwned
    <3> HIDE DEF x, a
    <3> QED
      BY <2>1, <2>4, <2>5, <3>1 DEF AccessInv, AttemptedOnce
  <2> QED
    BY <2>5, <2>7, <2>8, <2>9, <2>10 DEF AccessInv, ConversationPrivate
<1>5. ASSUME NEW r \in AccessRequests, NEW k \in ApiKeys, ResolveApiKey(r, k)
      PROVE  AccessInv'
  <2> DEFINE state == [step |-> "tool", workspace |-> apiKey[k].workspace,
                       role |-> apiKey[k].role, key |-> k]
  <2>1. Resume(r, state) /\ UNCHANGED <<clock, rowVars, accessHistory>>
    BY <1>5 DEF ResolveApiKey
  <2>2. apiKey[k] \in KeyRow
    BY <1>5, <1>t DEF ResolveApiKey, AccessTypeOK
  <2>3. state \in AccessState
    BY <2>2 DEF KeyRow, AccessState
  <2>4. /\ accessReq' \in [AccessRequests -> AccessState]
        /\ TokenUnspent' /\ EnrollmentOwned' /\ AttemptedOnce'
    BY <2>1, <2>3, MovesOn
  <2> QED
    BY <2>1, <2>4 DEF AccessInv, AccessTyped, AccessTypeOK, ConversationPrivate
<1>6. ASSUME NEW r \in AccessRequests, NEW u \in Users, NEW w \in Workspaces,
             ResolveMemberContext(r, u, w)
      PROVE  AccessInv'
  <2> DEFINE state == [step |-> "member", workspace |-> w, role |-> member[u][w], user |-> u]
  <2>1. Resume(r, state) /\ UNCHANGED <<clock, rowVars, accessHistory>>
    BY <1>6 DEF ResolveMemberContext
  <2>2. member[u][w] \in RolesGiven
    BY <1>6, <1>t DEF ResolveMemberContext, AccessTypeOK
  <2>3. state \in AccessState
    BY <2>2 DEF AccessState
  <2>4. /\ accessReq' \in [AccessRequests -> AccessState]
        /\ TokenUnspent' /\ EnrollmentOwned' /\ AttemptedOnce'
    BY <2>1, <2>3, MovesOn
  <2> QED
    BY <2>1, <2>4 DEF AccessInv, AccessTyped, AccessTypeOK, ConversationPrivate
<1>7. ASSUME NEW r \in AccessRequests, NEW k \in ApiKeys, NEW role \in RolesGiven,
             NEW expires \in 1 .. MaxClock + 1, CreateApiKey(r, k, role, expires)
      PROVE  AccessInv'
  <2> DEFINE row == [workspace |-> accessReq[r].workspace, role |-> role, expires |-> expires]
  <2>1. accessReq[r].workspace \in Workspaces
    BY <1>7, <1>t, AccessStateFields DEF CreateApiKey, In, AccessTypeOK
  <2>2. row \in KeyRow
    BY <2>1 DEF KeyRow
  <2>3. apiKey' = [apiKey EXCEPT ![k] = row]
        /\ Resume(r, AccessIdle)
        /\ UNCHANGED <<clock, member, confirmation, conversation, accessHistory>>
    BY <1>7 DEF CreateApiKey
  <2>4. apiKey' \in [ApiKeys -> KeyRow \cup {None}]
    BY <1>t, <2>2, <2>3 DEF AccessTypeOK
  <2>5. /\ accessReq' \in [AccessRequests -> AccessState]
        /\ TokenUnspent' /\ EnrollmentOwned' /\ AttemptedOnce'
    BY <2>3, AccessIdleState, MovesOn
  <2> QED
    BY <2>3, <2>4, <2>5 DEF AccessInv, AccessTyped, AccessTypeOK, ConversationPrivate
<1>8. ASSUME NEW r \in AccessRequests, NEW t \in Tokens, ConsumeAutomationConfirmation(r, t)
      PROVE  AccessInv'
  <2> DEFINE q == accessReq[r]
             row == confirmation[t]
             a == [token |-> t, workspace |-> q.workspace, key |-> q.key,
                   role |-> q.role, enrollment |-> row.enrollment, at |-> clock]
             state == [step |-> "enroll", attempt |-> a]
  <2>1. /\ q.step = "tool" /\ HasWorkspaceRole(q.role, "marketer")
        /\ row # None /\ row.workspace = q.workspace /\ row.key = q.key /\ clock < row.expires
        /\ Resume(r, state)
        /\ confirmation' = [confirmation EXCEPT ![t] = None]
        /\ UNCHANGED <<clock, member, apiKey, conversation, accessHistory>>
    BY <1>8 DEF ConsumeAutomationConfirmation, Consumed, Consumable, In
  <2>2. row \in TokenRow
    BY <1>t, <2>1 DEF AccessTypeOK
  <2>3. q.workspace \in Workspaces /\ q.role \in RolesGiven /\ q.key \in ApiKeys
    BY <1>t, <2>1, AccessStateFields DEF AccessTypeOK
  <2>4. a \in Attempt
    BY <1>t, <2>2, <2>3 DEF Attempt, TokenRow, AccessTypeOK
  <2>5. AttemptMatches(a, row)
    BY <2>1, <2>2 DEF AttemptMatches, TokenRow
  <2>6. a.token = t
    OBVIOUS
  <2> HIDE DEF a
  <2>7. state \in AccessState /\ state.step = "enroll" /\ state.attempt = a
    BY <2>4 DEF AccessState
  <2> HIDE DEF state
  <2>8. /\ accessReq' \in [AccessRequests -> AccessState]
        /\ accessReq'[r] = state
        /\ \A s \in AccessRequests : s # r => accessReq'[s] = accessReq[s]
    BY <1>t, <2>1, <2>7, ResumeFields
  <2>9. /\ confirmation' \in [Tokens -> TokenRow \cup {None}]
        /\ \A u \in Tokens : confirmation'[u] = IF u = t THEN None ELSE confirmation[u]
    BY <1>t, <2>1 DEF AccessTypeOK
  <2>10. AccessTyped'
    BY <1>t, <2>1, <2>8, <2>9 DEF AccessTyped, AccessTypeOK
  <2>11. TokenUnspent'
    BY <2>1, <2>6, <2>7, <2>8, <2>9 DEF AccessInv, TokenUnspent, In
  <2>12. /\ prepared[t] = row /\ attempted[t] = {}
         /\ \A s \in AccessRequests : In(s, "enroll") => accessReq[s].attempt.token # t
    BY <2>1 DEF AccessInv, TokenUnspent
  <2>13. EnrollmentOwned'
    BY <2>1, <2>5, <2>6, <2>7, <2>8, <2>12 DEF AccessInv, EnrollmentOwned, In
  <2>14. AttemptedOnce'
    BY <2>1 DEF AccessInv, AttemptedOnce
  <2> QED
    BY <2>1, <2>10, <2>11, <2>13, <2>14 DEF AccessInv, ConversationPrivate
<1>9. ASSUME NEW r \in AccessRequests, NEW t \in Tokens, NEW e \in Enrollments,
             CreateAutomationConfirmation(r, t, e)
      PROVE  AccessInv'
  <2> DEFINE q == accessReq[r]
             row == [workspace |-> q.workspace, key |-> q.key, enrollment |-> e,
                     expires |-> clock + Lifetime]
  <2>1. /\ q.step = "tool" /\ prepared[t] = None
        /\ confirmation' = [confirmation EXCEPT ![t] = row]
        /\ prepared' = [prepared EXCEPT ![t] = row]
        /\ Resume(r, AccessIdle)
        /\ UNCHANGED <<clock, member, apiKey, conversation, attempted, forwarded>>
    BY <1>9 DEF CreateAutomationConfirmation, In
  <2>2. q.workspace \in Workspaces /\ q.key \in ApiKeys
    BY <1>t, <2>1, AccessStateFields DEF AccessTypeOK
  <2>3. clock + Lifetime \in 0 .. MaxClock + Lifetime
    BY <1>t, AccessAssumption DEF AccessTypeOK
  <2>4. row \in TokenRow
    BY <2>2, <2>3 DEF TokenRow
  <2> HIDE DEF row
  <2>5. /\ confirmation' \in [Tokens -> TokenRow \cup {None}]
        /\ prepared' \in [Tokens -> TokenRow \cup {None}]
        /\ \A u \in Tokens : confirmation'[u] = IF u = t THEN row ELSE confirmation[u]
        /\ \A u \in Tokens : prepared'[u] = IF u = t THEN row ELSE prepared[u]
    BY <1>t, <2>1, <2>4 DEF AccessTypeOK
  <2>6. /\ accessReq' \in [AccessRequests -> AccessState]
        /\ accessReq'[r] = AccessIdle
        /\ \A s \in AccessRequests : s # r => accessReq'[s] = accessReq[s]
    BY <1>t, <2>1, AccessIdleState, ResumeFields
  <2>7. /\ attempted[t] = {}
        /\ \A s \in AccessRequests : In(s, "enroll") => accessReq[s].attempt.token # t
    BY <2>1 DEF AccessInv, AttemptedOnce, EnrollmentOwned
  <2>8. AccessTyped'
    BY <1>t, <2>1, <2>5, <2>6 DEF AccessTyped, AccessTypeOK
  <2>9. TokenUnspent'
    BY <2>1, <2>5, <2>6, <2>7, AccessIdleState DEF AccessInv, TokenUnspent, In
  <2>10. \A s \in AccessRequests : In(s, "enroll")' =>
           /\ In(s, "enroll") /\ accessReq'[s] = accessReq[s]
           /\ accessReq[s].attempt.token \in Tokens \ {t}
    BY <1>t, <2>6, <2>7, AccessIdleState, AccessStateFields DEF AccessTypeOK, In, Attempt
  <2>11. EnrollmentOwned'
    <3> SUFFICES ASSUME NEW s \in AccessRequests, In(s, "enroll")'
                 PROVE  LET b == accessReq[s].attempt
                        IN  (/\ prepared[b.token] # None
                             /\ AttemptMatches(b, prepared[b.token])
                             /\ attempted[b.token] = {}
                             /\ \A i \in AccessRequests : i # s /\ In(i, "enroll") =>
                                  accessReq[i].attempt.token # b.token)'
      BY DEF EnrollmentOwned
    <3>1. prepared'[accessReq[s].attempt.token] = prepared[accessReq[s].attempt.token]
      BY <2>5, <2>10
    <3> QED
      BY <2>1, <2>10, <3>1 DEF AccessInv, EnrollmentOwned
  <2>12. AttemptedOnce'
    BY <2>1, <2>5, <2>7 DEF AccessInv, AttemptedOnce
  <2> QED
    BY <2>1, <2>8, <2>9, <2>11, <2>12 DEF AccessInv, ConversationPrivate
<1>10. ASSUME NEW u \in Users, NEW w \in Workspaces, NEW role \in RolesGiven \cup {None},
              SetMember(u, w, role)
       PROVE  AccessInv'
  <2>1. UNCHANGED <<clock, apiKey, confirmation, conversation, accessReq, accessHistory>>
    BY <1>10 DEF SetMember
  <2>2. member' \in [Users -> [Workspaces -> RolesGiven \cup {None}]]
    BY <1>10, <1>t DEF SetMember, AccessTypeOK
  <2> QED
    BY <2>1, <2>2 DEF AccessInv, AccessTyped, AccessTypeOK, TokenUnspent, EnrollmentOwned,
       AttemptedOnce, ConversationPrivate, In
<1>11. ASSUME NEW r \in AccessRequests, NEW c \in Conversations,
              CreateConversation(r, c) \/ ForwardAgentRequest(r, c)
       PROVE  AccessInv'
  <2> DEFINE q == accessReq[r]
             row == [workspace |-> q.workspace, owner |-> q.user]
             f == [conversation |-> c, workspace |-> q.workspace, user |-> q.user]
  <2>1. /\ q.step = "member" /\ Resume(r, AccessIdle)
        /\ UNCHANGED <<clock, member, apiKey, confirmation, prepared, attempted>>
    BY <1>11 DEF CreateConversation, ForwardAgentRequest, In
  <2>2. q.workspace \in Workspaces /\ q.user \in Users
    BY <1>t, <2>1, AccessStateFields DEF AccessTypeOK
  <2>3. /\ accessReq' \in [AccessRequests -> AccessState]
        /\ TokenUnspent' /\ EnrollmentOwned' /\ AttemptedOnce'
    BY <2>1, AccessIdleState, MovesOn
  <2>4. row \in ConversationRow
    BY <2>2 DEF ConversationRow
  <2>5. CASE CreateConversation(r, c)
    <3>1. /\ conversation[c] = None
          /\ conversation' = [conversation EXCEPT ![c] = row]
          /\ UNCHANGED forwarded
      BY <2>5 DEF CreateConversation
    <3>2. conversation' \in [Conversations -> ConversationRow \cup {None}]
      BY <1>t, <2>4, <3>1 DEF AccessTypeOK
    <3>3. AccessTyped'
      BY <1>t, <2>1, <2>3, <3>1, <3>2 DEF AccessTyped, AccessTypeOK
    <3>4. ASSUME NEW g \in forwarded
          PROVE  conversation'[g.conversation] = [workspace |-> g.workspace, owner |-> g.user]
      <4>1. /\ g.conversation \in Conversations
            /\ [workspace |-> g.workspace, owner |-> g.user] \in ConversationRow
        BY <1>t DEF AccessTypeOK, ConversationRow
      <4>2. g.conversation # c
        BY <3>1, <4>1, AccessAssumption DEF AccessInv, ConversationPrivate
      <4> QED
        BY <1>t, <3>1, <4>1, <4>2 DEF AccessTypeOK, AccessInv, ConversationPrivate
    <3> QED
      BY <2>3, <3>1, <3>3, <3>4 DEF AccessInv, ConversationPrivate
  <2>6. CASE ForwardAgentRequest(r, c)
    <3>1. /\ conversation[c] = row
          /\ forwarded' = forwarded \cup {f}
          /\ UNCHANGED conversation
      BY <2>6 DEF ForwardAgentRequest
    <3>2. /\ f \in [conversation : Conversations, workspace : Workspaces, user : Users]
          /\ conversation[f.conversation] = [workspace |-> f.workspace, owner |-> f.user]
      BY <2>2, <3>1
    <3> HIDE DEF f
    <3>3. AccessTyped'
      BY <1>t, <2>1, <2>3, <3>1, <3>2 DEF AccessTyped, AccessTypeOK
    <3>4. ConversationPrivate'
      BY <3>1, <3>2 DEF AccessInv, ConversationPrivate
    <3> QED
      BY <2>3, <3>3, <3>4 DEF AccessInv
  <2> QED
    BY <1>11, <2>5, <2>6
<1>12. CASE UNCHANGED accessVars
  BY <1>12 DEF accessVars, AccessInv, AccessTyped, AccessTypeOK, TokenUnspent, EnrollmentOwned,
     AttemptedOnce, ConversationPrivate, In
<1> QED
  BY <1>1, <1>2, <1>3, <1>4, <1>5, <1>6, <1>7, <1>8, <1>9, <1>10, <1>11, <1>12
     DEF AccessNext, McpNext, MemberNext

LEMMA AccessInvSafe == AccessInv => AccessSafe
<1> SUFFICES ASSUME AccessInv, NEW t \in Tokens
             PROVE  /\ Cardinality(attempted[t]) <= 1
                    /\ \A a \in {x[1] : x \in attempted[t]} :
                         /\ prepared[t] # None
                         /\ AttemptMatches(a, prepared[t])
  BY DEF AccessSafe, ConfirmedOnce, AccessInv, AttemptMatches
<1>1. CASE attempted[t] = {}
  BY <1>1, FS_EmptySet
<1>2. CASE attempted[t] # {}
  <2>1. PICK x : /\ attempted[t] = {x}
                 /\ prepared[t] # None
                 /\ AttemptMatches(x[1], prepared[t])
    BY <1>2 DEF AccessInv, AttemptedOnce
  <2>2. Cardinality(attempted[t]) = 1
    BY <2>1, FS_Singleton
  <2> QED
    BY <2>1, <2>2
<1> QED
  BY <1>1, <1>2

(* Members, keys, tokens and what requests carry keep their types.         *)
THEOREM AccessTypeCorrect == AccessSpec => []AccessTypeOK
<1>1. AccessInv => AccessTypeOK
  BY DEF AccessInv, AccessTyped
<1> QED
  BY <1>1, AccessInvInit, AccessInvStep, PTL DEF AccessSpec

(* A contact is enrolled at most once per token, by the key that prepared  *)
(* it, in its workspace, with the role it takes and in time, also when two *)
(* requests confirm the token at once; and a conversation is forwarded to  *)
(* nobody but its owner.  (mcp/tools/automations.ts, agents/gateway.ts)    *)
THEOREM AccessAlwaysSafe == AccessSpec => []AccessSafe
BY AccessInvInit, AccessInvStep, AccessInvSafe, PTL DEF AccessSpec

-----------------------------------------------------------------------------
(* Provisioning.  The invariant says what a command has achieved by each    *)
(* of its steps.                                                            *)

(* The steps of a command from the kth on.                                 *)
Rest(steps, k) == [i \in 1 .. Len(steps) + 1 - k |-> steps[k + i - 1]]

CreateSteps == PrepareSource \o Provision

CommandStep ==
  {"source", "install", "whoami", "email", "d1", "config", "migrate", "bootstrap", "server",
   "agent", "client", "pull", "migrateByScript", "route"} \cup Resources \cup SecretNames

(* What a create has made when its kth step is next.                       *)
Provided(k, S) ==
  /\ k > 6 => "bucket" \in S
  /\ k > 7 => "jobs" \in S
  /\ k > 8 => "delivery" \in S
  /\ k > 9 => "deadLetter" \in S
  /\ k > 10 => "emailEvents" \in S
  /\ k > 12 => "BETTER_AUTH_SECRET" \in S
  /\ k > 13 => "CREDENTIAL_ENCRYPTION_KEY" \in S
  /\ k > 14 => "TRACKING_SIGNING_SECRET" \in S

Made == resources \cup secrets

(* What a create that provisions has achieved when its kth step is next:   *)
(* what it made is there, or was deleted by hand.                          *)
(* From the moment it has made its database until the server is present,  *)
(* that database is the only one there may be, and empty.                  *)
CreateSound(k) ==
  /\ k <= 5 => databases < MaxDatabase
  /\ k > 1 => source # NoSource
  /\ k \in 6 .. 17 => /\ databases # 0 /\ live \subseteq {databases}
                      /\ server.database # databases
                      /\ data[databases] = {}
  /\ Provided(k, Made \cup removed)
  /\ k \in {16, 17} => config \in Databases /\ schema[config] = source
  /\ fromScratch => /\ Provided(k, Made)
                    /\ k > 16 => "agent" \in present
                    /\ k > 17 => server # NotDeployed
                    /\ k <= 5 => live = {}
                    /\ k > 5 => live = {databases}
                    /\ k <= 11 => config = Placeholder
                    /\ k > 11 => config = databases

UpdateSound(k) ==
  /\ source # NoSource
  /\ k = 4 => config \in Databases /\ schema[config] = source

(* The command that runs is one of the four, somewhere in its steps.       *)
CommandSound ==
  \/ cli.left = <<>>
  \/ /\ cli.command = "create"
     /\ \E k \in 1 .. 2 : cli.left = Rest(PrepareSource, k)
  \/ /\ cli.command = "create"
     /\ \E k \in 1 .. 19 : cli.left = Rest(CreateSteps, k) /\ CreateSound(k)
  \/ /\ cli.command = "update"
     /\ \E k \in 1 .. 6 : cli.left = Rest(Update, k) /\ UpdateSound(k)
  \/ /\ cli.command = "domain" /\ source # NoSource
     /\ \E k \in 1 .. 4 : cli.left = Rest(AddDomain, k)

CliTyped == cli = [command |-> cli.command, left |-> cli.left]

(* Databases that are not there yet hold nothing; the source never goes    *)
(* back behind the server; the queue that doctor looks for is made last,   *)
(* and the secrets are put before a create migrates, so that what lacks    *)
(* then was deleted by hand.                                               *)
HistoryKept ==
  /\ \A d \in Databases : d > databases => data[d] = {}
  /\ server.release <= source
  /\ "emailEvents" \in resources => Resources \subseteq resources \cup removed
  /\ \A d \in Databases : schema[d] > 0 =>
       d \in migratedByScript \/ SecretNames \subseteq secrets \cup removed

ProvisionInv ==
  /\ ProvisionTypeOK /\ CliTyped
  /\ CommandSound
  /\ HistoryKept
  /\ KeyKept /\ SchemaKept

-----------------------------------------------------------------------------
LEMMA RestAdvances ==
  ASSUME NEW steps, steps \in Seq(CommandStep), NEW k \in 1 .. Len(steps)
  PROVE  /\ Rest(steps, k) # <<>>
         /\ Head(Rest(steps, k)) = steps[k]
         /\ Tail(Rest(steps, k)) = Rest(steps, k + 1)
<1>1. Len(steps) \in Nat
  OBVIOUS
<1>2. /\ Rest(steps, k) \in Seq(CommandStep)
      /\ Len(Rest(steps, k)) = Len(steps) + 1 - k
  BY <1>1 DEF Rest
<1>3. Rest(steps, k) # <<>>
  BY <1>1, <1>2
<1>4. Head(Rest(steps, k)) = steps[k]
  BY <1>1, <1>2 DEF Rest
<1>5. Tail(Rest(steps, k)) = Rest(steps, k + 1)
  BY <1>1, <1>2 DEF Rest
<1> QED
  BY <1>3, <1>4, <1>5

LEMMA RestWhole ==
  ASSUME NEW steps, steps \in Seq(CommandStep)
  PROVE  /\ steps = Rest(steps, 1)
         /\ Rest(steps, Len(steps) + 1) = <<>>
<1>1. Len(steps) \in Nat
  OBVIOUS
<1>2. steps = Rest(steps, 1)
  BY <1>1 DEF Rest
<1>3. Rest(steps, Len(steps) + 1) \in Seq(CommandStep) /\ Len(Rest(steps, Len(steps) + 1)) = 0
  BY <1>1 DEF Rest
<1> QED
  BY <1>2, <1>3

(* One list of steps after another.                                        *)
LEMMA StepsJoined ==
  ASSUME NEW s \in Seq(CommandStep), NEW t \in Seq(CommandStep)
  PROVE  /\ s \o t \in Seq(CommandStep)
         /\ Len(s \o t) = Len(s) + Len(t)
         /\ \A i \in 1 .. Len(s) : (s \o t)[i] = s[i]
         /\ \A i \in 1 .. Len(t) : (s \o t)[Len(s) + i] = t[i]
OBVIOUS

(* The steps, spelled out.                                                 *)
LEMMA DeployIs ==
  /\ Deploy \in Seq(CommandStep) /\ Len(Deploy) = 3
  /\ Deploy[1] = "server" /\ Deploy[2] = "agent" /\ Deploy[3] = "client"
BY DEF Deploy, CommandStep

LEMMA PrepareSourceIs ==
  /\ PrepareSource \in Seq(CommandStep) /\ Len(PrepareSource) = 2
  /\ PrepareSource[1] = "source" /\ PrepareSource[2] = "install"
BY DEF PrepareSource, CommandStep

LEMMA UpdateIs ==
  /\ Update \in Seq(CommandStep) /\ Len(Update) = 6
  /\ Update[1] = "pull" /\ Update[2] = "install" /\ Update[3] = "migrateByScript"
  /\ Update[4] = "server" /\ Update[5] = "agent" /\ Update[6] = "client"
<1> DEFINE U == <<"pull", "install", "migrateByScript">>
<1>1. /\ U \in Seq(CommandStep) /\ Len(U) = 3
      /\ U[1] = "pull" /\ U[2] = "install" /\ U[3] = "migrateByScript"
  BY DEF CommandStep
<1>2. Update = U \o Deploy
  BY DEF Update
<1> HIDE DEF U
<1>3. /\ Update \in Seq(CommandStep) /\ Len(Update) = 6
      /\ \A i \in 1 .. 3 : Update[i] = U[i]
      /\ \A i \in 1 .. 3 : Update[3 + i] = Deploy[i]
  <2>1. /\ U \o Deploy \in Seq(CommandStep)
        /\ Len(U \o Deploy) = Len(U) + Len(Deploy)
        /\ \A i \in 1 .. Len(U) : (U \o Deploy)[i] = U[i]
        /\ \A i \in 1 .. Len(Deploy) : (U \o Deploy)[Len(U) + i] = Deploy[i]
    BY DeployIs, <1>1, <1>2, StepsJoined
  <2>2. Update \in Seq(CommandStep) /\ Len(Update) = 6
    BY DeployIs, <1>1, <1>2, <2>1
  <2>3. \A i \in 1 .. 3 : Update[i] = U[i]
    BY DeployIs, <1>1, <1>2, <2>1
  <2>4. \A i \in 1 .. 3 : Update[3 + i] = Deploy[i]
    BY DeployIs, <1>1, <1>2, <2>1
  <2> QED
    BY <2>2, <2>3, <2>4
<1> QED
  BY DeployIs, <1>1, <1>3

LEMMA AddDomainIs ==
  /\ AddDomain \in Seq(CommandStep) /\ Len(AddDomain) = 4
  /\ AddDomain[1] = "route" /\ AddDomain[2] = "server" /\ AddDomain[3] = "agent"
  /\ AddDomain[4] = "client"
<1> DEFINE A == <<"route">>
<1>1. A \in Seq(CommandStep) /\ Len(A) = 1 /\ A[1] = "route"
  BY DEF CommandStep
<1>2. AddDomain = A \o Deploy
  BY DEF AddDomain
<1> HIDE DEF A
<1>3. /\ AddDomain \in Seq(CommandStep) /\ Len(AddDomain) = 4
      /\ \A i \in 1 .. 1 : AddDomain[i] = A[i]
      /\ \A i \in 1 .. 3 : AddDomain[1 + i] = Deploy[i]
  <2>1. /\ A \o Deploy \in Seq(CommandStep)
        /\ Len(A \o Deploy) = Len(A) + Len(Deploy)
        /\ \A i \in 1 .. Len(A) : (A \o Deploy)[i] = A[i]
        /\ \A i \in 1 .. Len(Deploy) : (A \o Deploy)[Len(A) + i] = Deploy[i]
    BY DeployIs, <1>1, <1>2, StepsJoined
  <2>2. AddDomain \in Seq(CommandStep) /\ Len(AddDomain) = 4
    BY DeployIs, <1>1, <1>2, <2>1
  <2>3. \A i \in 1 .. 1 : AddDomain[i] = A[i]
    BY DeployIs, <1>1, <1>2, <2>1
  <2>4. \A i \in 1 .. 3 : AddDomain[1 + i] = Deploy[i]
    BY DeployIs, <1>1, <1>2, <2>1
  <2> QED
    BY <2>2, <2>3, <2>4
<1> QED
  BY DeployIs, <1>1, <1>3

LEMMA CreateStepsAre ==
  /\ CreateSteps \in Seq(CommandStep) /\ Len(CreateSteps) = 19
  /\ CreateSteps[1] = "source" /\ CreateSteps[2] = "install" /\ CreateSteps[3] = "whoami"
  /\ CreateSteps[4] = "email" /\ CreateSteps[5] = "d1" /\ CreateSteps[6] = "bucket"
  /\ CreateSteps[7] = "jobs" /\ CreateSteps[8] = "delivery" /\ CreateSteps[9] = "deadLetter"
  /\ CreateSteps[10] = "emailEvents" /\ CreateSteps[11] = "config"
  /\ CreateSteps[12] = "BETTER_AUTH_SECRET"
  /\ CreateSteps[13] = "CREDENTIAL_ENCRYPTION_KEY"
  /\ CreateSteps[14] = "TRACKING_SIGNING_SECRET"
  /\ CreateSteps[15] = "migrate" /\ CreateSteps[16] = "bootstrap"
  /\ CreateSteps[17] = "server" /\ CreateSteps[18] = "agent" /\ CreateSteps[19] = "client"
<1> DEFINE B == <<"bootstrap">>
           I == InitialWorkerDeployCommands
           P == <<"whoami", "email", "d1", "bucket", "jobs", "delivery", "deadLetter",
                  "emailEvents", "config", "BETTER_AUTH_SECRET", "CREDENTIAL_ENCRYPTION_KEY",
                  "TRACKING_SIGNING_SECRET", "migrate">>
<1>1. B \in Seq(CommandStep) /\ Len(B) = 1 /\ B[1] = "bootstrap"
  BY DEF CommandStep
<1>2. I = B \o Deploy
  BY DEF InitialWorkerDeployCommands
<1>3. /\ P \in Seq(CommandStep) /\ Len(P) = 13
      /\ P[1] = "whoami" /\ P[2] = "email" /\ P[3] = "d1" /\ P[4] = "bucket" /\ P[5] = "jobs"
      /\ P[6] = "delivery" /\ P[7] = "deadLetter" /\ P[8] = "emailEvents" /\ P[9] = "config"
      /\ P[10] = "BETTER_AUTH_SECRET" /\ P[11] = "CREDENTIAL_ENCRYPTION_KEY"
      /\ P[12] = "TRACKING_SIGNING_SECRET" /\ P[13] = "migrate"
  BY DEF CommandStep, Resources, Queues, SecretNames
<1>4. Provision = P \o I
  BY DEF Provision
<1> HIDE DEF B, I, P
<1>5. /\ I \in Seq(CommandStep) /\ Len(I) = 4
      /\ \A i \in 1 .. 1 : I[i] = B[i]
      /\ \A i \in 1 .. 3 : I[1 + i] = Deploy[i]
  <2>1. /\ B \o Deploy \in Seq(CommandStep)
        /\ Len(B \o Deploy) = Len(B) + Len(Deploy)
        /\ \A i \in 1 .. Len(B) : (B \o Deploy)[i] = B[i]
        /\ \A i \in 1 .. Len(Deploy) : (B \o Deploy)[Len(B) + i] = Deploy[i]
    BY DeployIs, <1>1, <1>2, StepsJoined
  <2>2. I \in Seq(CommandStep) /\ Len(I) = 4
    BY DeployIs, <1>1, <1>2, <2>1
  <2>3. \A i \in 1 .. 1 : I[i] = B[i]
    BY DeployIs, <1>1, <1>2, <2>1
  <2>4. \A i \in 1 .. 3 : I[1 + i] = Deploy[i]
    BY DeployIs, <1>1, <1>2, <2>1
  <2> QED
    BY <2>2, <2>3, <2>4
<1>6. /\ Provision \in Seq(CommandStep) /\ Len(Provision) = 17
      /\ \A i \in 1 .. 13 : Provision[i] = P[i]
      /\ \A i \in 1 .. 4 : Provision[13 + i] = I[i]
  <2>1. /\ P \o I \in Seq(CommandStep)
        /\ Len(P \o I) = Len(P) + Len(I)
        /\ \A i \in 1 .. Len(P) : (P \o I)[i] = P[i]
        /\ \A i \in 1 .. Len(I) : (P \o I)[Len(P) + i] = I[i]
    BY <1>3, <1>4, <1>5, StepsJoined
  <2>2. Provision \in Seq(CommandStep) /\ Len(Provision) = 17
    BY <1>3, <1>4, <1>5, <2>1
  <2>3. \A i \in 1 .. 13 : Provision[i] = P[i]
    BY <1>3, <1>4, <1>5, <2>1
  <2>4. \A i \in 1 .. 4 : Provision[13 + i] = I[i]
    BY <1>3, <1>4, <1>5, <2>1
  <2> QED
    BY <2>2, <2>3, <2>4
<1>7. CreateSteps = PrepareSource \o Provision
  BY DEF CreateSteps
<1>8. /\ CreateSteps \in Seq(CommandStep) /\ Len(CreateSteps) = 19
      /\ \A i \in 1 .. 2 : CreateSteps[i] = PrepareSource[i]
      /\ \A i \in 1 .. 17 : CreateSteps[2 + i] = Provision[i]
  <2>1. /\ PrepareSource \o Provision \in Seq(CommandStep)
        /\ Len(PrepareSource \o Provision) = Len(PrepareSource) + Len(Provision)
        /\ \A i \in 1 .. Len(PrepareSource) : (PrepareSource \o Provision)[i] = PrepareSource[i]
        /\ \A i \in 1 .. Len(Provision) : (PrepareSource \o Provision)[Len(PrepareSource) + i] = Provision[i]
    BY PrepareSourceIs, <1>6, <1>7, StepsJoined
  <2>2. CreateSteps \in Seq(CommandStep) /\ Len(CreateSteps) = 19
    BY PrepareSourceIs, <1>6, <1>7, <2>1
  <2>3. \A i \in 1 .. 2 : CreateSteps[i] = PrepareSource[i]
    BY PrepareSourceIs, <1>6, <1>7, <2>1
  <2>4. \A i \in 1 .. 17 : CreateSteps[2 + i] = Provision[i]
    BY PrepareSourceIs, <1>6, <1>7, <2>1
  <2> QED
    BY <2>2, <2>3, <2>4
<1>9. I[1] = "bootstrap" /\ I[2] = "server" /\ I[3] = "agent" /\ I[4] = "client"
  BY DeployIs, <1>1, <1>5
<1>10. /\ \A i \in 1 .. 13 : CreateSteps[2 + i] = P[i]
       /\ \A i \in 1 .. 4 : CreateSteps[15 + i] = I[i]
  BY <1>6, <1>8
<1> QED
  BY PrepareSourceIs, <1>3, <1>8, <1>9, <1>10

(* The same by position, and where each command goes from there.           *)
LEMMA CreateTable ==
  ASSUME NEW k \in 1 .. 19
  PROVE
       \/ k = 1 /\ CreateSteps[k] = "source"
       \/ k = 2 /\ CreateSteps[k] = "install"
       \/ k = 3 /\ CreateSteps[k] = "whoami"
       \/ k = 4 /\ CreateSteps[k] = "email"
       \/ k = 5 /\ CreateSteps[k] = "d1"
       \/ k = 6 /\ CreateSteps[k] = "bucket"
       \/ k = 7 /\ CreateSteps[k] = "jobs"
       \/ k = 8 /\ CreateSteps[k] = "delivery"
       \/ k = 9 /\ CreateSteps[k] = "deadLetter"
       \/ k = 10 /\ CreateSteps[k] = "emailEvents"
       \/ k = 11 /\ CreateSteps[k] = "config"
       \/ k = 12 /\ CreateSteps[k] = "BETTER_AUTH_SECRET"
       \/ k = 13 /\ CreateSteps[k] = "CREDENTIAL_ENCRYPTION_KEY"
       \/ k = 14 /\ CreateSteps[k] = "TRACKING_SIGNING_SECRET"
       \/ k = 15 /\ CreateSteps[k] = "migrate"
       \/ k = 16 /\ CreateSteps[k] = "bootstrap"
       \/ k = 17 /\ CreateSteps[k] = "server"
       \/ k = 18 /\ CreateSteps[k] = "agent"
       \/ k = 19 /\ CreateSteps[k] = "client"
<1>1. \/ k = 1 \/ k = 2 \/ k = 3 \/ k = 4 \/ k = 5 \/ k = 6 \/ k = 7 \/ k = 8 \/ k = 9
      \/ k = 10 \/ k = 11 \/ k = 12 \/ k = 13 \/ k = 14 \/ k = 15 \/ k = 16 \/ k = 17
      \/ k = 18 \/ k = 19
  OBVIOUS
<1> QED
  BY <1>1, CreateStepsAre

LEMMA ShortTables ==
  /\ \A k \in 1 .. 2 : PrepareSource[k] \in {"source", "install"}
  /\ \A k \in 1 .. 6 :
       \/ k = 1 /\ Update[k] = "pull"
       \/ k = 2 /\ Update[k] = "install"
       \/ k = 3 /\ Update[k] = "migrateByScript"
       \/ k = 4 /\ Update[k] = "server"
       \/ k = 5 /\ Update[k] = "agent"
       \/ k = 6 /\ Update[k] = "client"
  /\ \A k \in 1 .. 4 : AddDomain[k] \in {"route", "server", "agent", "client"}
<1>1. \A k \in 1 .. 2 : PrepareSource[k] \in {"source", "install"}
  <2>1. \A k \in 1 .. 2 : k = 1 \/ k = 2
    OBVIOUS
  <2> QED
    BY <2>1, PrepareSourceIs
<1>2. \A k \in 1 .. 6 :
       \/ k = 1 /\ Update[k] = "pull"
       \/ k = 2 /\ Update[k] = "install"
       \/ k = 3 /\ Update[k] = "migrateByScript"
       \/ k = 4 /\ Update[k] = "server"
       \/ k = 5 /\ Update[k] = "agent"
       \/ k = 6 /\ Update[k] = "client"
  <2>1. \A k \in 1 .. 6 : k = 1 \/ k = 2 \/ k = 3 \/ k = 4 \/ k = 5 \/ k = 6
    OBVIOUS
  <2> QED
    BY <2>1, UpdateIs
<1>3. \A k \in 1 .. 4 : AddDomain[k] \in {"route", "server", "agent", "client"}
  <2>1. \A k \in 1 .. 4 : k = 1 \/ k = 2 \/ k = 3 \/ k = 4
    OBVIOUS
  <2> QED
    BY <2>1, AddDomainIs
<1> QED
  BY <1>1, <1>2, <1>3

(* Step by step to the end of a list of n steps.                           *)
Unrolls(steps, n) ==
  /\ steps = Rest(steps, 1)
  /\ Rest(steps, n + 1) = <<>>
  /\ \A k \in 1 .. n : /\ Rest(steps, k) # <<>>
                       /\ Head(Rest(steps, k)) = steps[k]
                       /\ Tail(Rest(steps, k)) = Rest(steps, k + 1)

LEMMA CommandsUnroll ==
  /\ Unrolls(PrepareSource, 2) /\ Unrolls(CreateSteps, 19)
  /\ Unrolls(Update, 6) /\ Unrolls(AddDomain, 4)
<1>1. ASSUME NEW steps \in Seq(CommandStep), NEW n \in Nat, Len(steps) = n
      PROVE  Unrolls(steps, n)
  BY <1>1, RestAdvances, RestWhole DEF Unrolls
<1>2. Unrolls(PrepareSource, 2)
  BY <1>1, PrepareSourceIs
<1>3. Unrolls(CreateSteps, 19)
  BY <1>1, CreateStepsAre
<1>4. Unrolls(Update, 6)
  BY <1>1, UpdateIs
<1>5. Unrolls(AddDomain, 4)
  BY <1>1, AddDomainIs
<1> QED
  BY <1>2, <1>3, <1>4, <1>5

-----------------------------------------------------------------------------
(* A step that runs is the one that was next, in one of the commands.      *)
LEMMA StepTaken ==
  ASSUME CliTyped, CommandSound, NEW step, Runs(step)
  PROVE  /\ CliTyped' /\ cli'.command = cli.command
         /\ \/ /\ cli.command = "create"
               /\ \E k \in 1 .. 2 : PrepareSource[k] = step /\ cli'.left = Rest(PrepareSource, k + 1)
            \/ /\ cli.command = "create"
               /\ \E k \in 1 .. 19 : /\ CreateSteps[k] = step /\ CreateSound(k)
                                     /\ cli'.left = Rest(CreateSteps, k + 1)
            \/ /\ cli.command = "update"
               /\ \E k \in 1 .. 6 : /\ Update[k] = step /\ UpdateSound(k)
                                    /\ cli'.left = Rest(Update, k + 1)
            \/ /\ cli.command = "domain" /\ source # NoSource
               /\ \E k \in 1 .. 4 : AddDomain[k] = step /\ cli'.left = Rest(AddDomain, k + 1)
<1>1. cli.left # <<>> /\ Head(cli.left) = step /\ cli' = [cli EXCEPT !.left = Tail(cli.left)]
  BY DEF Runs
<1>2. cli'.command = cli.command /\ cli'.left = Tail(cli.left) /\ CliTyped'
  BY <1>1 DEF CliTyped
<1>3. CASE cli.command = "create" /\ \E k \in 1 .. 2 : cli.left = Rest(PrepareSource, k)
  <2>1. PICK k \in 1 .. 2 : cli.left = Rest(PrepareSource, k)
    BY <1>3
  <2>2. PrepareSource[k] = step /\ cli'.left = Rest(PrepareSource, k + 1)
    BY <1>1, <1>2, <2>1, CommandsUnroll DEF Unrolls
  <2> QED
    BY <1>2, <1>3, <2>2
<1>4. CASE /\ cli.command = "create"
           /\ \E k \in 1 .. 19 : cli.left = Rest(CreateSteps, k) /\ CreateSound(k)
  <2>1. PICK k \in 1 .. 19 : cli.left = Rest(CreateSteps, k) /\ CreateSound(k)
    BY <1>4
  <2>2. CreateSteps[k] = step /\ cli'.left = Rest(CreateSteps, k + 1)
    BY <1>1, <1>2, <2>1, CommandsUnroll DEF Unrolls
  <2> QED
    BY <1>2, <1>4, <2>1, <2>2
<1>5. CASE /\ cli.command = "update"
           /\ \E k \in 1 .. 6 : cli.left = Rest(Update, k) /\ UpdateSound(k)
  <2>1. PICK k \in 1 .. 6 : cli.left = Rest(Update, k) /\ UpdateSound(k)
    BY <1>5
  <2>2. Update[k] = step /\ cli'.left = Rest(Update, k + 1)
    BY <1>1, <1>2, <2>1, CommandsUnroll DEF Unrolls
  <2> QED
    BY <1>2, <1>5, <2>1, <2>2
<1>6. CASE /\ cli.command = "domain" /\ source # NoSource
           /\ \E k \in 1 .. 4 : cli.left = Rest(AddDomain, k)
  <2>1. PICK k \in 1 .. 4 : cli.left = Rest(AddDomain, k)
    BY <1>6
  <2>2. AddDomain[k] = step /\ cli'.left = Rest(AddDomain, k + 1)
    BY <1>1, <1>2, <2>1, CommandsUnroll DEF Unrolls
  <2> QED
    BY <1>2, <1>6, <2>2
<1> QED
  BY <1>1, <1>3, <1>4, <1>5, <1>6 DEF CommandSound

(* A command goes on when what its next step needs follows from what this  *)
(* one needed.                                                             *)
LEMMA CommandAdvances ==
  ASSUME CliTyped, CommandSound, NEW step, Runs(step),
         source # NoSource => source' # NoSource,
         \A k \in 1 .. 18 : CreateSteps[k] = step /\ CreateSound(k) => CreateSound(k + 1)',
         \A k \in 1 .. 5 : Update[k] = step /\ UpdateSound(k) => UpdateSound(k + 1)'
  PROVE  CliTyped' /\ CommandSound'
<1>1. CASE /\ cli.command = "create"
           /\ \E k \in 1 .. 2 : PrepareSource[k] = step /\ cli'.left = Rest(PrepareSource, k + 1)
  <2>1. PICK k \in 1 .. 2 : cli'.left = Rest(PrepareSource, k + 1)
    BY <1>1
  <2>2. CASE k = 2
    BY <2>1, <2>2, CommandsUnroll, StepTaken DEF CommandSound, Unrolls
  <2>3. CASE k = 1
    BY <1>1, <2>1, <2>3, StepTaken DEF CommandSound
  <2> QED
    BY <2>2, <2>3
<1>2. CASE /\ cli.command = "create"
           /\ \E k \in 1 .. 19 : /\ CreateSteps[k] = step /\ CreateSound(k)
                                 /\ cli'.left = Rest(CreateSteps, k + 1)
  <2>1. PICK k \in 1 .. 19 : /\ CreateSteps[k] = step /\ CreateSound(k)
                             /\ cli'.left = Rest(CreateSteps, k + 1)
    BY <1>2
  <2>2. CASE k = 19
    BY <2>1, <2>2, CommandsUnroll, StepTaken DEF CommandSound, Unrolls
  <2>3. CASE k \in 1 .. 18
    <3>1. CreateSound(k + 1)' /\ k + 1 \in 1 .. 19
      BY <2>1, <2>3
    <3> QED
      BY <1>2, <2>1, <3>1, StepTaken DEF CommandSound
  <2> QED
    BY <2>2, <2>3
<1>3. CASE /\ cli.command = "update"
           /\ \E k \in 1 .. 6 : /\ Update[k] = step /\ UpdateSound(k)
                                /\ cli'.left = Rest(Update, k + 1)
  <2>1. PICK k \in 1 .. 6 : /\ Update[k] = step /\ UpdateSound(k)
                            /\ cli'.left = Rest(Update, k + 1)
    BY <1>3
  <2>2. CASE k = 6
    BY <2>1, <2>2, CommandsUnroll, StepTaken DEF CommandSound, Unrolls
  <2>3. CASE k \in 1 .. 5
    <3>1. UpdateSound(k + 1)' /\ k + 1 \in 1 .. 6
      BY <2>1, <2>3
    <3> QED
      BY <1>3, <2>1, <3>1, StepTaken DEF CommandSound
  <2> QED
    BY <2>2, <2>3
<1>4. CASE /\ cli.command = "domain" /\ source # NoSource
           /\ \E k \in 1 .. 4 : AddDomain[k] = step /\ cli'.left = Rest(AddDomain, k + 1)
  <2>1. PICK k \in 1 .. 4 : cli'.left = Rest(AddDomain, k + 1)
    BY <1>4
  <2>2. CASE k = 4
    BY <2>1, <2>2, CommandsUnroll, StepTaken DEF CommandSound, Unrolls
  <2>3. CASE k \in 1 .. 3
    <3>1. k + 1 \in 1 .. 4
      BY <2>3
    <3> QED
      BY <1>4, <2>1, <3>1, StepTaken DEF CommandSound
  <2> QED
    BY <2>2, <2>3
<1> QED
  BY <1>1, <1>2, <1>3, <1>4, StepTaken

LEMMA CommandWaits ==
  ASSUME CliTyped, CommandSound, UNCHANGED cli, source # NoSource => source' # NoSource,
         \A k \in 1 .. 19 : CreateSound(k) => CreateSound(k)',
         \A k \in 1 .. 6 : UpdateSound(k) => UpdateSound(k)'
  PROVE  CliTyped' /\ CommandSound'
BY DEF CliTyped, CommandSound

(* Steps that only a create has run where a create has them.               *)
LEMMA CreateTaken ==
  ASSUME CliTyped, CommandSound, NEW step, Runs(step), NEW n \in 5 .. 16, CreateSteps[n] = step
  PROVE  CreateSound(n) /\ cli.command = "create"
<1>1. \A k \in 1 .. 19 : CreateSteps[k] = step => k = n
  BY CreateTable
<1>2. /\ \A k \in 1 .. 2 : PrepareSource[k] # step
      /\ \A k \in 1 .. 6 : Update[k] # step
      /\ \A k \in 1 .. 4 : AddDomain[k] # step
  BY CreateTable, ShortTables
<1> QED
  BY <1>1, <1>2, StepTaken

(* Types that a step which touches little keeps.                           *)
LEMMA ProvisionTypes ==
  ASSUME ProvisionTypeOK
  PROVE  /\ MaxDatabase \in Nat \ {0} /\ MaxRelease \in Nat \ {0}
         /\ databases \in Nat /\ databases <= MaxDatabase
         /\ upstream \in Nat /\ upstream >= 1 /\ upstream <= MaxRelease
         /\ source \in Nat /\ source <= upstream
         /\ config \in Nat /\ config <= databases
         /\ server.database \in Nat /\ server.database <= databases
         /\ server.release \in Nat
         /\ \A d \in live : d \in Databases /\ d <= databases
         /\ \A d \in Databases : d \in Nat /\ d >= 1
BY ProvisioningAssumption DEF ProvisionTypeOK, NotDeployed, Databases

LEMMA NamesApart == Resources \cap SecretNames = {}
BY DEF Resources, Queues, SecretNames

(* What is provided stays provided as more is made.                        *)
LEMMA ProvidedGrows ==
  ASSUME NEW k, NEW S, NEW T, S \subseteq T, Provided(k, S)
  PROVE  Provided(k, T)
BY DEF Provided

LEMMA ProvisionInvInit == ProvisionInit => ProvisionInv
<1> SUFFICES ASSUME ProvisionInit PROVE ProvisionInv
  OBVIOUS
<1>1. MaxDatabase \in Nat \ {0} /\ MaxRelease \in Nat \ {0}
  BY ProvisioningAssumption
<1>2. ProvisionTypeOK
  <2>1. /\ upstream \in 1 .. MaxRelease /\ source \in 0 .. upstream
        /\ config \in 0 .. databases /\ databases \in 0 .. MaxDatabase
        /\ live \subseteq 1 .. databases
    BY <1>1 DEF ProvisionInit, NoSource, Placeholder
  <2>2. schema \in [Databases -> 0 .. upstream] /\ data \in [Databases -> SUBSET Nat]
    BY <1>1 DEF ProvisionInit
  <2> QED
    BY <2>1, <2>2 DEF ProvisionInit, ProvisionTypeOK
<1>3. CliTyped /\ CommandSound
  BY DEF ProvisionInit, CliTyped, CommandSound
<1>4. HistoryKept
  BY DEF ProvisionInit, HistoryKept, NotDeployed, NoSource
<1>5. KeyKept /\ SchemaKept
  BY DEF ProvisionInit, KeyKept, SchemaKept
<1> QED
  BY <1>2, <1>3, <1>4, <1>5 DEF ProvisionInv

(* A command starts, with the first step of its list.                      *)
LEMMA CommandStarts ==
  ASSUME ProvisionInv, Create \/ RunUpdate \/ RunAddDomain
  PROVE  ProvisionInv'
<1> USE DEF cloudVars, localVars, historyVars
<1>1. /\ cli' = [command |-> cli'.command, left |-> cli'.left]
      /\ cli'.command \in {"create", "update", "domain"}
      /\ fromScratch' = (config = Placeholder /\ live = {})
      /\ UNCHANGED <<project, upstream, localVars, cloudVars, data, migratedByScript, removed>>
      /\ \/ /\ cli'.command = "create" /\ databases < MaxDatabase
            /\ cli'.left \in {PrepareSource, CreateSteps}
         \/ /\ cli'.command = "update" /\ source # NoSource
            /\ cli'.left = Update
         \/ /\ cli'.command = "domain" /\ source # NoSource
            /\ cli'.left = AddDomain
  BY DEF Create, RunUpdate, RunAddDomain, Start, CreateSteps
<1>2. /\ PrepareSource = Rest(PrepareSource, 1) /\ CreateSteps = Rest(CreateSteps, 1)
      /\ Update = Rest(Update, 1) /\ AddDomain = Rest(AddDomain, 1)
  BY CommandsUnroll DEF Unrolls
<1>3. databases < MaxDatabase => CreateSound(1)'
  <2>1. fromScratch' => config = Placeholder /\ live = {}
    BY <1>1
  <2>2. UNCHANGED <<databases, live, config, source>>
    BY <1>1
  <2> QED
    BY <2>1, <2>2 DEF CreateSound, Provided
<1>4. source # NoSource => UpdateSound(1)'
  BY <1>1 DEF UpdateSound
<1>5. CommandSound'
  BY <1>1, <1>2, <1>3, <1>4 DEF CommandSound
<1>6. fromScratch' \in BOOLEAN
  BY <1>1
<1>7. ProvisionTypeOK'
  BY <1>1, <1>6 DEF ProvisionInv, ProvisionTypeOK
<1> QED
  BY <1>1, <1>5, <1>7 DEF ProvisionInv, CliTyped, HistoryKept, KeyKept, SchemaKept

(* What others do while a command waits or none runs.                      *)
LEMMA OthersAct ==
  ASSUME ProvisionInv,
         \/ CommandEnds \/ Release \/ ResetConfig \/ Subscribe \/ StoreCredential
         \/ Deletion
  PROVE  ProvisionInv'
<1> USE DEF cloudVars, localVars, historyVars
<1>t. ProvisionTypeOK /\ CliTyped /\ CommandSound
  BY DEF ProvisionInv
<1>1. CASE CommandEnds
  <2>1. /\ cli' = [cli EXCEPT !.left = <<>>]
        /\ UNCHANGED <<project, upstream, localVars, cloudVars, data, historyVars>>
    BY <1>1 DEF CommandEnds
  <2>2. CliTyped' /\ CommandSound' /\ cli'.command = cli.command
    BY <1>t, <2>1 DEF CliTyped, CommandSound
  <2> QED
    BY <2>1, <2>2 DEF ProvisionInv, ProvisionTypeOK, HistoryKept, KeyKept, SchemaKept
<1>2. CASE Release
  <2>1. /\ upstream < MaxRelease /\ upstream' = upstream + 1
        /\ UNCHANGED <<project, localVars, cloudVars, data, cli, historyVars>>
    BY <1>2 DEF Release
  <2>2. CliTyped' /\ CommandSound'
    BY <1>t, <2>1, CommandWaits DEF CreateSound, UpdateSound, Provided, Made
  <2>3. ProvisionTypeOK'
    BY <1>t, <2>1, ProvisionTypes DEF ProvisionTypeOK
  <2> QED
    BY <2>1, <2>2, <2>3 DEF ProvisionInv, HistoryKept, KeyKept, SchemaKept
<1>3. CASE ResetConfig
  <2>1. /\ cli.left = <<>> /\ config' = Placeholder
        /\ UNCHANGED <<project, upstream, source, cloudVars, data, cli, historyVars>>
    BY <1>3 DEF ResetConfig
  <2>2. CliTyped' /\ CommandSound'
    BY <1>t, <2>1 DEF CliTyped, CommandSound
  <2>3. ProvisionTypeOK'
    BY <1>t, <2>1, ProvisionTypes DEF ProvisionTypeOK, Placeholder
  <2> QED
    BY <2>1, <2>2, <2>3 DEF ProvisionInv, HistoryKept, KeyKept, SchemaKept
<1>4. CASE Subscribe
  <2>1. /\ subscribed' = TRUE
        /\ UNCHANGED <<project, upstream, localVars, live, databases, schema, resources, emailSending,
                       secrets, key, data, present, server, cli, historyVars>>
    BY <1>4 DEF Subscribe
  <2>2. CliTyped' /\ CommandSound'
    BY <1>t, <2>1, CommandWaits DEF CreateSound, UpdateSound, Provided, Made
  <2>3. ProvisionTypeOK'
    BY <1>t, <2>1 DEF ProvisionTypeOK
  <2> QED
    BY <2>1, <2>2, <2>3 DEF ProvisionInv, HistoryKept, KeyKept, SchemaKept
<1>5. CASE StoreCredential
  <2> DEFINE s == server.database
  <2>1. /\ s \in live /\ s \in Databases
        /\ data' = [data EXCEPT ![s] = data[s] \cup {key}]
        /\ UNCHANGED <<project, upstream, localVars, cloudVars, cli, historyVars>>
    BY <1>t, <1>5, ProvisionTypes DEF StoreCredential
  <2>2. /\ data' \in [Databases -> SUBSET Nat]
        /\ data'[s] = data[s] \cup {key}
        /\ \A d \in Databases : d # s => data'[d] = data[d]
    BY <1>t, <2>1 DEF ProvisionTypeOK
  <2>3. ASSUME NEW k \in 1 .. 19, CreateSound(k)
        PROVE  CreateSound(k)'
    <3>1. CASE k \in 6 .. 17
      <4>1. databases # 0 /\ live \subseteq {databases} /\ s # databases
        BY <2>3, <3>1 DEF CreateSound
      <4> QED
        BY <2>1, <4>1
    <3>2. CASE ~(k \in 6 .. 17)
      BY <2>1, <2>3, <3>2 DEF CreateSound, Provided, Made
    <3> QED
      BY <3>1, <3>2
  <2>4. CliTyped' /\ CommandSound'
    BY <1>t, <2>1, <2>3, CommandWaits DEF UpdateSound
  <2>5. ProvisionTypeOK'
    BY <1>t, <2>1, <2>2 DEF ProvisionTypeOK
  <2>6. KeyKept'
    BY <1>t, <2>1, <2>2, ProvisionTypes DEF ProvisionInv, KeyKept
  <2>7. \A d \in Databases : d > databases => data'[d] = {}
    BY <1>t, <2>2, ProvisionTypes DEF ProvisionInv, HistoryKept
  <2> QED
    BY <2>1, <2>4, <2>5, <2>6, <2>7 DEF ProvisionInv, HistoryKept, SchemaKept
<1>6. ASSUME NEW d \in Databases, DeleteDatabase(d)
      PROVE  ProvisionInv'
  <2>1. /\ live' = live \ {d} /\ fromScratch' = FALSE
        /\ UNCHANGED <<project, upstream, localVars, databases, schema, resources, emailSending,
                       subscribed, secrets, key, data, present, server, cli, migratedByScript,
                       removed>>
    BY <1>6 DEF DeleteDatabase
  <2>2. CliTyped' /\ CommandSound'
    BY <1>t, <2>1, CommandWaits DEF CreateSound, UpdateSound, Provided, Made
  <2>3. ProvisionTypeOK'
    BY <1>t, <2>1 DEF ProvisionTypeOK
  <2> QED
    BY <2>1, <2>2, <2>3 DEF ProvisionInv, HistoryKept, KeyKept, SchemaKept
<1>7. ASSUME NEW name \in Resources, DeleteResource(name)
      PROVE  ProvisionInv'
  <2>1. /\ resources' = resources \ {name} /\ removed' = removed \cup {name}
        /\ fromScratch' = FALSE /\ subscribed' = (subscribed /\ name # "emailEvents")
        /\ UNCHANGED <<project, upstream, localVars, live, databases, schema, emailSending,
                       secrets, key, data, present, server, cli, migratedByScript>>
    BY <1>7 DEF DeleteResource
  <2>2. Made \cup removed \subseteq (Made \cup removed)'
    BY <2>1 DEF Made
  <2>3. \A k \in 1 .. 19 : CreateSound(k) => CreateSound(k)'
    BY <2>1, <2>2, ProvidedGrows DEF CreateSound
  <2>4. CliTyped' /\ CommandSound'
    BY <1>t, <2>1, <2>3, CommandWaits DEF UpdateSound
  <2>5. subscribed' \in BOOLEAN
    BY <2>1
  <2>6. ProvisionTypeOK'
    BY <1>t, <2>1, <2>5 DEF ProvisionTypeOK
  <2>7. HistoryKept'
    BY <2>1 DEF ProvisionInv, HistoryKept
  <2> QED
    BY <2>1, <2>4, <2>6, <2>7 DEF ProvisionInv, KeyKept, SchemaKept
<1>8. ASSUME NEW name \in SecretNames, DeleteSecret(name)
      PROVE  ProvisionInv'
  <2>1. /\ secrets' = secrets \ {name} /\ removed' = removed \cup {name}
        /\ fromScratch' = FALSE
        /\ UNCHANGED <<project, upstream, localVars, live, databases, schema, resources,
                       emailSending, subscribed, key, data, present, server, cli, migratedByScript>>
    BY <1>8 DEF DeleteSecret
  <2>2. Made \cup removed \subseteq (Made \cup removed)'
    BY <2>1 DEF Made
  <2>3. \A k \in 1 .. 19 : CreateSound(k) => CreateSound(k)'
    BY <2>1, <2>2, ProvidedGrows DEF CreateSound
  <2>4. CliTyped' /\ CommandSound'
    BY <1>t, <2>1, <2>3, CommandWaits DEF UpdateSound
  <2>5. ProvisionTypeOK'
    BY <1>t, <2>1 DEF ProvisionTypeOK
  <2>6. HistoryKept'
    BY <2>1 DEF ProvisionInv, HistoryKept
  <2> QED
    BY <2>1, <2>4, <2>5, <2>6 DEF ProvisionInv, KeyKept, SchemaKept
<1>9. ASSUME NEW w \in Workers, DeleteWorker(w)
      PROVE  ProvisionInv'
  <2>1. /\ present' = present \ {w} /\ fromScratch' = FALSE
        /\ \/ server' = NotDeployed /\ secrets' = {} /\ removed' = removed \cup secrets
           \/ UNCHANGED <<server, secrets, removed>>
        /\ UNCHANGED <<project, upstream, localVars, live, databases, schema, resources,
                       emailSending, subscribed, key, data, cli, migratedByScript>>
    BY <1>9 DEF DeleteWorker
  <2>2. secrets \cup removed \subseteq secrets' \cup removed' /\ removed \subseteq removed'
    BY <2>1
  <2>3. Made \cup removed \subseteq (Made \cup removed)'
    BY <2>1, <2>2 DEF Made
  <2>4. /\ server'.release \in Nat /\ server'.release <= server.release
        /\ server' = server \/ server'.database = 0
    BY <1>t, <2>1, ProvisionTypes DEF NotDeployed
  <2>5. ASSUME NEW k \in 1 .. 19, CreateSound(k)
        PROVE  CreateSound(k)'
    <3>1. Provided(k, Made \cup removed)'
      <4>1. Provided(k, Made \cup removed)
        BY <2>5 DEF CreateSound
      <4> QED
        BY <2>3, <4>1 DEF Provided
    <3>2. k \in 6 .. 17 => server'.database # databases
      BY <2>4, <2>5 DEF CreateSound
    <3> QED
      BY <2>1, <2>5, <3>1, <3>2 DEF CreateSound
  <2>6. CliTyped' /\ CommandSound'
    BY <1>t, <2>1, <2>5, CommandWaits DEF UpdateSound
  <2>7. ProvisionTypeOK'
    BY <1>t, <2>1 DEF ProvisionTypeOK
  <2>8. HistoryKept'
    BY <1>t, <2>1, <2>2, <2>4, ProvisionTypes DEF ProvisionInv, HistoryKept
  <2>9. KeyKept' /\ SchemaKept'
    BY <1>t, <2>1, <2>4, ProvisionTypes DEF ProvisionInv, KeyKept, SchemaKept
  <2> QED
    BY <2>6, <2>7, <2>8, <2>9 DEF ProvisionInv
<1> QED
  BY <1>1, <1>2, <1>3, <1>4, <1>5, <1>6, <1>7, <1>8, <1>9 DEF Deletion

(* Steps that fetch the source, that only look, and that only add.         *)
LEMMA StepsAdd ==
  ASSUME ProvisionInv,
         \/ FetchSource \/ RunsOnly \/ EnableEmail
         \/ \E name \in Resources : AllowExisting(name)
  PROVE  ProvisionInv'
<1> USE DEF cloudVars, localVars, historyVars
<1>t. ProvisionTypeOK /\ CliTyped /\ CommandSound /\ HistoryKept
  BY DEF ProvisionInv
<1>1. CASE FetchSource
  <2>1. PICK step \in {"source", "pull"} :
           /\ Runs(step)
           /\ step = "source" => source' = (IF source = NoSource THEN upstream ELSE source)
           /\ step = "pull" => source' = upstream
    BY <1>1 DEF FetchSource
  <2>2. /\ cli'.command = cli.command
        /\ UNCHANGED <<project, upstream, data, fromScratch, config, cloudVars, migratedByScript, removed>>
    BY <1>t, <1>1, <2>1, StepTaken DEF FetchSource, NothingMade, Runs
  <2>3. source' \in 0 .. upstream /\ source' # NoSource /\ source <= source'
    BY <1>t, <2>1, ProvisionTypes DEF NoSource
  <2>4. \A k \in 1 .. 18 : CreateSteps[k] = step => k = 1
    BY <2>1, CreateTable
  <2>5. CreateSound(1) => CreateSound(2)'
    BY <2>2, <2>3 DEF CreateSound, Provided, Made
  <2>6. \A k \in 1 .. 5 : Update[k] = step => k = 1
    BY <2>1, ShortTables
  <2>7. UpdateSound(2)'
    BY <2>3 DEF UpdateSound
  <2>8. CliTyped' /\ CommandSound'
    BY <1>t, <2>1, <2>3, <2>4, <2>5, <2>6, <2>7, CommandAdvances
  <2>9. ProvisionTypeOK' /\ HistoryKept'
    BY <1>t, <2>2, <2>3, ProvisionTypes DEF ProvisionTypeOK, HistoryKept
  <2> QED
    BY <2>2, <2>8, <2>9 DEF ProvisionInv, KeyKept, SchemaKept
<1>2. CASE RunsOnly
  <2>1. PICK step \in {"install", "whoami", "route"} : Runs(step)
    BY <1>2 DEF RunsOnly
  <2>2. /\ cli'.command = cli.command
        /\ UNCHANGED <<project, upstream, data, fromScratch, localVars, cloudVars, migratedByScript, removed>>
    BY <1>t, <1>2, <2>1, StepTaken DEF RunsOnly, NotSource, NothingMade, Runs
  <2>3. \A k \in 1 .. 18 : CreateSteps[k] = step => k \in {2, 3}
    BY <2>1, CreateTable
  <2>4. \A k \in {2, 3} : CreateSound(k) => CreateSound(k + 1)'
    BY <2>2 DEF CreateSound, Provided, Made
  <2>5. \A k \in 1 .. 5 : Update[k] = step => k = 2
    BY <2>1, ShortTables
  <2>6. UpdateSound(2) => UpdateSound(3)'
    BY <2>2 DEF UpdateSound
  <2>7. CliTyped' /\ CommandSound'
    BY <1>t, <2>1, <2>2, <2>3, <2>4, <2>5, <2>6, CommandAdvances
  <2> QED
    BY <2>2, <2>7 DEF ProvisionInv, ProvisionTypeOK, HistoryKept, KeyKept, SchemaKept
<1>3. CASE EnableEmail
  <2>1. /\ Runs("email") /\ emailSending' = TRUE
        /\ UNCHANGED <<project, upstream, data, fromScratch, localVars, live, databases, schema,
                       resources, subscribed, secrets, key, present, server, migratedByScript, removed>>
    BY <1>3 DEF EnableEmail, NotSource, Runs
  <2>2. \A k \in 1 .. 18 : CreateSteps[k] = "email" => k = 4
    BY CreateTable
  <2>3. CreateSound(4) => CreateSound(5)'
    BY <2>1 DEF CreateSound, Provided, Made
  <2>4. \A k \in 1 .. 5 : Update[k] # "email"
    BY ShortTables
  <2>5. CliTyped' /\ CommandSound' /\ cli'.command = cli.command
    BY <1>t, <2>1, <2>2, <2>3, <2>4, CommandAdvances, StepTaken
  <2>6. ProvisionTypeOK'
    BY <1>t, <2>1, <2>5 DEF ProvisionTypeOK
  <2> QED
    BY <2>1, <2>5, <2>6 DEF ProvisionInv, HistoryKept, KeyKept, SchemaKept
<1>4. ASSUME NEW name \in Resources, AllowExisting(name)
      PROVE  ProvisionInv'
  <2>1. /\ Runs(name) /\ resources' = resources \cup {name} /\ removed' = removed \ {name}
        /\ UNCHANGED <<project, upstream, data, fromScratch, localVars, live, databases, schema,
                       emailSending, subscribed, secrets, key, present, server, migratedByScript>>
    BY <1>4 DEF AllowExisting, NotSource, Runs
  <2>2. \A k \in 1 .. 18 : CreateSteps[k] = name =>
           \/ k = 6 /\ name = "bucket"
           \/ k = 7 /\ name = "jobs"
           \/ k = 8 /\ name = "delivery"
           \/ k = 9 /\ name = "deadLetter"
           \/ k = 10 /\ name = "emailEvents"
    BY CreateTable DEF Resources, Queues
  <2>3. ASSUME NEW k \in 1 .. 18, CreateSteps[k] = name, CreateSound(k)
        PROVE  CreateSound(k + 1)'
    <3>1. /\ Made' = Made \cup {name}
          /\ Made \cup removed \cup {name} \subseteq (Made \cup removed)'
      BY <2>1 DEF Made
    <3>2. Provided(k + 1, Made \cup removed)'
      BY <2>2, <2>3, <3>1 DEF CreateSound, Provided
    <3>3. fromScratch => Provided(k + 1, Made)'
      BY <2>2, <2>3, <3>1 DEF CreateSound, Provided
    <3> QED
      BY <2>1, <2>2, <2>3, <3>2, <3>3 DEF CreateSound
  <2>4. \A k \in 1 .. 5 : Update[k] # name
    BY ShortTables DEF Resources, Queues
  <2>5. CliTyped' /\ CommandSound' /\ cli'.command = cli.command
    BY <1>t, <2>1, <2>3, <2>4, CommandAdvances, StepTaken
  <2>6. ProvisionTypeOK'
    BY <1>t, <2>1, <2>5 DEF ProvisionTypeOK
  <2>7. "emailEvents" \in resources' => Resources \subseteq resources' \cup removed'
    <3>1. CASE "emailEvents" \in resources
      BY <1>t, <2>1, <3>1 DEF HistoryKept
    <3>2. CASE name = "emailEvents"
      <4>1. CreateSteps[10] = name
        BY <3>2, CreateStepsAre
      <4>2. CreateSound(10)
        BY <1>t, <2>1, <4>1, CreateTaken
      <4>3. {"bucket", "jobs", "delivery", "deadLetter"} \subseteq Made \cup removed
        BY <4>2 DEF CreateSound, Provided
      <4>4. {"bucket", "jobs", "delivery", "deadLetter"} \cap secrets = {}
        BY <1>t DEF ProvisionTypeOK, SecretNames
      <4> QED
        BY <2>1, <3>2, <4>3, <4>4 DEF Made, Resources, Queues
    <3> QED
      BY <2>1, <3>1, <3>2
  <2>8. HistoryKept'
    <3>1. SecretNames \subseteq secrets \cup removed => SecretNames \subseteq secrets' \cup removed'
      BY <2>1, NamesApart
    <3> QED
      BY <1>t, <2>1, <2>7, <3>1 DEF HistoryKept
  <2> QED
    BY <2>1, <2>5, <2>6, <2>8 DEF ProvisionInv, KeyKept, SchemaKept
<1> QED
  BY <1>1, <1>2, <1>3, <1>4

(* Steps of a create alone: its database, its config and its secrets.      *)
LEMMA StepsCreate ==
  ASSUME ProvisionInv,
         \/ CreateDatabase \/ RewriteWorkerConfigs
         \/ \E name \in SecretNames : PutSecret(name)
  PROVE  ProvisionInv'
<1> USE DEF cloudVars, localVars, historyVars
<1>t. ProvisionTypeOK /\ CliTyped /\ CommandSound /\ HistoryKept
  BY DEF ProvisionInv
<1>1. CASE CreateDatabase
  <2> DEFINE d == databases + 1
  <2>1. /\ Runs("d1") /\ live = {}
        /\ databases' = databases + 1 /\ live' = live \cup {databases + 1}
        /\ UNCHANGED <<project, upstream, data, fromScratch, localVars, schema, resources,
                       emailSending, subscribed, secrets, key, present, server, migratedByScript,
                       removed>>
    BY <1>1 DEF CreateDatabase, NotSource, Runs, Succeeds
  <2>2. CreateSteps[5] = "d1" /\ \A k \in 1 .. 18 : CreateSteps[k] = "d1" => k = 5
    BY CreateTable, CreateStepsAre
  <2>3. CreateSound(5)
    BY <1>t, <2>1, <2>2, CreateTaken
  <2>4. databases \in Nat /\ d \in Databases /\ server.database < d
    BY <1>t, <2>3, ProvisionTypes DEF CreateSound, Databases
  <2>5. data[d] = {}
    BY <1>t, <2>4 DEF HistoryKept
  <2>6. databases' = d /\ live' = {d}
    BY <2>1
  <2>7. CreateSound(6)'
    <3>1. source # NoSource /\ (fromScratch => config = Placeholder)
      BY <2>3 DEF CreateSound
    <3>2. d # 0 /\ server.database # d
      BY <1>t, <2>4, ProvisionTypes
    <3> QED
      BY <2>1, <2>5, <2>6, <3>1, <3>2 DEF CreateSound, Provided, Made
  <2>8. \A k \in 1 .. 5 : Update[k] # "d1"
    BY ShortTables
  <2>9. CliTyped' /\ CommandSound' /\ cli'.command = cli.command
    BY <1>t, <2>1, <2>2, <2>7, <2>8, CommandAdvances, StepTaken
  <2>10. ProvisionTypeOK'
    <3>1. databases' \in 0 .. MaxDatabase /\ live' \subseteq 1 .. databases'
          /\ config' \in 0 .. databases'
      BY <1>t, <2>1, <2>4, <2>6, ProvisionTypes DEF Databases
    <3>2. server' \in {NotDeployed} \cup
            [release : 1 .. upstream', database : 1 .. databases', by : {"create", "update", "domain"}]
      <4>1. 1 .. databases \subseteq 1 .. databases'
        BY <2>4, <2>6
      <4> QED
        BY <1>t, <2>1, <4>1 DEF ProvisionTypeOK
    <3> QED
      BY <1>t, <2>1, <2>9, <3>1, <3>2 DEF ProvisionTypeOK
  <2>11. HistoryKept'
    BY <1>t, <2>1, <2>4, <2>6 DEF HistoryKept, Databases
  <2>12. KeyKept' /\ SchemaKept'
    BY <2>1, <2>4, <2>5, <2>6, <1>t, ProvisionTypes DEF KeyKept, SchemaKept
  <2> QED
    BY <2>9, <2>10, <2>11, <2>12 DEF ProvisionInv
<1>2. CASE RewriteWorkerConfigs
  <2>1. /\ Runs("config")
        /\ config' = (IF config = Placeholder THEN databases ELSE config)
        /\ UNCHANGED <<project, upstream, data, fromScratch, source, cloudVars, migratedByScript,
                       removed>>
    BY <1>2 DEF RewriteWorkerConfigs, NothingMade, Runs
  <2>2. \A k \in 1 .. 18 : CreateSteps[k] = "config" => k = 11
    BY CreateTable
  <2>3. CreateSound(11) => CreateSound(12)'
    BY <2>1 DEF CreateSound, Provided, Made
  <2>4. \A k \in 1 .. 5 : Update[k] # "config"
    BY ShortTables
  <2>5. CliTyped' /\ CommandSound' /\ cli'.command = cli.command
    BY <1>t, <2>1, <2>2, <2>3, <2>4, CommandAdvances, StepTaken
  <2>6. config' \in 0 .. databases
    BY <1>t, <2>1, ProvisionTypes
  <2>7. ProvisionTypeOK'
    BY <1>t, <2>1, <2>5, <2>6 DEF ProvisionTypeOK
  <2> QED
    BY <2>1, <2>5, <2>7 DEF ProvisionInv, HistoryKept, KeyKept, SchemaKept
<1>3. ASSUME NEW name \in SecretNames, PutSecret(name)
      PROVE  ProvisionInv'
  <2>1. /\ Runs(name) /\ secrets' = secrets \cup {name} /\ removed' = removed \ {name}
        /\ present' = present \cup {"server"}
        /\ key' = (IF name = "CREDENTIAL_ENCRYPTION_KEY" THEN key + 1 ELSE key)
        /\ UNCHANGED <<project, upstream, data, fromScratch, localVars, live, databases, schema,
                       resources, emailSending, subscribed, server, migratedByScript>>
    BY <1>3 DEF PutSecret, NotSource, Runs
  <2>2. \A k \in 1 .. 18 : CreateSteps[k] = name =>
           \/ k = 12 /\ name = "BETTER_AUTH_SECRET"
           \/ k = 13 /\ name = "CREDENTIAL_ENCRYPTION_KEY"
           \/ k = 14 /\ name = "TRACKING_SIGNING_SECRET"
    BY CreateTable DEF SecretNames
  <2>3. ASSUME NEW k \in 1 .. 18, CreateSteps[k] = name, CreateSound(k)
        PROVE  CreateSound(k + 1)'
    <3>1. /\ Made' = Made \cup {name}
          /\ Made \cup removed \cup {name} \subseteq (Made \cup removed)'
      BY <2>1 DEF Made
    <3>2. Provided(k + 1, Made \cup removed)'
      BY <2>2, <2>3, <3>1 DEF CreateSound, Provided
    <3>3. fromScratch => Provided(k + 1, Made)'
      BY <2>2, <2>3, <3>1 DEF CreateSound, Provided
    <3> QED
      BY <2>1, <2>2, <2>3, <3>2, <3>3 DEF CreateSound
  <2>4. \A k \in 1 .. 5 : Update[k] # name
    BY ShortTables DEF SecretNames
  <2>5. CliTyped' /\ CommandSound' /\ cli'.command = cli.command
    BY <1>t, <2>1, <2>3, <2>4, CommandAdvances, StepTaken
  <2>6. ProvisionTypeOK'
    <3>1. key' \in Nat /\ secrets' \subseteq SecretNames /\ present' \subseteq Workers
      BY <1>t, <2>1 DEF ProvisionTypeOK, Workers
    <3> QED
      BY <1>t, <2>1, <2>5, <3>1 DEF ProvisionTypeOK
  <2>7. HistoryKept'
    <3>1. /\ secrets \cup removed \subseteq secrets' \cup removed'
          /\ Resources \subseteq resources \cup removed => Resources \subseteq resources' \cup removed'
      BY <2>1, NamesApart
    <3> QED
      BY <1>t, <2>1, <3>1 DEF HistoryKept
  <2>8. KeyKept'
    <3>1. CASE name = "CREDENTIAL_ENCRYPTION_KEY"
      <4>1. CreateSteps[13] = name
        BY <3>1, CreateStepsAre
      <4>2. CreateSound(13)
        BY <1>t, <2>1, <4>1, CreateTaken
      <4>3. live \subseteq {databases} /\ data[databases] = {}
        BY <4>2 DEF CreateSound
      <4> QED
        BY <2>1, <4>3 DEF KeyKept
    <3>2. CASE name # "CREDENTIAL_ENCRYPTION_KEY"
      BY <2>1, <3>2 DEF ProvisionInv, KeyKept
    <3> QED
      BY <3>1, <3>2
  <2> QED
    BY <2>1, <2>5, <2>6, <2>7, <2>8 DEF ProvisionInv, SchemaKept
<1> QED
  BY <1>1, <1>2, <1>3

(* Migrations and deployments, which three of the commands run.            *)
LEMMA StepsDeploy ==
  ASSUME ProvisionInv, ApplyMigrations \/ DeployWorker
  PROVE  ProvisionInv'
<1> USE DEF cloudVars, localVars, historyVars
<1>t. ProvisionTypeOK /\ CliTyped /\ CommandSound /\ HistoryKept
  BY DEF ProvisionInv
<1>1. CASE ApplyMigrations
  <2>1. PICK step \in {"migrate", "migrateByScript"} :
          /\ Runs(step)
          /\ step = "migrate" => UNCHANGED migratedByScript
          /\ step = "migrateByScript" =>
               migratedByScript' = migratedByScript \cup (IF schema[config] = 0 THEN {config} ELSE {})
    BY <1>1 DEF ApplyMigrations
  <2>2. /\ schema' = [schema EXCEPT ![config] = source] /\ config \in live
        /\ UNCHANGED <<project, upstream, data, fromScratch, localVars, live, databases, resources,
                       emailSending, subscribed, secrets, key, present, server, removed>>
    BY <1>1, <2>1 DEF ApplyMigrations, Runs, Succeeds
  <2>3. config \in Databases /\ source \in 0 .. upstream
    BY <1>t, <2>2, ProvisionTypes
  <2>4. /\ schema' \in [Databases -> 0 .. upstream]
        /\ schema'[config] = source
        /\ \A d \in Databases : d # config => schema'[d] = schema[d]
    BY <1>t, <2>2, <2>3 DEF ProvisionTypeOK
  <2>5. \A k \in 1 .. 18 : CreateSteps[k] = step => k = 15 /\ step = "migrate"
    BY <2>1, CreateTable
  <2>6. CreateSound(15) => CreateSound(16)'
    BY <2>2, <2>3, <2>4 DEF CreateSound, Provided, Made
  <2>7. \A k \in 1 .. 5 : Update[k] = step => k = 3
    BY <2>1, ShortTables
  <2>8. UpdateSound(3) => UpdateSound(4)'
    BY <2>2, <2>3, <2>4 DEF UpdateSound
  <2>9. CliTyped' /\ CommandSound' /\ cli'.command = cli.command
    BY <1>t, <2>1, <2>2, <2>5, <2>6, <2>7, <2>8, CommandAdvances, StepTaken
  <2>10. migratedByScript' \subseteq Databases /\ migratedByScript \subseteq migratedByScript'
    BY <1>t, <2>1, <2>3 DEF ProvisionTypeOK
  <2>11. ProvisionTypeOK'
    BY <1>t, <2>2, <2>4, <2>9, <2>10 DEF ProvisionTypeOK
  <2>12. ASSUME NEW d \in Databases, schema'[d] > 0
         PROVE  d \in migratedByScript' \/ SecretNames \subseteq secrets' \cup removed'
    <3>1. CASE schema[d] > 0
      BY <1>t, <2>2, <2>10, <3>1 DEF HistoryKept
    <3>2. CASE d = config /\ schema[d] = 0 /\ step = "migrateByScript"
      BY <2>1, <3>2
    <3>3. CASE step = "migrate"
      <4>1. CreateSteps[15] = step
        BY <3>3, CreateStepsAre
      <4>2. CreateSound(15)
        BY <1>t, <2>1, <4>1, CreateTaken
      <4>3. SecretNames \subseteq Made \cup removed
        BY <4>2 DEF CreateSound, Provided, SecretNames
      <4>4. SecretNames \cap resources = {}
        BY <1>t DEF ProvisionTypeOK, SecretNames, Resources, Queues
      <4> QED
        BY <2>2, <4>3, <4>4 DEF Made
    <3>4. schema[d] \in Nat
      BY <1>t DEF ProvisionTypeOK
    <3> QED
      BY <2>1, <2>4, <2>12, <3>1, <3>2, <3>3, <3>4
  <2>13. HistoryKept'
    BY <1>t, <2>2, <2>12 DEF HistoryKept
  <2>14. SchemaKept'
    BY <1>t, <2>2, <2>4, ProvisionTypes DEF ProvisionInv, SchemaKept, HistoryKept
  <2> QED
    BY <2>2, <2>9, <2>11, <2>13, <2>14 DEF ProvisionInv, KeyKept
<1>2. CASE DeployWorker
  <2>1. PICK step \in {"bootstrap", "server", "agent", "client"} :
          /\ Runs(step)
          /\ step # "server" => UNCHANGED server
          /\ step = "server" => server' = [release |-> source, database |-> config, by |-> cli.command]
          /\ present' = present \cup {IF step = "bootstrap" THEN "agent" ELSE step}
    BY <1>2 DEF DeployWorker
  <2>2. /\ UNCHANGED <<project, upstream, data, fromScratch, localVars, live, databases, schema,
                       resources, emailSending, subscribed, secrets, key, migratedByScript, removed>>
        /\ step = "server" => config \in live
    BY <1>2, <2>1 DEF DeployWorker, NotSource, Runs, Succeeds
  <2>3. \A k \in 1 .. 18 : CreateSteps[k] = step =>
           \/ k = 16 /\ step = "bootstrap"
           \/ k = 17 /\ step = "server"
           \/ k = 18 /\ step = "agent"
    BY <2>1, CreateTable
  <2>4. ASSUME NEW k \in 1 .. 18, CreateSteps[k] = step, CreateSound(k)
        PROVE  CreateSound(k + 1)'
    <3>1. UNCHANGED <<Made, removed>>
      BY <2>2 DEF Made
    <3>2. Provided(k + 1, Made \cup removed)' /\ (fromScratch => Provided(k + 1, Made)')
      BY <2>3, <2>4, <3>1 DEF CreateSound, Provided
    <3>3. source # NoSource
      BY <2>3, <2>4 DEF CreateSound
    <3>4. step = "server" => server'.release # 0 /\ server' # NotDeployed
      BY <2>1, <3>3 DEF NotDeployed, NoSource
    <3>5. k + 1 \in {17, 18, 19} /\ (k + 1 = 17 => step = "bootstrap")
      BY <2>3, <2>4
    <3>6. k + 1 = 17 => /\ UNCHANGED server
                        /\ "agent" \in present'
      BY <2>1, <3>5
    <3>7. /\ "agent" \in present => "agent" \in present'
          /\ k + 1 = 18 => server' # NotDeployed
          /\ k + 1 = 19 => UNCHANGED server
      BY <2>1, <2>3, <2>4, <3>4
    <3> QED
      BY <2>2, <2>4, <3>2, <3>5, <3>6, <3>7 DEF CreateSound
  <2>5. \A k \in 1 .. 5 : Update[k] = step => k \in {4, 5}
    BY <2>1, ShortTables
  <2>6. \A k \in {4, 5} : UpdateSound(k) => UpdateSound(k + 1)'
    BY <2>2 DEF UpdateSound
  <2>7. CliTyped' /\ CommandSound' /\ cli'.command = cli.command
    BY <1>t, <2>1, <2>2, <2>4, <2>5, <2>6, CommandAdvances, StepTaken
  <2>8. CASE step # "server"
    <3>1. present' \subseteq Workers
      BY <1>t, <2>1 DEF ProvisionTypeOK, Workers
    <3>2. ProvisionTypeOK'
      BY <1>t, <2>1, <2>2, <2>7, <2>8, <3>1 DEF ProvisionTypeOK
    <3> QED
      BY <2>1, <2>2, <2>7, <2>8, <3>2 DEF ProvisionInv, HistoryKept, KeyKept, SchemaKept
  <2>9. CASE step = "server"
    <3>1. /\ server' = [release |-> source, database |-> config, by |-> cli.command]
          /\ config \in live
      BY <2>1, <2>2, <2>9
    <3>2. /\ source # NoSource
          /\ cli.command \in {"create", "update", "domain"}
          /\ cli.command # "domain" => schema[config] = source
      <4>1. /\ \A k \in 1 .. 2 : PrepareSource[k] # step
            /\ \A k \in 1 .. 19 : CreateSteps[k] = step => k = 17
            /\ \A k \in 1 .. 6 : Update[k] = step => k = 4
        BY <2>9, CreateTable, ShortTables
      <4>2. CreateSound(17) => source # NoSource /\ schema[config] = source
        BY DEF CreateSound
      <4>3. UpdateSound(4) => source # NoSource /\ schema[config] = source
        BY DEF UpdateSound
      <4> QED
        BY <1>t, <2>1, <4>1, <4>2, <4>3, StepTaken
    <3>3. source \in 1 .. upstream /\ config \in 1 .. databases
      BY <1>t, <3>1, <3>2, ProvisionTypes DEF NoSource
    <3>4. server' \in [release : 1 .. upstream, database : 1 .. databases,
                       by : {"create", "update", "domain"}]
      BY <3>1, <3>2, <3>3
    <3>5. present' \subseteq Workers
      BY <1>t, <2>1 DEF ProvisionTypeOK, Workers
    <3>6. ProvisionTypeOK'
      BY <1>t, <2>2, <2>7, <3>4, <3>5 DEF ProvisionTypeOK
    <3>7. server'.release = source /\ server'.database = config /\ server'.by = cli.command
      BY <3>1
    <3>8. SchemaKept'
      BY <2>2, <3>2, <3>3, <3>7 DEF SchemaKept
    <3>9. HistoryKept'
      BY <1>t, <2>2, <3>3, <3>7 DEF HistoryKept
    <3> QED
      BY <2>2, <2>7, <3>6, <3>8, <3>9 DEF ProvisionInv, KeyKept
  <2> QED
    BY <2>8, <2>9
<1> QED
  BY <1>1, <1>2

LEMMA ProvisionInvStep ==
  ASSUME ProvisionInv, [ProvisionNext]_provisionVars
  PROVE  ProvisionInv'
<1>1. CASE UNCHANGED provisionVars
  <2>1. CliTyped' /\ CommandSound'
    BY <1>1, CommandWaits DEF ProvisionInv, provisionVars, cloudVars, localVars, historyVars,
       CreateSound, UpdateSound, Provided, Made
  <2> QED
    BY <1>1, <2>1 DEF ProvisionInv, provisionVars, cloudVars, localVars, historyVars, ProvisionTypeOK,
       HistoryKept, KeyKept, SchemaKept
<1> QED
  BY <1>1, CommandStarts, OthersAct, StepsAdd, StepsCreate, StepsDeploy DEF ProvisionNext

(* What the invariant says of the step that is next and of doctor.         *)
LEMMA ProvisionInvSound == ProvisionInv => ProvisioningSound
<1> SUFFICES ASSUME ProvisionInv PROVE CreateGoesThrough /\ LeftComplete
  BY DEF ProvisionInv, ProvisioningSound
<1>1. CreateGoesThrough
  <2> SUFFICES ASSUME cli.command = "create", cli.left # <<>>, fromScratch
               PROVE  Succeeds(Head(cli.left))
    BY DEF CreateGoesThrough
  <2>1. CASE \E k \in 1 .. 2 : cli.left = Rest(PrepareSource, k)
    <3>1. PICK k \in 1 .. 2 : Head(cli.left) = PrepareSource[k]
      BY <2>1, CommandsUnroll DEF Unrolls
    <3>2. Head(cli.left) \in {"source", "install"}
      BY <3>1, ShortTables
    <3> QED
      BY <3>2 DEF Succeeds
  <2>2. CASE \E k \in 1 .. 19 : cli.left = Rest(CreateSteps, k) /\ CreateSound(k)
    <3>1. PICK k \in 1 .. 19 : cli.left = Rest(CreateSteps, k) /\ CreateSound(k)
      BY <2>2
    <3>2. Head(cli.left) = CreateSteps[k]
      BY <3>1, CommandsUnroll DEF Unrolls
    <3>3. k > 10 => resources = Resources
      <4>1. k > 10 => Resources \subseteq Made
        BY <3>1 DEF CreateSound, Provided, Resources, Queues
      <4>2. resources \subseteq Resources /\ secrets \cap Resources = {}
        BY DEF ProvisionInv, ProvisionTypeOK, SecretNames, Resources, Queues
      <4> QED
        BY <4>1, <4>2 DEF Made
    <3>4. /\ k = 5 => live = {}
          /\ k > 11 => config \in live
          /\ k > 16 => "agent" \in present
          /\ k > 17 => server # NotDeployed
      BY <3>1 DEF CreateSound
    <3> HIDE DEF CreateSound
    <3>5. Succeeds(CreateSteps[k])
      <4>1. CASE CreateSteps[k] \in {"d1", "migrate", "server", "agent", "client"}
        <5>1. \/ k = 5 /\ CreateSteps[k] = "d1"
              \/ k = 15 /\ CreateSteps[k] = "migrate"
              \/ k = 17 /\ CreateSteps[k] = "server"
              \/ k \in {18, 19} /\ CreateSteps[k] \in {"agent", "client"}
          BY <4>1, CreateTable
        <5> QED
          BY <3>3, <3>4, <5>1 DEF Succeeds
      <4>2. CASE CreateSteps[k] \notin {"d1", "migrate", "server", "agent", "client"}
        <5>1. CreateSteps[k] # "migrateByScript"
          BY CreateTable
        <5> QED
          BY <4>2, <5>1 DEF Succeeds
      <4> QED
        BY <4>1, <4>2
    <3> QED
      BY <3>2, <3>5
  <2> QED
    BY <2>1, <2>2 DEF ProvisionInv, CommandSound
<1>2. LeftComplete
  BY ProvisionTypes DEF ProvisionInv, HistoryKept, LeftComplete, Doctor
<1> QED
  BY <1>1, <1>2

(* The state of an installation and of the command that runs keeps its     *)
(* types.                                                                  *)
THEOREM ProvisionTypeCorrect == ProvisionSpec => []ProvisionTypeOK
<1>1. ProvisionInv => ProvisionTypeOK
  BY DEF ProvisionInv
<1> QED
  BY <1>1, ProvisionInvInit, ProvisionInvStep, PTL DEF ProvisionSpec

(* However often commands stop half way and are run again, and whatever is *)
(* deleted meanwhile: stored credentials are of the encryption key put     *)
(* last, the server is not ahead of its schema unless a domain was         *)
(* added after an update that failed, a first create under which nothing   *)
(* is deleted is stopped by nothing of its own, and what is missing while  *)
(* doctor is content was deleted by hand, or is a secret after an update   *)
(* on a create that had stopped.                                           *)
(* (create-openengage/src/index.ts, provisioning.ts)                       *)
THEOREM ProvisioningAlwaysSound == ProvisionSpec => []ProvisioningSound
BY ProvisionInvInit, ProvisionInvStep, ProvisionInvSound, PTL DEF ProvisionSpec

-----------------------------------------------------------------------------
(* A definition as the editor keeps it, in the reducer and on the screen.  *)
Shape(g) ==
  /\ g.kind \in [Nodes(g) -> Kinds] /\ Nodes(g) \subseteq NodeIds
  /\ g.edges \subseteq Edges
GraphSound(g) ==
  /\ OneSource(g) /\ EndpointsExist(g) /\ BranchesAccepted(g)
  /\ OneEdgePerBranch(g) /\ Acyclic(g)
StateSound(b) == IsBuilderState(b) /\ GraphSound(b)

BuilderInv == StateSound(builder) /\ StateSound(rendered)

-----------------------------------------------------------------------------
(* What is looked at of a definition are its nodes and its edges.          *)

LEMMA Definition ==
  ASSUME NEW g, NEW kinds, NEW edges, NEW sel, NEW b,
         b = [kind |-> kinds, edges |-> edges, selected |-> sel],
         g.kind = kinds, g.edges = edges
  PROVE  GraphSound(g) <=> GraphSound(b)
BY DEF GraphSound, OneSource, SourceNodes, Nodes, EndpointsExist, BranchesAccepted,
       OneEdgePerBranch, Acyclic

\* Fewer edges between the same nodes are as good.
LEMMA FewerEdges ==
  ASSUME NEW g, NEW h, GraphSound(g), h.kind = g.kind, h.edges \subseteq g.edges
  PROVE  GraphSound(h)
<1>1. OneSource(h) /\ EndpointsExist(h) /\ BranchesAccepted(h) /\ OneEdgePerBranch(h)
  BY DEF GraphSound, OneSource, SourceNodes, Nodes, EndpointsExist, BranchesAccepted,
         OneEdgePerBranch
<1>2. Acyclic(h)
  BY DEF GraphSound, Acyclic, Nodes
<1>3. QED
  BY <1>1, <1>2 DEF GraphSound

\* The branches the editor offers are ones the engine knows.
LEMMA OfferedAccepted ==
  ASSUME NEW k \in Kinds
  PROVE  /\ \A i \in DOMAIN ConnectionBranches(k) :
              ConnectionBranches(k)[i] \in BranchesByNodeType[k]
         /\ \A i \in DOMAIN ConnectionBranches(k) : ConnectionBranches(k)[i] \in Branches
<1>1. CASE k = "condition"
  BY <1>1 DEF ConnectionBranches, BranchesByNodeType, Kinds, Branches
<1>2. CASE k = "decision"
  BY <1>2 DEF ConnectionBranches, BranchesByNodeType, Kinds, Branches
<1>3. CASE k \notin {"condition", "decision"}
  BY <1>3 DEF ConnectionBranches, BranchesByNodeType, Kinds, Branches
<1>4. QED
  BY <1>1, <1>2, <1>3

\* connect: the search from the target did not meet the source, so every
\* cycle of the new graph was one of the old.
LEMMA ConnectSound ==
  ASSUME NEW g, Shape(g), GraphSound(g), NEW s, NEW t, NEW b, CanConnect(g, s, t, b),
         NEW h, h.kind = g.kind,
         h.edges = Freed(g, s, b) \cup {[source |-> s, target |-> t, branch |-> b]}
  PROVE  Shape(h) /\ GraphSound(h)
<1> DEFINE new == [source |-> s, target |-> t, branch |-> b]
<1>1. /\ s \in Nodes(g) /\ t \in Nodes(g) /\ Nodes(h) = Nodes(g)
      /\ Freed(g, s, b) \subseteq g.edges
      /\ new.source = s /\ new.target = t /\ new.branch = b
      /\ h.edges = Freed(g, s, b) \cup {new}
  BY DEF CanConnect, Nodes, Freed
<1>2. b \in BranchesByNodeType[g.kind[s]] /\ b \in Branches
  BY <1>1, OfferedAccepted DEF CanConnect, Offers, Shape
<1>3. new \in Edges
  BY <1>1, <1>2 DEF Edges, Shape
<1>4. PICK R \in SUBSET Nodes(g) : t \in R /\ Closed(Freed(g, s, b), R) /\ s \notin R
  BY DEF CanConnect, ConnectionCreatesCycle
<1> HIDE DEF new
<1>5. Shape(h)
  BY <1>1, <1>3 DEF Shape, Nodes
<1>6. OneSource(h) /\ EndpointsExist(h) /\ BranchesAccepted(h)
  BY <1>1, <1>2 DEF GraphSound, OneSource, SourceNodes, Nodes, EndpointsExist, BranchesAccepted
<1>7. OneEdgePerBranch(h)
  BY <1>1 DEF GraphSound, OneEdgePerBranch, Freed
<1>8. Acyclic(h)
  <2> SUFFICES ASSUME NEW S \in (SUBSET Nodes(h)) \ {{}},
                      ~ \E x \in S : \A e \in h.edges : e.source = x => e.target \notin S
               PROVE  FALSE
    BY Zenon DEF Acyclic
  <2>0. \A n \in S : \E e \in h.edges : e.source = n /\ e.target \in S
    OBVIOUS
  <2>1. CASE t \in S
    <3> DEFINE T == S \cap R
    <3>1. T \in SUBSET Nodes(g) /\ T # {}
      BY <1>4, <2>1
    <3>2. ASSUME NEW n \in T PROVE \E e \in g.edges : e.source = n /\ e.target \in T
      <4>1. PICK e \in h.edges : e.source = n /\ e.target \in S
        BY <2>0
      <4>2. n # s
        BY <1>4
      <4>3. e \in Freed(g, s, b)
        BY <1>1, <4>1, <4>2
      <4>4. e.target \in R
        BY <1>4, <4>1, <4>3 DEF Closed
      <4>5. QED
        BY <1>1, <4>1, <4>3, <4>4
    <3> HIDE DEF T
    <3>3. QED
      BY <3>1, <3>2 DEF GraphSound, Acyclic
  <2>2. CASE t \notin S
    <3>1. ASSUME NEW n \in S PROVE \E e \in g.edges : e.source = n /\ e.target \in S
      BY <1>1, <2>0, <2>2
    <3>2. QED
      BY <1>1, <3>1 DEF GraphSound, Acyclic
  <2>3. QED
    BY <2>1, <2>2
<1>9. QED
  BY <1>5, <1>6, <1>7, <1>8 DEF GraphSound

\* addNode: nothing leaves the new node, so no cycle leads through it.
LEMMA AddSound ==
  ASSUME NEW g, Shape(g), GraphSound(g), NEW n \in NodeIds \ Nodes(g),
         NEW kind \in AddedKinds, NEW h,
         h.kind = [m \in Nodes(g) \cup {n} |-> IF m = n THEN kind ELSE g.kind[m]],
         h.edges = g.edges \cup FirstEdge(g, n)
  PROVE  Shape(h) /\ GraphSound(h)
<1>1. /\ Nodes(h) = Nodes(g) \cup {n} /\ h.kind[n] = kind
      /\ \A m \in Nodes(g) : h.kind[m] = g.kind[m]
      /\ kind \in Kinds /\ kind # "source" /\ n \notin Nodes(g)
  BY BuilderAssumption DEF Nodes
<1>2. \A e \in FirstEdge(g, n) :
        /\ e \in Edges /\ e.target = n /\ e.source \in Nodes(g) /\ e.source = g.selected
        /\ e.branch \in BranchesByNodeType[g.kind[e.source]]
        /\ IsFree(g, e.source, e.branch)
  <2> SUFFICES ASSUME NEW e \in FirstEdge(g, n)
               PROVE  /\ e \in Edges /\ e.target = n /\ e.source \in Nodes(g)
                      /\ e.source = g.selected
                      /\ e.branch \in BranchesByNodeType[g.kind[e.source]]
                      /\ IsFree(g, e.source, e.branch)
    OBVIOUS
  <2> DEFINE offered == ConnectionBranches(g.kind[g.selected])
  <2>1. g.selected \in Nodes(g)
    BY DEF FirstEdge
  <2>2. PICK i \in DOMAIN offered :
          /\ IsFree(g, g.selected, offered[i])
          /\ e = [source |-> g.selected, target |-> n, branch |-> offered[i]]
    BY <2>1 DEF FirstEdge
  <2>3. offered[i] \in BranchesByNodeType[g.kind[g.selected]] /\ offered[i] \in Branches
    BY <2>1, <2>2, OfferedAccepted DEF Shape
  <2> HIDE DEF offered
  <2>4. QED
    BY <2>1, <2>2, <2>3 DEF Edges, Shape
<1>3. \A e, f \in FirstEdge(g, n) : e = f
  <2> SUFFICES ASSUME NEW e \in FirstEdge(g, n), NEW f \in FirstEdge(g, n) PROVE e = f
    OBVIOUS
  <2> DEFINE offered == ConnectionBranches(g.kind[g.selected])
             First(i) == /\ IsFree(g, g.selected, offered[i])
                         /\ \A k \in DOMAIN offered : k < i => ~IsFree(g, g.selected, offered[k])
  <2>1. g.selected \in Nodes(g)
    BY DEF FirstEdge
  <2>2. DOMAIN offered \subseteq Nat
    <3>1. g.kind[g.selected] \in Kinds
      BY <2>1 DEF Shape
    <3>2. QED
      BY <3>1 DEF ConnectionBranches
  <2>3. PICK i \in DOMAIN offered : First(i) /\
          e = [source |-> g.selected, target |-> n, branch |-> offered[i]]
    BY <2>1 DEF FirstEdge
  <2>4. PICK j \in DOMAIN offered : First(j) /\
          f = [source |-> g.selected, target |-> n, branch |-> offered[j]]
    BY <2>1 DEF FirstEdge
  <2>5. i \in Nat /\ j \in Nat /\ ~(i < j) /\ ~(j < i)
    BY <2>2, <2>3, <2>4
  <2>6. i = j
    BY <2>5
  <2>7. QED
    BY <2>3, <2>4, <2>6
<1>4. Shape(h)
  <2>1. h.kind \in [Nodes(h) -> Kinds]
    BY <1>1 DEF Shape, Nodes
  <2>2. QED
    BY <1>1, <1>2, <2>1 DEF Shape
<1>5. OneSource(h)
  BY <1>1 DEF GraphSound, OneSource, SourceNodes
<1>6. EndpointsExist(h) /\ BranchesAccepted(h)
  BY <1>1, <1>2 DEF GraphSound, EndpointsExist, BranchesAccepted
<1>7. OneEdgePerBranch(h)
  <2>1. \A e \in g.edges, f \in FirstEdge(g, n) :
          ~(e.source = f.source /\ e.branch = f.branch)
    BY <1>2 DEF IsFree
  <2>2. QED
    BY <1>3, <2>1 DEF GraphSound, OneEdgePerBranch
<1>8. Acyclic(h)
  <2> SUFFICES ASSUME NEW S \in (SUBSET Nodes(h)) \ {{}},
                      ~ \E x \in S : \A e \in h.edges : e.source = x => e.target \notin S
               PROVE  FALSE
    BY Zenon DEF Acyclic
  <2>0. \A m \in S : \E e \in h.edges : e.source = m /\ e.target \in S
    OBVIOUS
  <2>1. \A e \in h.edges : e.source \in Nodes(g)
    BY <1>2 DEF GraphSound, EndpointsExist
  <2>2. n \notin S
    BY <1>1, <2>0, <2>1
  <2>3. \A m \in S : \E e \in g.edges : e.source = m /\ e.target \in S
    BY <1>2, <2>0, <2>2
  <2>4. S \in SUBSET Nodes(g)
    BY <1>1, <2>2
  <2>5. QED
    BY <2>3, <2>4 DEF GraphSound, Acyclic
<1>9. QED
  BY <1>4, <1>5, <1>6, <1>7, <1>8 DEF GraphSound

\* deleteSelectedNode: the node and its edges go together.
LEMMA DeleteSound ==
  ASSUME NEW g, Shape(g), GraphSound(g), NEW d \in Nodes(g), g.kind[d] # "source", NEW h,
         h.kind = [m \in Nodes(g) \ {d} |-> g.kind[m]],
         h.edges = {e \in g.edges : e.source # d /\ e.target # d}
  PROVE  Shape(h) /\ GraphSound(h)
<1>1. /\ Nodes(h) = Nodes(g) \ {d} /\ \A m \in Nodes(h) : h.kind[m] = g.kind[m]
      /\ h.edges \subseteq g.edges /\ \A e \in h.edges : e.source # d /\ e.target # d
  BY DEF Nodes
<1>2. Shape(h)
  BY <1>1 DEF Shape, Nodes
<1>3. OneSource(h)
  <2>1. SourceNodes(h) = SourceNodes(g)
    BY <1>1 DEF SourceNodes
  <2>2. QED
    BY <1>1, <2>1 DEF GraphSound, OneSource, SourceNodes
<1>4. EndpointsExist(h) /\ BranchesAccepted(h) /\ OneEdgePerBranch(h)
  BY <1>1 DEF GraphSound, EndpointsExist, BranchesAccepted, OneEdgePerBranch
<1>5. Acyclic(h)
  <2> SUFFICES ASSUME NEW S \in (SUBSET Nodes(h)) \ {{}},
                      ~ \E x \in S : \A e \in h.edges : e.source = x => e.target \notin S
               PROVE  FALSE
    BY Zenon DEF Acyclic
  <2>0. \A m \in S : \E e \in h.edges : e.source = m /\ e.target \in S
    OBVIOUS
  <2>1. S \in SUBSET Nodes(g) /\ \A m \in S : \E e \in g.edges : e.source = m /\ e.target \in S
    BY <1>1, <2>0
  <2>2. QED
    BY <2>1 DEF GraphSound, Acyclic
<1>6. QED
  BY <1>2, <1>3, <1>4, <1>5 DEF GraphSound

-----------------------------------------------------------------------------
(* The presets.                                                            *)

LEMMA PresetShape ==
  ASSUME NEW p, NEW kinds, NEW edges, NEW first \in NodeIds, p = Preset(kinds, edges, first),
         kinds \in [DOMAIN kinds -> Kinds], DOMAIN kinds \subseteq NodeIds, edges \subseteq Edges
  PROVE  IsBuilderState(p)
BY DEF Preset, IsBuilderState

LEMMA PresetEdges ==
  /\ ChainEdges(<<"source", "first", "wait", "second">>) =
       {[source |-> "source", target |-> "first", branch |-> "next"],
        [source |-> "first", target |-> "wait", branch |-> "next"],
        [source |-> "wait", target |-> "second", branch |-> "next"]}
  /\ ChainEdges(<<"source", "wait", "first">>) =
       {[source |-> "source", target |-> "wait", branch |-> "next"],
        [source |-> "wait", target |-> "first", branch |-> "next"]}
  /\ ChainEdges(<<"source", "first">>) =
       {[source |-> "source", target |-> "first", branch |-> "next"]}
<1>1. ChainEdges(<<"source", "first", "wait", "second">>) =
       {[source |-> "source", target |-> "first", branch |-> "next"],
        [source |-> "first", target |-> "wait", branch |-> "next"],
        [source |-> "wait", target |-> "second", branch |-> "next"]}
  <2> DEFINE ids == <<"source", "first", "wait", "second">>
  <2>1. 1 .. Len(ids) - 1 = {1, 2, 3}
    OBVIOUS
  <2>2. ids[1] = "source" /\ ids[2] = "first" /\ ids[3] = "wait" /\ ids[4] = "second"
    OBVIOUS
  <2>3. ChainEdges(ids) =
          {[source |-> ids[i], target |-> ids[i + 1], branch |-> "next"] : i \in {1, 2, 3}}
    BY <2>1 DEF ChainEdges
  <2> HIDE DEF ids
  <2>4. QED
    BY <2>2, <2>3 DEF ids
<1>2. ChainEdges(<<"source", "wait", "first">>) =
       {[source |-> "source", target |-> "wait", branch |-> "next"],
        [source |-> "wait", target |-> "first", branch |-> "next"]}
  <2> DEFINE ids == <<"source", "wait", "first">>
  <2>1. 1 .. Len(ids) - 1 = {1, 2}
    OBVIOUS
  <2>2. ids[1] = "source" /\ ids[2] = "wait" /\ ids[3] = "first"
    OBVIOUS
  <2>3. ChainEdges(ids) =
          {[source |-> ids[i], target |-> ids[i + 1], branch |-> "next"] : i \in {1, 2}}
    BY <2>1 DEF ChainEdges
  <2> HIDE DEF ids
  <2>4. QED
    BY <2>2, <2>3 DEF ids
<1>3. ChainEdges(<<"source", "first">>) =
       {[source |-> "source", target |-> "first", branch |-> "next"]}
  <2> DEFINE ids == <<"source", "first">>
  <2>1. 1 .. Len(ids) - 1 = {1}
    OBVIOUS
  <2>2. ids[1] = "source" /\ ids[2] = "first"
    OBVIOUS
  <2>3. ChainEdges(ids) =
          {[source |-> ids[i], target |-> ids[i + 1], branch |-> "next"] : i \in {1}}
    BY <2>1 DEF ChainEdges
  <2> HIDE DEF ids
  <2>4. QED
    BY <2>2, <2>3 DEF ids
<1>4. QED
  BY <1>1, <1>2, <1>3

\* A graph in which each node has one way out and none leads to the source.
LEMMA SmallGraph ==
  ASSUME NEW g, "source" \in Nodes(g), g.kind["source"] = "source",
         \A n \in Nodes(g) : n # "source" => g.kind[n] # "source",
         \A e \in g.edges : e.source \in Nodes(g) /\ e.target \in Nodes(g),
         \A e, f \in g.edges : e.source = f.source => e = f
  PROVE  OneSource(g) /\ EndpointsExist(g) /\ OneEdgePerBranch(g)
<1>1. SourceNodes(g) = {"source"}
  BY DEF SourceNodes
<1>2. OneSource(g)
  BY <1>1 DEF OneSource
<1>3. EndpointsExist(g)
  BY DEF EndpointsExist
<1>4. OneEdgePerBranch(g)
  BY Zenon DEF OneEdgePerBranch
<1>5. QED
  BY <1>2, <1>3, <1>4

\* A preset's graph: a chain, along which the last of a set has no successor.
LEMMA PresetsSound == \A p \in Presets : StateSound(p)
<1>1. ASSUME NEW p \in Presets, p = WelcomePreset PROVE StateSound(p)
  <2> DEFINE kinds == [n \in {"source", "first", "wait", "second"} |->
                         IF n = "source" THEN "source"
                         ELSE IF n = "wait" THEN "delay" ELSE "action"]
             edges == {[source |-> "source", target |-> "first", branch |-> "next"],
                       [source |-> "first", target |-> "wait", branch |-> "next"],
                       [source |-> "wait", target |-> "second", branch |-> "next"]}
  <2>1. p = Preset(kinds, edges, "source") /\ p.kind = kinds /\ p.edges = edges
    BY <1>1, PresetEdges DEF WelcomePreset, Preset
  <2>2. Nodes(p) = {"source", "first", "wait", "second"} /\ Nodes(p) \subseteq NodeIds
    BY <2>1 DEF Nodes, Presets
  <2>3. kinds \in [DOMAIN kinds -> Kinds] /\ DOMAIN kinds \subseteq NodeIds
        /\ edges \subseteq Edges
    BY <2>1, <2>2 DEF Nodes, Kinds, Edges, Branches
  <2>4. IsBuilderState(p)
    BY <2>1, <2>3, PresetShape, BuilderAssumption
  <2>5. \A e \in p.edges :
          /\ \/ e.source = "source" /\ e.target = "first" /\ e.branch = "next"
             \/ e.source = "first" /\ e.target = "wait" /\ e.branch = "next"
             \/ e.source = "wait" /\ e.target = "second" /\ e.branch = "next"
          /\ e.source \in Nodes(p) /\ e.target \in Nodes(p)
    BY <2>1, <2>2
  <2>6. OneSource(p) /\ EndpointsExist(p) /\ BranchesAccepted(p) /\ OneEdgePerBranch(p)
    <3>1. /\ "source" \in Nodes(p) /\ p.kind["source"] = "source"
          /\ \A n \in Nodes(p) : n # "source" => p.kind[n] # "source"
      BY <2>1, <2>2
    <3>2. \A e, f \in p.edges : e.source = f.source => e = f
      BY <2>1
    <3>3. OneSource(p) /\ EndpointsExist(p) /\ OneEdgePerBranch(p)
      BY <2>2, <2>5, <3>1, <3>2, SmallGraph
    <3>4. BranchesAccepted(p)
      BY <2>1, <2>2 DEF BranchesAccepted, BranchesByNodeType, Kinds
    <3>5. QED
      BY <3>3, <3>4
  <2>7. Acyclic(p)
    <3> SUFFICES ASSUME NEW S \in (SUBSET Nodes(p)) \ {{}},
                        ~ \E x \in S : \A e \in p.edges : e.source = x => e.target \notin S
                 PROVE  FALSE
      BY Zenon DEF Acyclic
    <3>1. \A x \in S : \E e \in p.edges : e.source = x /\ e.target \in S
      OBVIOUS
    <3>2. "second" \notin S
      BY <2>5, <3>1
    <3>3. "wait" \notin S
      BY <2>5, <3>1, <3>2
    <3>4. "first" \notin S
      BY <2>5, <3>1, <3>3
    <3>5. "source" \notin S
      BY <2>5, <3>1, <3>2, <3>3, <3>4
    <3>6. S \subseteq Nodes(p) /\ S # {}
      OBVIOUS
    <3>7. QED
      BY <2>2, <3>2, <3>3, <3>4, <3>5, <3>6
  <2>8. QED
    BY <2>4, <2>6, <2>7 DEF StateSound, GraphSound
<1>2. ASSUME NEW p \in Presets, p = CartPreset PROVE StateSound(p)
  <2> DEFINE kinds == [n \in {"source", "first", "wait", "second"} |->
                         IF n = "source" THEN "source" ELSE IF n = "wait" THEN "delay"
                         ELSE IF n = "first" THEN "decision" ELSE "action"]
             edges == {[source |-> "source", target |-> "wait", branch |-> "next"],
                       [source |-> "wait", target |-> "first", branch |-> "next"],
                       [source |-> "first", target |-> "second", branch |-> "timeout"]}
  <2>1. p = Preset(kinds, edges, "source") /\ p.kind = kinds /\ p.edges = edges
    BY <1>2, PresetEdges DEF CartPreset, Preset
  <2>2. Nodes(p) = {"source", "first", "wait", "second"} /\ Nodes(p) \subseteq NodeIds
    BY <2>1 DEF Nodes, Presets
  <2>3. kinds \in [DOMAIN kinds -> Kinds] /\ DOMAIN kinds \subseteq NodeIds
        /\ edges \subseteq Edges
    BY <2>1, <2>2 DEF Nodes, Kinds, Edges, Branches
  <2>4. IsBuilderState(p)
    BY <2>1, <2>3, PresetShape, BuilderAssumption
  <2>5. \A e \in p.edges :
          /\ \/ e.source = "source" /\ e.target = "wait" /\ e.branch = "next"
             \/ e.source = "wait" /\ e.target = "first" /\ e.branch = "next"
             \/ e.source = "first" /\ e.target = "second" /\ e.branch = "timeout"
          /\ e.source \in Nodes(p) /\ e.target \in Nodes(p)
    BY <2>1, <2>2
  <2>6. OneSource(p) /\ EndpointsExist(p) /\ BranchesAccepted(p) /\ OneEdgePerBranch(p)
    <3>1. /\ "source" \in Nodes(p) /\ p.kind["source"] = "source"
          /\ \A n \in Nodes(p) : n # "source" => p.kind[n] # "source"
      BY <2>1, <2>2
    <3>2. \A e, f \in p.edges : e.source = f.source => e = f
      BY <2>1
    <3>3. OneSource(p) /\ EndpointsExist(p) /\ OneEdgePerBranch(p)
      BY <2>2, <2>5, <3>1, <3>2, SmallGraph
    <3>4. BranchesAccepted(p)
      BY <2>1, <2>2 DEF BranchesAccepted, BranchesByNodeType, Kinds
    <3>5. QED
      BY <3>3, <3>4
  <2>7. Acyclic(p)
    <3> SUFFICES ASSUME NEW S \in (SUBSET Nodes(p)) \ {{}},
                        ~ \E x \in S : \A e \in p.edges : e.source = x => e.target \notin S
                 PROVE  FALSE
      BY Zenon DEF Acyclic
    <3>1. \A x \in S : \E e \in p.edges : e.source = x /\ e.target \in S
      OBVIOUS
    <3>2. "second" \notin S
      BY <2>5, <3>1
    <3>3. "first" \notin S
      BY <2>5, <3>1, <3>2
    <3>4. "wait" \notin S
      BY <2>5, <3>1, <3>3
    <3>5. "source" \notin S
      BY <2>5, <3>1, <3>2, <3>3, <3>4
    <3>6. S \subseteq Nodes(p) /\ S # {}
      OBVIOUS
    <3>7. QED
      BY <2>2, <3>2, <3>3, <3>4, <3>5, <3>6
  <2>8. QED
    BY <2>4, <2>6, <2>7 DEF StateSound, GraphSound
<1>3. ASSUME NEW p \in Presets, p = PurchasePreset PROVE StateSound(p)
  <2> DEFINE kinds == [n \in {"source", "first", "wait"} |->
                         IF n = "source" THEN "source"
                         ELSE IF n = "wait" THEN "delay" ELSE "action"]
             edges == {[source |-> "source", target |-> "wait", branch |-> "next"],
                       [source |-> "wait", target |-> "first", branch |-> "next"]}
  <2>1. p = Preset(kinds, edges, "source") /\ p.kind = kinds /\ p.edges = edges
    BY <1>3, PresetEdges DEF PurchasePreset, Preset
  <2>2. Nodes(p) = {"source", "first", "wait"} /\ Nodes(p) \subseteq NodeIds
    BY <2>1 DEF Nodes, Presets
  <2>3. kinds \in [DOMAIN kinds -> Kinds] /\ DOMAIN kinds \subseteq NodeIds
        /\ edges \subseteq Edges
    BY <2>1, <2>2 DEF Nodes, Kinds, Edges, Branches
  <2>4. IsBuilderState(p)
    BY <2>1, <2>3, PresetShape, BuilderAssumption
  <2>5. \A e \in p.edges :
          /\ \/ e.source = "source" /\ e.target = "wait" /\ e.branch = "next"
             \/ e.source = "wait" /\ e.target = "first" /\ e.branch = "next"
          /\ e.source \in Nodes(p) /\ e.target \in Nodes(p)
    BY <2>1, <2>2
  <2>6. OneSource(p) /\ EndpointsExist(p) /\ BranchesAccepted(p) /\ OneEdgePerBranch(p)
    <3>1. /\ "source" \in Nodes(p) /\ p.kind["source"] = "source"
          /\ \A n \in Nodes(p) : n # "source" => p.kind[n] # "source"
      BY <2>1, <2>2
    <3>2. \A e, f \in p.edges : e.source = f.source => e = f
      BY <2>1
    <3>3. OneSource(p) /\ EndpointsExist(p) /\ OneEdgePerBranch(p)
      BY <2>2, <2>5, <3>1, <3>2, SmallGraph
    <3>4. BranchesAccepted(p)
      BY <2>1, <2>2 DEF BranchesAccepted, BranchesByNodeType, Kinds
    <3>5. QED
      BY <3>3, <3>4
  <2>7. Acyclic(p)
    <3> SUFFICES ASSUME NEW S \in (SUBSET Nodes(p)) \ {{}},
                        ~ \E x \in S : \A e \in p.edges : e.source = x => e.target \notin S
                 PROVE  FALSE
      BY Zenon DEF Acyclic
    <3>1. \A x \in S : \E e \in p.edges : e.source = x /\ e.target \in S
      OBVIOUS
    <3>2. "first" \notin S
      BY <2>5, <3>1
    <3>3. "wait" \notin S
      BY <2>5, <3>1, <3>2
    <3>4. "source" \notin S
      BY <2>5, <3>1, <3>2, <3>3
    <3>5. S \subseteq Nodes(p) /\ S # {}
      OBVIOUS
    <3>6. QED
      BY <2>2, <3>2, <3>3, <3>4, <3>5
  <2>8. QED
    BY <2>4, <2>6, <2>7 DEF StateSound, GraphSound
<1>4. ASSUME NEW p \in Presets, p = ReengagementPreset PROVE StateSound(p)
  <2> DEFINE kinds == [n \in {"source", "first"} |->
                         IF n = "source" THEN "source" ELSE "action"]
             edges == {[source |-> "source", target |-> "first", branch |-> "next"]}
  <2>1. p = Preset(kinds, edges, "source") /\ p.kind = kinds /\ p.edges = edges
    BY <1>4, PresetEdges DEF ReengagementPreset, Preset
  <2>2. Nodes(p) = {"source", "first"} /\ Nodes(p) \subseteq NodeIds
    BY <2>1 DEF Nodes, Presets
  <2>3. kinds \in [DOMAIN kinds -> Kinds] /\ DOMAIN kinds \subseteq NodeIds
        /\ edges \subseteq Edges
    BY <2>1, <2>2 DEF Nodes, Kinds, Edges, Branches
  <2>4. IsBuilderState(p)
    BY <2>1, <2>3, PresetShape, BuilderAssumption
  <2>5. \A e \in p.edges :
          /\ \/ e.source = "source" /\ e.target = "first" /\ e.branch = "next"
          /\ e.source \in Nodes(p) /\ e.target \in Nodes(p)
    BY <2>1, <2>2
  <2>6. OneSource(p) /\ EndpointsExist(p) /\ BranchesAccepted(p) /\ OneEdgePerBranch(p)
    <3>1. /\ "source" \in Nodes(p) /\ p.kind["source"] = "source"
          /\ \A n \in Nodes(p) : n # "source" => p.kind[n] # "source"
      BY <2>1, <2>2
    <3>2. \A e, f \in p.edges : e.source = f.source => e = f
      BY <2>1
    <3>3. OneSource(p) /\ EndpointsExist(p) /\ OneEdgePerBranch(p)
      BY <2>2, <2>5, <3>1, <3>2, SmallGraph
    <3>4. BranchesAccepted(p)
      BY <2>1, <2>2 DEF BranchesAccepted, BranchesByNodeType, Kinds
    <3>5. QED
      BY <3>3, <3>4
  <2>7. Acyclic(p)
    <3> SUFFICES ASSUME NEW S \in (SUBSET Nodes(p)) \ {{}},
                        ~ \E x \in S : \A e \in p.edges : e.source = x => e.target \notin S
                 PROVE  FALSE
      BY Zenon DEF Acyclic
    <3>1. \A x \in S : \E e \in p.edges : e.source = x /\ e.target \in S
      OBVIOUS
    <3>2. "first" \notin S
      BY <2>5, <3>1
    <3>3. "source" \notin S
      BY <2>5, <3>1, <3>2
    <3>4. S \subseteq Nodes(p) /\ S # {}
      OBVIOUS
    <3>5. QED
      BY <2>2, <3>2, <3>3, <3>4
  <2>8. QED
    BY <2>4, <2>6, <2>7 DEF StateSound, GraphSound
<1>5. QED
  BY <1>1, <1>2, <1>3, <1>4 DEF Presets

-----------------------------------------------------------------------------
(* The handlers.                                                           *)

LEMMA StateShape ==
  ASSUME NEW b, StateSound(b)
  PROVE  Shape(b) /\ GraphSound(b) /\ b.selected \in NodeIds \cup {Nobody}
BY DEF StateSound, IsBuilderState, Shape, Nodes

LEMMA Replaced ==
  ASSUME NEW g, Shape(g), GraphSound(g), NEW sel \in NodeIds \cup {Nobody}
  PROVE  StateSound([kind |-> g.kind, edges |-> g.edges, selected |-> sel])
<1> DEFINE b == [kind |-> g.kind, edges |-> g.edges, selected |-> sel]
<1>1. b.kind = g.kind /\ b.edges = g.edges /\ b.selected = sel
      /\ b = [kind |-> b.kind, edges |-> b.edges, selected |-> b.selected]
  OBVIOUS
<1> HIDE DEF b
<1>2. IsBuilderState(b)
  BY <1>1 DEF IsBuilderState, Shape, Nodes
<1>3. GraphSound(b)
  BY <1>1 DEF GraphSound, OneSource, SourceNodes, Nodes, EndpointsExist, BranchesAccepted,
              OneEdgePerBranch, Acyclic
<1>4. StateSound(b)
  BY <1>2, <1>3 DEF StateSound
<1>5. QED
  BY <1>4 DEF b

LEMMA DefinitionReplaced ==
  ASSUME BuilderInv, NEW g, Shape(g), GraphSound(g), ReplaceDefinition(g)
  PROVE  BuilderInv'
<1>1. builder.selected \in NodeIds \cup {Nobody}
  BY StateShape DEF BuilderInv
<1>2. StateSound([kind |-> g.kind, edges |-> g.edges, selected |-> builder.selected])
  BY <1>1, Replaced
<1>3. StateSound(builder') /\ rendered' = rendered
  BY <1>2 DEF ReplaceDefinition
<1>4. QED
  BY <1>3 DEF BuilderInv

LEMMA DefinitionSelected ==
  ASSUME BuilderInv, NEW g, Shape(g), GraphSound(g), NEW n \in NodeIds \cup {Nobody},
         ReplaceAndSelect(g, n)
  PROVE  BuilderInv'
<1>1. StateSound([kind |-> g.kind, edges |-> g.edges, selected |-> n])
  BY Replaced
<1>2. StateSound(builder') /\ rendered' = rendered
  BY <1>1 DEF ReplaceAndSelect
<1>3. QED
  BY <1>2 DEF BuilderInv

\* A definition with some of the rendered one's edges.
LEMMA EdgesGone ==
  ASSUME BuilderInv, NEW h, h.kind = rendered.kind, h.edges \subseteq rendered.edges,
         ReplaceDefinition(h)
  PROVE  BuilderInv'
<1>1. Shape(rendered) /\ GraphSound(rendered)
  BY StateShape DEF BuilderInv
<1>2. Shape(h) /\ GraphSound(h)
  BY <1>1, FewerEdges DEF Shape, Nodes
<1>3. QED
  BY <1>2, DefinitionReplaced

LEMMA BuilderInvInit == BuilderInit => BuilderInv
BY PresetsSound DEF BuilderInit, BuilderInv

LEMMA BuilderInvStep == BuilderInv /\ [BuilderNext]_builderVars => BuilderInv'
<1> SUFFICES ASSUME BuilderInv, [BuilderNext]_builderVars PROVE BuilderInv'
  OBVIOUS
<1>0. /\ Shape(rendered) /\ GraphSound(rendered)
      /\ rendered.selected \in NodeIds \cup {Nobody}
      /\ StateSound(builder) /\ StateSound(rendered)
  BY StateShape DEF BuilderInv
<1>1. CASE Render
  BY <1>0, <1>1 DEF Render, BuilderInv
<1>2. CASE OnNodesChange
  BY <1>0, <1>2, DefinitionReplaced DEF OnNodesChange
<1>3. ASSUME NEW gone, OnEdgesChange(gone) PROVE BuilderInv'
  <2> DEFINE h == [rendered EXCEPT !.edges = @ \ gone]
  <2>1. h.kind = rendered.kind /\ h.edges = rendered.edges \ gone
    BY <1>0 DEF StateSound, IsBuilderState
  <2>2. ReplaceDefinition(h)
    BY <1>3 DEF OnEdgesChange
  <2> HIDE DEF h
  <2>3. QED
    BY <2>1, <2>2, EdgesGone
<1>4. ASSUME NEW n \in NodeIds \cup {Nobody}, SelectNode(n) PROVE BuilderInv'
  <2>1. builder' = [builder EXCEPT !.selected = n] /\ rendered' = rendered
    BY <1>4 DEF SelectNode
  <2>2. builder' = [kind |-> builder.kind, edges |-> builder.edges, selected |-> n]
    BY <1>0, <2>1 DEF StateSound, IsBuilderState
  <2>3. StateSound(builder')
    BY <1>0, <2>2, StateShape, Replaced
  <2>4. QED
    BY <1>0, <2>1, <2>3 DEF BuilderInv
<1>5. ASSUME NEW s \in NodeIds, NEW t \in NodeIds, NEW b \in Branches, Connect(s, t, b)
      PROVE  BuilderInv'
  <2> DEFINE h == Connected(rendered, s, t, b)
  <2>1. /\ h.kind = rendered.kind
        /\ h.edges = Freed(rendered, s, b)
                       \cup {[source |-> s, target |-> t, branch |-> b]}
    BY <1>0 DEF Connected, StateSound, IsBuilderState
  <2>2. CanConnect(rendered, s, t, b) /\ ReplaceDefinition(h)
    BY <1>5 DEF Connect
  <2> HIDE DEF h
  <2>3. Shape(h) /\ GraphSound(h)
    BY <1>0, <2>1, <2>2, ConnectSound
  <2>4. QED
    BY <2>2, <2>3, DefinitionReplaced
<1>6. ASSUME NEW s \in NodeIds, NEW b \in Branches, Disconnect(s, b) PROVE BuilderInv'
  <2> DEFINE h == Disconnected(rendered, s, b)
  <2>1. h.kind = rendered.kind /\ h.edges \subseteq rendered.edges
    BY <1>0 DEF Disconnected, Freed, StateSound, IsBuilderState
  <2>2. ReplaceDefinition(h)
    BY <1>6 DEF Disconnect
  <2> HIDE DEF h
  <2>3. QED
    BY <2>1, <2>2, EdgesGone
<1>7. ASSUME NEW n \in NodeIds, NEW kind \in AddedKinds, AddNode(n, kind) PROVE BuilderInv'
  <2> DEFINE h == [kind  |-> [m \in Nodes(rendered) \cup {n} |->
                                IF m = n THEN kind ELSE rendered.kind[m]],
                   edges |-> rendered.edges \cup FirstEdge(rendered, n)]
  <2>1. n \in NodeIds \ Nodes(rendered) /\ ReplaceAndSelect(h, n)
    BY <1>7 DEF AddNode
  <2>2. /\ h.kind = [m \in Nodes(rendered) \cup {n} |->
                       IF m = n THEN kind ELSE rendered.kind[m]]
        /\ h.edges = rendered.edges \cup FirstEdge(rendered, n)
    OBVIOUS
  <2> HIDE DEF h
  <2>3. Shape(h) /\ GraphSound(h)
    BY <1>0, <2>1, <2>2, AddSound
  <2>4. QED
    BY <2>1, <2>3, DefinitionSelected
<1>8. CASE DeleteSelectedNode
  <2> DEFINE d == rendered.selected
             h == [kind  |-> [m \in Nodes(rendered) \ {d} |-> rendered.kind[m]],
                   edges |-> {e \in rendered.edges : e.source # d /\ e.target # d}]
  <2>1. /\ d \in Nodes(rendered) /\ rendered.kind[d] # "source"
        /\ ReplaceAndSelect(h, Nobody)
    BY <1>8 DEF DeleteSelectedNode
  <2>2. /\ h.kind = [m \in Nodes(rendered) \ {d} |-> rendered.kind[m]]
        /\ h.edges = {e \in rendered.edges : e.source # d /\ e.target # d}
    OBVIOUS
  <2> HIDE DEF h
  <2>3. Shape(h) /\ GraphSound(h)
    BY <1>0, <2>1, <2>2, DeleteSound
  <2>4. QED
    BY <2>1, <2>3, DefinitionSelected
<1>9. CASE UNCHANGED builderVars
  BY <1>9 DEF builderVars, BuilderInv
<1>10. QED
  BY <1>1, <1>2, <1>3, <1>4, <1>5, <1>6, <1>7, <1>8, <1>9 DEF BuilderNext

(* Whatever is drawn, moved, cut, added and deleted, in handlers of        *)
(* whatever render, the definition in the editor has one source, no edge   *)
(* to a node that is gone, a branch its node has on each edge, one edge    *)
(* per branch and no cycle, on any number of nodes.  (use-automation-      *)
(* builder.ts, automation-graph.ts)                                        *)
THEOREM BuiltGraphAlwaysSound == BuilderSpec => [](BuilderTypeOK /\ BuiltGraphSound)
<1>1. BuilderInv => BuilderTypeOK /\ BuiltGraphSound
  BY DEF BuilderInv, StateSound, GraphSound, BuilderTypeOK, BuiltGraphSound
<1>2. QED
  BY <1>1, BuilderInvInit, BuilderInvStep, PTL DEF BuilderSpec

-----------------------------------------------------------------------------
(* Graph validation.  The calls that have not returned are a path from the *)
(* source, and what has been visited is closed and without a cycle as long *)
(* as none was found.                                                      *)

Links == {i \in DOMAIN draftEdges : HasEndpoints(draftEdges[i])}
SourceId == draftNodes[FirstSource].id

DraftTyped == draftNodes \in Seq(DraftNode) /\ draftEdges \in Seq(DraftEdge)

CallsTyped(s) ==
  /\ s \in Seq(Call)
  /\ \A k \in 1 .. Len(s) : s[k].node \in Ids /\ s[k].left \subseteq Adjacency(s[k].node)

VisitingIsStack(s, visiting) ==
  /\ visiting = {s[k].node : k \in 1 .. Len(s)}
  /\ \A j, k \in 1 .. Len(s) : s[j].node = s[k].node => j = k

StackIsPath(s) ==
  \A k \in 1 .. Len(s) - 1 :
    \E i \in Adjacency(s[k].node) : draftEdges[i].target = s[k + 1].node

(* What is reachable can be reached.                                       *)
Within(n) ==
  \A R \in SUBSET Ids : SourceId \in R /\ Closed(DraftGraph.edges, R) => n \in R
ReachedSound(w) ==
  /\ w.reachable = w.visiting \cup w.visited /\ w.visiting \cap w.visited = {}
  /\ w.reachable \subseteq Ids /\ SourceId \in w.reachable
  /\ \A n \in w.reachable : Within(n)

(* The targets of an edge that was followed are reachable.                 *)
Followed(w) ==
  \A i \in Links :
    /\ draftEdges[i].source \in w.visited => draftEdges[i].target \in w.reachable
    /\ \A k \in 1 .. Len(w.stack) :
         w.stack[k].node = draftEdges[i].source /\ i \notin w.stack[k].left =>
           draftEdges[i].target \in w.reachable

(* Every set of nodes in V has one without a successor in the set.         *)
NoCycleIn(V) ==
  \A S \in (SUBSET V) \ {{}} :
    \E n \in S : \A i \in Links : draftEdges[i].source = n => draftEdges[i].target \notin S

NoCycleYet(w) ==
  w.cycles = {} =>
    /\ \A i \in Links : draftEdges[i].source \in w.visited => draftEdges[i].target \in w.visited
    /\ \A k \in 1 .. Len(w.stack) : \A i \in Adjacency(w.stack[k].node) \ w.stack[k].left :
         \/ draftEdges[i].target \in w.visited
         \/ k < Len(w.stack) /\ draftEdges[i].target = w.stack[k + 1].node
    /\ NoCycleIn(w.visited)

CyclesReal(w) == w.cycles # {} => ~NoCycleIn(Ids)

Ends(w) == /\ w.step = "walking" => Len(w.stack) # 0
           /\ w.step = "done" => Len(w.stack) = 0

WalkSound(w) ==
  /\ w \in WalkState /\ Ends(w) /\ CallsTyped(w.stack)
  /\ VisitingIsStack(w.stack, w.visiting) /\ StackIsPath(w.stack)
  /\ ReachedSound(w) /\ Followed(w) /\ NoCycleYet(w) /\ CyclesReal(w)

ValidationInv ==
  /\ DraftTyped
  /\ walk.step = "drafting" => walk = Unwalked
  /\ walk.step # "drafting" =>
       IF DraftSources = {} THEN walk = [Unwalked EXCEPT !.step = "done"]
       ELSE WalkSound(walk)

-----------------------------------------------------------------------------
LEMMA AdjacencyIs ==
  ASSUME NEW n
  PROVE  Adjacency(n) = {i \in Links : draftEdges[i].source = n}
BY DEF Adjacency, Links

LEMMA LinkEnds ==
  ASSUME DraftTyped, NEW i \in Links
  PROVE  /\ i \in DOMAIN draftEdges /\ i \in Nat /\ draftEdges[i] \in DraftEdge
         /\ draftEdges[i].source \in Ids /\ draftEdges[i].target \in Ids
         /\ draftEdges[i] \in DraftGraph.edges
<1>1. i \in DOMAIN draftEdges /\ HasEndpoints(draftEdges[i])
  BY DEF Links
<1>2. i \in Nat /\ draftEdges[i] \in DraftEdge
  BY <1>1 DEF DraftTyped
<1>3. draftEdges[i] \in DraftGraph.edges
  BY <1>1 DEF DraftGraph
<1>4. QED
  BY <1>1, <1>2, <1>3 DEF HasEndpoints

LEMMA IdsTyped ==
  ASSUME DraftTyped PROVE Ids \subseteq DraftIds
<1>1. \A i \in DOMAIN draftNodes : draftNodes[i] \in DraftNode
  BY DEF DraftTyped
<1>2. QED
  BY <1>1 DEF Ids, DraftNode

LEMMA AdjacencyTyped ==
  ASSUME DraftTyped, NEW n PROVE Adjacency(n) \in SUBSET Nat
BY DEF DraftTyped, Adjacency

(* A call is pushed.                                                       *)
LEMMA Pushed ==
  ASSUME NEW s \in Seq(Call), NEW c \in Call, NEW t, t = Append(s, c)
  PROVE  /\ t \in Seq(Call) /\ Len(s) \in Nat /\ Len(t) = Len(s) + 1
         /\ t[Len(t)] = c /\ \A k \in 1 .. Len(s) : t[k] = s[k]
<1>1. Len(s) \in Nat /\ t \in Seq(Call)
  OBVIOUS
<1>2. Len(t) = Len(s) + 1
  OBVIOUS
<1>3. t[Len(s) + 1] = c
  OBVIOUS
<1>4. ASSUME NEW k \in 1 .. Len(s) PROVE t[k] = s[k]
  OBVIOUS
<1>5. QED
  BY <1>1, <1>2, <1>3, <1>4

LEMMA SameLength ==
  ASSUME NEW m \in Nat, NEW n \in Nat, 1 .. m = 1 .. n PROVE m = n
<1>1. m # 0 => m \in 1 .. n
  <2>1. m # 0 => m \in 1 .. m
    OBVIOUS
  <2>2. QED
    BY <2>1
<1>2. n # 0 => n \in 1 .. m
  <2>1. n # 0 => n \in 1 .. n
    OBVIOUS
  <2>2. QED
    BY <2>1
<1>3. QED
  BY <1>1, <1>2

(* The last call returns.                                                  *)
LEMMA Popped ==
  ASSUME NEW s \in Seq(Call), Len(s) # 0, NEW t, t = SubSeq(s, 1, Len(s) - 1)
  PROVE  /\ t \in Seq(Call) /\ Len(s) \in Nat /\ Len(t) = Len(s) - 1
         /\ \A k \in 1 .. Len(t) : t[k] = s[k]
<1>1. Len(s) \in Nat /\ Len(s) - 1 \in Nat
  OBVIOUS
<1>2. t = [k \in 1 .. Len(s) - 1 |-> s[k]]
  BY <1>1
<1>3. t \in Seq(Call)
  BY <1>1
<1>4. DOMAIN t = 1 .. Len(s) - 1 /\ DOMAIN t = 1 .. Len(t) /\ Len(t) \in Nat
  BY <1>2, <1>3
<1>5. Len(t) = Len(s) - 1
  BY <1>1, <1>4, SameLength
<1>6. \A k \in 1 .. Len(t) : t[k] = s[k]
  BY <1>2, <1>5
<1>7. QED
  BY <1>1, <1>3, <1>5, <1>6

(* The last call follows an edge.                                          *)
TurnsTo(t, s, i) ==
  /\ t \in Seq(Call) /\ Len(t) = Len(s)
  /\ \A k \in 1 .. Len(s) : t[k].node = s[k].node
  /\ \A k \in 1 .. Len(s) - 1 : t[k] = s[k]
  /\ t[Len(s)].left = s[Len(s)].left \ {i}

LEMMA Turned ==
  ASSUME NEW s \in Seq(Call), Len(s) # 0, NEW i
  PROVE  TurnsTo([s EXCEPT ![Len(s)].left = @ \ {i}], s, i)
<1> DEFINE t == [s EXCEPT ![Len(s)].left = @ \ {i}]
<1>1. Len(s) \in Nat /\ Len(s) \in 1 .. Len(s) /\ s[Len(s)] \in Call
  OBVIOUS
<1>2. [s[Len(s)] EXCEPT !.left = @ \ {i}] \in Call
  BY <1>1 DEF Call
<1>3. /\ t \in Seq(Call) /\ Len(t) = Len(s)
      /\ \A k \in 1 .. Len(s) : t[k].node = s[k].node
      /\ \A k \in 1 .. Len(s) - 1 : t[k] = s[k]
      /\ t[Len(s)].left = s[Len(s)].left \ {i}
  BY <1>1, <1>2 DEF Call
<1> HIDE DEF t
<1>4. TurnsTo(t, s, i)
  BY <1>3 DEF TurnsTo
<1>5. QED
  BY <1>4 DEF t

-----------------------------------------------------------------------------
(* A call met again on the stack closes a cycle of the calls above it.     *)
LEMMA StackCloses ==
  ASSUME DraftTyped, NEW s, CallsTyped(s), StackIsPath(s), Len(s) # 0,
         NEW i \in Adjacency(s[Len(s)].node), NEW j \in 1 .. Len(s),
         draftEdges[i].target = s[j].node
  PROVE  ~NoCycleIn(Ids)
<1> DEFINE S == {s[k].node : k \in j .. Len(s)}
<1>1. Len(s) \in Nat /\ j \in Nat /\ j <= Len(s) /\ j >= 1
  BY DEF CallsTyped
<1>2. S \in SUBSET Ids /\ s[j].node \in S
  BY <1>1 DEF CallsTyped
<1>3. ASSUME NEW k \in j .. Len(s)
      PROVE  \E l \in Adjacency(s[k].node) : draftEdges[l].target \in S
  <2>1. CASE k = Len(s)
    BY <1>2, <2>1
  <2>2. CASE k # Len(s)
    <3>1. k \in 1 .. Len(s) - 1 /\ k + 1 \in j .. Len(s)
      BY <1>1, <2>2
    <3>2. s[k + 1].node \in S
      BY <3>1
    <3>3. PICK l \in Adjacency(s[k].node) : draftEdges[l].target = s[k + 1].node
      BY <3>1 DEF StackIsPath
    <3>4. QED
      BY <3>2, <3>3
  <2>3. QED
    BY <2>1, <2>2
<1>4. \A m \in S : \E l \in Links : draftEdges[l].source = m /\ draftEdges[l].target \in S
  BY <1>3, AdjacencyIs
<1>5. S \in (SUBSET Ids) \ {{}}
  BY <1>2
<1> HIDE DEF S
<1>6. QED
  BY <1>4, <1>5 DEF NoCycleIn

LEMMA WithinNext ==
  ASSUME DraftTyped, NEW i \in Links, Within(draftEdges[i].source)
  PROVE  Within(draftEdges[i].target)
<1>1. draftEdges[i] \in DraftGraph.edges
  BY LinkEnds
<1>2. QED
  BY <1>1 DEF Within, Closed

LEMMA ChildSound ==
  ASSUME DraftTyped, NEW w, WalkSound(w), w.step = "walking",
         NEW i \in w.stack[Len(w.stack)].left, NEW v,
         v = Walk(draftEdges[i].target, [w EXCEPT !.stack[Len(w.stack)].left = @ \ {i}])
  PROVE  WalkSound(v) /\ v.step # "drafting"
<1> DEFINE s == w.stack
           d == Len(s)
           n == s[d].node
           c == draftEdges[i].target
           t == [s EXCEPT ![d].left = @ \ {i}]
<1>1. /\ w \in WalkState /\ CallsTyped(s) /\ VisitingIsStack(s, w.visiting) /\ StackIsPath(s)
      /\ ReachedSound(w) /\ Followed(w) /\ NoCycleYet(w) /\ CyclesReal(w)
  BY DEF WalkSound
<1>2. s \in Seq(Call) /\ d \in Nat /\ d # 0 /\ d \in 1 .. d
  <2>1. s \in Seq(Call) /\ d # 0
    BY <1>1 DEF CallsTyped, Ends, WalkSound
  <2>2. QED
    BY <2>1
<1>3. i \in Adjacency(n) /\ n \in Ids
  BY <1>1, <1>2 DEF CallsTyped
<1>4. i \in Links /\ draftEdges[i].source = n /\ c \in Ids /\ c \in DraftIds
  <2>1. i \in Links /\ draftEdges[i].source = n
    BY <1>3, AdjacencyIs
  <2>2. QED
    BY <2>1, LinkEnds, IdsTyped
<1>5. v = Walk(c, [w EXCEPT !.stack = t])
  BY <1>1 DEF WalkState
<1>6. /\ t \in Seq(Call) /\ Len(t) = d
      /\ \A k \in 1 .. d : t[k].node = s[k].node
      /\ \A k \in 1 .. d - 1 : t[k] = s[k]
      /\ t[d].left = s[d].left \ {i}
  <2>1. TurnsTo(t, s, i)
    <3> HIDE DEF s
    <3>1. QED
      BY <1>2, Turned
  <2> HIDE DEF s, t
  <2>2. QED
    BY <2>1 DEF TurnsTo
<1> HIDE DEF t
<1>7. /\ \A k \in 1 .. d : t[k].left \subseteq s[k].left
      /\ \A k \in 1 .. d : \A l : l \notin t[k].left => l \notin s[k].left \/ (k = d /\ l = i)
  <2>1. ASSUME NEW k \in 1 .. d
        PROVE  /\ t[k].left \subseteq s[k].left
               /\ \A l : l \notin t[k].left => l \notin s[k].left \/ (k = d /\ l = i)
    <3>1. CASE k = d
      BY <1>6, <3>1
    <3>2. CASE k # d
      <4>1. k \in 1 .. d - 1
        BY <1>2, <3>2
      <4>2. QED
        BY <1>6, <4>1
    <3>3. QED
      BY <3>1, <3>2
  <2>2. QED
    BY <2>1
<1>8. CallsTyped(t)
  BY <1>1, <1>6, <1>7 DEF CallsTyped
<1>9. VisitingIsStack(t, w.visiting)
  BY <1>1, <1>6 DEF VisitingIsStack
<1>10. StackIsPath(t)
  <2>1. ASSUME NEW k \in 1 .. d - 1
        PROVE  \E l \in Adjacency(t[k].node) : draftEdges[l].target = t[k + 1].node
    <3>1. k \in 1 .. d /\ k + 1 \in 1 .. d
      BY <1>2
    <3>2. QED
      BY <1>1, <1>6, <3>1 DEF StackIsPath
  <2>2. QED
    BY <1>6, <2>1 DEF StackIsPath
<1>11. n \in w.visiting /\ n \in w.reachable /\ Within(n)
  <2>1. n \in w.visiting
    BY <1>1, <1>2 DEF VisitingIsStack
  <2>2. QED
    BY <1>1, <2>1 DEF ReachedSound
<1>12. Within(c)
  BY <1>4, <1>11, WithinNext
<1>13. \A l \in Links : \A k \in 1 .. d :
         t[k].node = draftEdges[l].source /\ l \notin t[k].left =>
           draftEdges[l].target \in w.reachable \/ l = i
  BY <1>1, <1>6, <1>7 DEF Followed
<1>14. w.cycles = {} =>
         \A k \in 1 .. d : \A l \in Adjacency(t[k].node) \ t[k].left :
           \/ draftEdges[l].target \in w.visited
           \/ k < d /\ draftEdges[l].target = t[k + 1].node
           \/ k = d /\ l = i
  <2>1. ASSUME w.cycles = {}, NEW k \in 1 .. d, NEW l \in Adjacency(t[k].node) \ t[k].left,
               ~(k = d /\ l = i)
        PROVE  \/ draftEdges[l].target \in w.visited
               \/ k < d /\ draftEdges[l].target = t[k + 1].node
    <3>1. l \in Adjacency(s[k].node) \ s[k].left
      BY <1>6, <1>7, <2>1
    <3>2. \/ draftEdges[l].target \in w.visited
          \/ k < d /\ draftEdges[l].target = s[k + 1].node
      BY <1>1, <2>1, <3>1 DEF NoCycleYet
    <3>3. k < d => k + 1 \in 1 .. d
      BY <1>2
    <3>4. QED
      BY <1>6, <3>2, <3>3
  <2>2. QED
    BY <2>1
<1> HIDE DEF s, d, n, c
<1>15. CASE c \in w.visiting
  <2>1. /\ v = [w EXCEPT !.stack = t, !.cycles = @ \cup {c}]
        /\ v.stack = t /\ v.step = "walking" /\ v.cycles # {} /\ v.visiting = w.visiting
        /\ v.visited = w.visited /\ v.reachable = w.reachable
    BY <1>1, <1>5, <1>15 DEF Walk, WalkState
  <2>2. v \in WalkState
    <3>1. v.cycles \in SUBSET DraftIds
      <4>1. v.cycles = w.cycles \cup {c} /\ w.cycles \in SUBSET DraftIds
        BY <1>1, <2>1 DEF WalkState
      <4>2. QED
        BY <1>4, <4>1 DEF c
    <3>2. v = [w EXCEPT !.stack = t, !.cycles = v.cycles]
      BY <1>1, <2>1 DEF WalkState
    <3>3. QED
      BY <1>1, <1>6, <3>1, <3>2 DEF WalkState
  <2>3. ~NoCycleIn(Ids)
    <3>1. PICK j \in 1 .. d : c = s[j].node
      BY <1>1, <1>15 DEF VisitingIsStack, d
    <3>2. QED
      BY <1>1, <1>2, <1>3, <3>1, StackCloses DEF n, c, d
  <2>4. c \in w.reachable
    BY <1>1, <1>15 DEF ReachedSound
  <2>5. Followed(v)
    BY <1>1, <1>6, <1>13, <2>1, <2>4 DEF Followed, c
  <2>6. ReachedSound(v) /\ NoCycleYet(v) /\ CyclesReal(v) /\ Ends(v)
    BY <1>1, <1>2, <1>6, <2>1, <2>3 DEF ReachedSound, NoCycleYet, CyclesReal, Ends
  <2>7. QED
    BY <1>8, <1>9, <1>10, <2>1, <2>2, <2>5, <2>6 DEF WalkSound
<1>16. CASE c \notin w.visiting /\ c \in w.visited
  <2>1. /\ v = [w EXCEPT !.stack = t]
        /\ v.stack = t /\ v.step = "walking" /\ v.cycles = w.cycles /\ v.visiting = w.visiting
        /\ v.visited = w.visited /\ v.reachable = w.reachable
    BY <1>1, <1>5, <1>16 DEF Walk, WalkState
  <2>2. v \in WalkState
    BY <1>1, <1>6, <2>1 DEF WalkState
  <2>3. c \in w.reachable
    BY <1>1, <1>16 DEF ReachedSound
  <2>4. Followed(v)
    BY <1>1, <1>6, <1>13, <2>1, <2>3 DEF Followed, c
  <2>5. NoCycleYet(v)
    BY <1>1, <1>6, <1>14, <1>16, <2>1 DEF NoCycleYet, c
  <2>6. ReachedSound(v) /\ CyclesReal(v) /\ Ends(v)
    BY <1>1, <1>2, <1>6, <2>1 DEF ReachedSound, CyclesReal, Ends
  <2>7. QED
    BY <1>8, <1>9, <1>10, <2>1, <2>2, <2>4, <2>5, <2>6 DEF WalkSound
<1>17. CASE c \notin w.visiting /\ c \notin w.visited
  <2> DEFINE call == [node |-> c, left |-> Adjacency(c)]
             u == Append(t, call)
  <2>1. /\ v = [w EXCEPT !.stack = u, !.visiting = @ \cup {c}, !.reachable = @ \cup {c}]
        /\ v.stack = u /\ v.step = "walking" /\ v.cycles = w.cycles
        /\ v.visiting = w.visiting \cup {c}
        /\ v.visited = w.visited /\ v.reachable = w.reachable \cup {c}
    BY <1>1, <1>5, <1>17 DEF Walk, Enter, WalkState
  <2>2. call \in Call
    BY <1>4, AdjacencyTyped DEF Call
  <2>3. u \in Seq(Call) /\ Len(u) = d + 1 /\ u[d + 1] = call /\ \A k \in 1 .. d : u[k] = t[k]
    BY <1>6, <2>2, Pushed
  <2>4. u[d + 1].node = c /\ u[d + 1].left = Adjacency(c)
    BY <2>3
  <2> HIDE DEF u, call
  <2>5. v \in WalkState
    BY <1>1, <1>4, <2>1, <2>3 DEF WalkState
  <2>6. \A k \in 1 .. d + 1 : k \in 1 .. d \/ k = d + 1
    BY <1>2
  <2>7. CallsTyped(u)
    BY <1>4, <1>6, <1>8, <2>3, <2>4, <2>6 DEF CallsTyped
  <2>8. VisitingIsStack(u, v.visiting)
    <3>1. \A k \in 1 .. d : u[k].node \in w.visiting /\ u[k].node # c
      BY <1>6, <1>9, <1>17, <2>3 DEF VisitingIsStack
    <3>2. \A j, k \in 1 .. d + 1 : u[j].node = u[k].node => j = k
      BY <1>6, <1>9, <2>3, <2>4, <2>6, <3>1 DEF VisitingIsStack
    <3>3. \A m \in w.visiting : \E k \in 1 .. d + 1 : m = u[k].node
      BY <1>2, <1>6, <1>9, <2>3 DEF VisitingIsStack
    <3>4. d + 1 \in 1 .. d + 1
      BY <1>2
    <3>5. v.visiting = {u[k].node : k \in 1 .. d + 1}
      BY <2>1, <2>4, <2>6, <3>1, <3>3, <3>4
    <3>6. QED
      BY <2>3, <3>2, <3>5 DEF VisitingIsStack
  <2>9. StackIsPath(u)
    <3>1. ASSUME NEW k \in 1 .. d
          PROVE  \E l \in Adjacency(u[k].node) : draftEdges[l].target = u[k + 1].node
      <4>1. CASE k = d
        <5>1. u[k].node = n
          BY <1>2, <1>6, <2>3, <4>1 DEF n
        <5>2. QED
          BY <1>3, <2>4, <4>1, <5>1 DEF c
      <4>2. CASE k # d
        <5>1. k \in 1 .. d - 1 /\ k + 1 \in 1 .. d
          BY <1>2, <4>2
        <5>2. QED
          BY <1>6, <1>10, <2>3, <5>1 DEF StackIsPath
      <4>3. QED
        BY <4>1, <4>2
    <3>2. Len(u) - 1 = d
      BY <1>2, <2>3
    <3>3. QED
      BY <3>1, <3>2 DEF StackIsPath
  <2>10. ReachedSound(v)
    BY <1>1, <1>4, <1>12, <1>17, <2>1 DEF ReachedSound
  <2>11. Followed(v)
    <3>1. ASSUME NEW l \in Links, NEW k \in 1 .. d + 1,
                 u[k].node = draftEdges[l].source, l \notin u[k].left
          PROVE  draftEdges[l].target \in v.reachable
      <4>1. CASE k = d + 1
        BY <2>4, <3>1, <4>1, AdjacencyIs
      <4>2. CASE k \in 1 .. d
        BY <1>13, <2>1, <2>3, <3>1, <4>2 DEF c
      <4>3. QED
        BY <2>6, <4>1, <4>2
    <3>2. QED
      BY <1>1, <2>1, <2>3, <3>1 DEF Followed
  <2>12. NoCycleYet(v)
    <3>1. ASSUME w.cycles = {}, NEW k \in 1 .. d + 1, NEW l \in Adjacency(u[k].node) \ u[k].left
          PROVE  \/ draftEdges[l].target \in w.visited
                 \/ k < d + 1 /\ draftEdges[l].target = u[k + 1].node
      <4>1. k # d + 1
        BY <2>4, <3>1
      <4>2. k \in 1 .. d /\ k < d + 1
        BY <1>2, <2>6, <4>1
      <4>3. \/ draftEdges[l].target \in w.visited
            \/ k < d /\ draftEdges[l].target = t[k + 1].node
            \/ k = d /\ l = i
        BY <1>14, <2>3, <3>1, <4>2
      <4>4. k < d => k + 1 \in 1 .. d
        BY <1>2, <4>2
      <4>5. QED
        BY <2>3, <2>4, <4>2, <4>3, <4>4 DEF c
    <3>2. QED
      BY <1>1, <2>1, <2>3, <3>1 DEF NoCycleYet
  <2>13. CyclesReal(v) /\ Ends(v)
    BY <1>1, <1>2, <2>1, <2>3 DEF CyclesReal, Ends
  <2>14. QED
    BY <2>1, <2>5, <2>7, <2>8, <2>9, <2>10, <2>11, <2>12, <2>13 DEF WalkSound
<1>18. QED
  BY <1>15, <1>16, <1>17

(* A call returns: its node, all of whose edges were followed, is visited. *)
LEMMA ReturnSound ==
  ASSUME DraftTyped, NEW w, WalkSound(w), w.step = "walking",
         w.stack[Len(w.stack)].left = {}, NEW v,
         v = Leave(w.stack[Len(w.stack)].node,
               [w EXCEPT !.stack = SubSeq(@, 1, Len(@) - 1),
                         !.step = IF Len(w.stack) = 1 THEN "done" ELSE "walking"])
  PROVE  WalkSound(v) /\ v.step # "drafting"
<1> DEFINE s == w.stack
           d == Len(s)
           n == s[d].node
           t == SubSeq(s, 1, d - 1)
<1>1. /\ w \in WalkState /\ CallsTyped(s) /\ VisitingIsStack(s, w.visiting) /\ StackIsPath(s)
      /\ ReachedSound(w) /\ Followed(w) /\ NoCycleYet(w) /\ CyclesReal(w)
  BY DEF WalkSound
<1>2. s \in Seq(Call) /\ d \in Nat /\ d # 0 /\ d \in 1 .. d
  <2>1. s \in Seq(Call) /\ d # 0
    BY <1>1 DEF CallsTyped, Ends, WalkSound
  <2>2. QED
    BY <2>1
<1>3. t \in Seq(Call) /\ Len(t) = d - 1 /\ \A k \in 1 .. d - 1 : t[k] = s[k]
  BY <1>2, Popped
<1>4. /\ v = [w EXCEPT !.stack = t, !.step = IF d = 1 THEN "done" ELSE "walking",
                       !.visiting = @ \ {n}, !.visited = @ \cup {n}]
      /\ v.stack = t /\ v.step \in {"done", "walking"} /\ (v.step = "done" <=> d = 1)
      /\ v.visiting = w.visiting \ {n} /\ v.visited = w.visited \cup {n}
      /\ v.reachable = w.reachable /\ v.cycles = w.cycles
  BY <1>1 DEF Leave, WalkState
<1>5. n \in Ids /\ n \in w.visiting /\ n \notin w.visited /\ n \in DraftIds
  <2>1. n \in Ids /\ n \in w.visiting
    BY <1>1, <1>2 DEF CallsTyped, VisitingIsStack
  <2>2. QED
    BY <1>1, <2>1, IdsTyped DEF ReachedSound
<1>6. \A k \in 1 .. d : k = d \/ k \in 1 .. d - 1
  BY <1>2
<1>7. \A k \in 1 .. d - 1 : k \in 1 .. d /\ k # d /\ k + 1 \in 1 .. d
  BY <1>2
<1> HIDE DEF t
<1>8. v \in WalkState
  <2>1. w.visited \cup {n} \in SUBSET DraftIds /\ w.visiting \ {n} \in SUBSET DraftIds
    BY <1>1, <1>5 DEF WalkState
  <2>2. QED
    BY <1>1, <1>3, <1>4, <2>1 DEF WalkState
<1>9. CallsTyped(t)
  BY <1>1, <1>3, <1>7 DEF CallsTyped
<1>10. VisitingIsStack(t, v.visiting)
  <2>1. \A k \in 1 .. d - 1 : t[k].node \in w.visiting /\ t[k].node # n
    BY <1>1, <1>2, <1>3, <1>7 DEF VisitingIsStack
  <2>2. \A m \in w.visiting \ {n} : \E k \in 1 .. d - 1 : m = t[k].node
    BY <1>1, <1>3, <1>6 DEF VisitingIsStack
  <2>3. \A j, k \in 1 .. d - 1 : t[j].node = t[k].node => j = k
    BY <1>1, <1>3, <1>7 DEF VisitingIsStack
  <2>4. v.visiting = {t[k].node : k \in 1 .. d - 1}
    BY <1>4, <2>1, <2>2
  <2>5. QED
    BY <1>3, <2>3, <2>4 DEF VisitingIsStack
<1>11. StackIsPath(t)
  <2>1. ASSUME NEW k \in 1 .. (d - 1) - 1
        PROVE  \E l \in Adjacency(t[k].node) : draftEdges[l].target = t[k + 1].node
    <3>1. k \in 1 .. d - 1 /\ k + 1 \in 1 .. d - 1
      BY <1>2
    <3>2. \E l \in Adjacency(s[k].node) : draftEdges[l].target = s[k + 1].node
      BY <1>1, <3>1 DEF StackIsPath
    <3>3. QED
      BY <1>3, <3>1, <3>2
  <2>2. QED
    BY <1>3, <2>1 DEF StackIsPath
<1> HIDE DEF s, d, n
<1>12. ReachedSound(v)
  BY <1>1, <1>4, <1>5 DEF ReachedSound
<1>13. \A l \in Links : draftEdges[l].source = n =>
         /\ draftEdges[l].target \in w.reachable
         /\ w.cycles = {} => draftEdges[l].target \in w.visited
  <2>1. ASSUME NEW l \in Links, draftEdges[l].source = n
        PROVE  draftEdges[l].target \in w.reachable
    BY <1>1, <1>2, <2>1 DEF Followed, s, d, n
  <2>2. ASSUME NEW l \in Links, draftEdges[l].source = n, w.cycles = {}
        PROVE  draftEdges[l].target \in w.visited
    <3>1. l \in Adjacency(s[d].node) \ s[d].left
      BY <2>2, AdjacencyIs DEF s, d, n
    <3>2. \/ draftEdges[l].target \in w.visited
          \/ d < d /\ draftEdges[l].target = s[d + 1].node
      BY <1>1, <1>2, <2>2, <3>1 DEF NoCycleYet, s, d
    <3>3. QED
      BY <1>2, <3>2
  <2>3. QED
    BY <2>1, <2>2
<1>14. Followed(v)
  <2>1. \A l \in Links : draftEdges[l].source \in v.visited => draftEdges[l].target \in v.reachable
    BY <1>1, <1>4, <1>13 DEF Followed
  <2>2. \A l \in Links : \A k \in 1 .. d - 1 :
          t[k].node = draftEdges[l].source /\ l \notin t[k].left =>
            draftEdges[l].target \in v.reachable
    BY <1>1, <1>3, <1>4, <1>7 DEF Followed, s, d
  <2>3. QED
    BY <1>3, <1>4, <2>1, <2>2 DEF Followed
<1>15. NoCycleYet(v)
  <2> SUFFICES ASSUME w.cycles = {}
               PROVE  /\ \A l \in Links : draftEdges[l].source \in v.visited =>
                           draftEdges[l].target \in v.visited
                      /\ \A k \in 1 .. d - 1 : \A l \in Adjacency(t[k].node) \ t[k].left :
                           \/ draftEdges[l].target \in v.visited
                           \/ k < d - 1 /\ draftEdges[l].target = t[k + 1].node
                      /\ NoCycleIn(v.visited)
    BY <1>3, <1>4 DEF NoCycleYet
  <2>1. \A l \in Links : draftEdges[l].source \in w.visited => draftEdges[l].target \in w.visited
    BY <1>1 DEF NoCycleYet
  <2>2. ASSUME NEW k \in 1 .. d - 1, NEW l \in Adjacency(t[k].node) \ t[k].left
        PROVE  \/ draftEdges[l].target \in v.visited
               \/ k < d - 1 /\ draftEdges[l].target = t[k + 1].node
    <3>1. \/ draftEdges[l].target \in w.visited
          \/ k < d /\ draftEdges[l].target = s[k + 1].node
      BY <1>1, <1>3, <1>7, <2>2 DEF NoCycleYet, s, d
    <3>2. CASE k + 1 = d
      BY <1>4, <3>1, <3>2 DEF n
    <3>3. CASE k + 1 # d
      <4>1. k < d - 1 /\ k + 1 \in 1 .. d - 1
        BY <1>2, <3>3
      <4>2. QED
        BY <1>3, <1>4, <3>1, <4>1
    <3>4. QED
      BY <3>2, <3>3
  <2>3. NoCycleIn(v.visited)
    <3>1. ASSUME NEW S \in (SUBSET (w.visited \cup {n})) \ {{}}
          PROVE  \E m \in S : \A l \in Links :
                   draftEdges[l].source = m => draftEdges[l].target \notin S
      <4>1. CASE S \ {n} = {}
        <5>1. n \in S /\ \A m \in w.visited : m \notin S
          BY <1>5, <4>1
        <5>2. QED
          BY <1>13, <5>1
      <4>2. CASE S \ {n} # {}
        <5>1. S \ {n} \in (SUBSET w.visited) \ {{}}
          BY <4>2
        <5>2. PICK m \in S \ {n} : \A l \in Links :
                draftEdges[l].source = m => draftEdges[l].target \notin S \ {n}
          BY <1>1, <5>1 DEF NoCycleYet, NoCycleIn
        <5>3. m \in w.visited
          BY <5>1
        <5>4. \A l \in Links : draftEdges[l].source = m => draftEdges[l].target # n
          BY <1>5, <2>1, <5>3
        <5>5. QED
          BY <5>2, <5>4
      <4>3. QED
        BY <4>1, <4>2
    <3>2. QED
      BY <1>4, <3>1 DEF NoCycleIn
  <2>4. QED
    BY <1>4, <1>13, <2>1, <2>2, <2>3
<1>16. CyclesReal(v) /\ Ends(v)
  BY <1>1, <1>2, <1>3, <1>4 DEF CyclesReal, Ends
<1>17. QED
  BY <1>4, <1>8, <1>9, <1>10, <1>11, <1>12, <1>14, <1>15, <1>16 DEF WalkSound

LEMMA FirstPlace ==
  ASSUME NEW S \in SUBSET Nat, S # {}
  PROVE  \E x \in S : \A y \in S : x <= y
<1> DEFINE R == OpToRel(<, Nat)
<1>1. IsWellFoundedOn(R, Nat)
  BY NatLessThanWellFounded
<1>2. \A p, q \in Nat : p < q => <<p, q>> \in R
  BY DEF OpToRel
<1> HIDE DEF R
<1>3. PICK x \in S : \A y \in S : ~ (<<y, x>> \in R)
  BY <1>1, WFMin
<1>4. ASSUME NEW y \in S PROVE x <= y
  <2>1. x \in Nat /\ y \in Nat /\ ~(y < x)
    BY <1>2, <1>3
  <2>2. QED
    BY <2>1
<1>5. QED
  BY <1>4

LEMMA SourceFound ==
  ASSUME DraftTyped, DraftSources # {}
  PROVE  FirstSource \in DraftSources /\ SourceId \in Ids
<1>1. DraftSources \in SUBSET Nat
  BY DEF DraftSources, DraftTyped
<1>2. FirstSource \in DraftSources
  BY <1>1, FirstPlace DEF FirstSource
<1>3. QED
  BY <1>2 DEF SourceId, DraftSources, Ids

LEMMA StartSound ==
  ASSUME DraftTyped, DraftSources # {}, NEW v,
         v = Walk(SourceId, [Unwalked EXCEPT !.step = "walking"])
  PROVE  WalkSound(v) /\ v.step # "drafting"
<1> DEFINE id == SourceId
           call == [node |-> id, left |-> Adjacency(id)]
<1>1. id \in Ids /\ id \in DraftIds
  BY SourceFound, IdsTyped
<1>2. call \in Call /\ call.node = id /\ call.left = Adjacency(id)
  BY <1>1, AdjacencyTyped DEF Call
<1>3. v = [step |-> "walking", stack |-> Append(<<>>, call), visiting |-> {id},
           visited |-> {}, reachable |-> {id}, cycles |-> {}]
  BY DEF Walk, Enter, Unwalked
<1>4. \A u : u = Append(<<>>, call) => u \in Seq(Call) /\ Len(u) = 1 /\ u[1] = call
  BY <1>2
<1> HIDE DEF call
<1>5. v.stack \in Seq(Call) /\ Len(v.stack) = 1 /\ v.stack[1] = call
  BY <1>3, <1>4
<1>6. v \in WalkState /\ Ends(v)
  BY <1>1, <1>3, <1>5 DEF WalkState, Ends
<1>7. CallsTyped(v.stack) /\ VisitingIsStack(v.stack, v.visiting) /\ StackIsPath(v.stack)
  <2>1. \A k \in 1 .. 1 : k = 1
    OBVIOUS
  <2>2. CallsTyped(v.stack)
    BY <1>1, <1>2, <1>5, <2>1 DEF CallsTyped
  <2>3. VisitingIsStack(v.stack, v.visiting)
    BY <1>2, <1>3, <1>5, <2>1 DEF VisitingIsStack
  <2>4. StackIsPath(v.stack)
    <3>1. Len(v.stack) - 1 = 0 /\ \A k \in 1 .. 0 : FALSE
      BY <1>5
    <3>2. QED
      BY <3>1 DEF StackIsPath
  <2>5. QED
    BY <2>2, <2>3, <2>4
<1>8. ReachedSound(v)
  BY <1>1, <1>3 DEF ReachedSound, Within
<1>9. Followed(v) /\ NoCycleYet(v) /\ CyclesReal(v)
  <2>1. \A k \in 1 .. Len(v.stack) :
          v.stack[k].node = id /\ v.stack[k].left = Adjacency(id) /\ v.visited = {} /\ v.cycles = {}
    BY <1>2, <1>3, <1>5
  <2>2. Followed(v)
    BY <1>3, <2>1, AdjacencyIs DEF Followed
  <2>3. NoCycleYet(v) /\ CyclesReal(v)
    BY <1>3, <2>1 DEF NoCycleYet, NoCycleIn, CyclesReal
  <2>4. QED
    BY <2>2, <2>3
<1>10. QED
  BY <1>3, <1>6, <1>7, <1>8, <1>9 DEF WalkSound

-----------------------------------------------------------------------------
(* The verdict.  Each kind of issue against the half of the definition it  *)
(* is about.                                                               *)
Distinct ==
  \A i, k \in DOMAIN draftNodes : draftNodes[i].id = draftNodes[k].id => i = k

LEMMA PlacesCounted ==
  ASSUME DraftTyped
  PROVE  /\ DOMAIN draftNodes = 1 .. Len(draftNodes) /\ Len(draftNodes) \in Nat
         /\ IsFiniteSet(DOMAIN draftNodes) /\ Cardinality(DOMAIN draftNodes) = Len(draftNodes)
<1>1. DOMAIN draftNodes = 1 .. Len(draftNodes) /\ Len(draftNodes) \in Nat
  BY DEF DraftTyped
<1>2. ASSUME NEW n \in Nat PROVE IsFiniteSet(1 .. n) /\ Cardinality(1 .. n) = n
  <2>1. 1 \in Int /\ n \in Int
    OBVIOUS
  <2>2. IsFiniteSet(1 .. n) /\ Cardinality(1 .. n) = IF 1 > n THEN 0 ELSE n - 1 + 1
    BY <2>1, FS_Interval
  <2>3. QED
    BY <2>2
<1>3. QED
  BY <1>1, <1>2

LEMMA NodesTold ==
  ASSUME DraftTyped PROVE NodeIssues = {} <=> Distinct
<1>1. DOMAIN draftNodes \subseteq Nat /\ DOMAIN draftNodes = 1 .. Len(draftNodes)
  BY PlacesCounted
<1>2. NodeIssues = {} <=>
        \A j, k \in DOMAIN draftNodes : k < j => draftNodes[k].id # draftNodes[j].id
  <2>1. \A j \in DOMAIN draftNodes : \A k : k \in 1 .. j - 1 <=> k \in DOMAIN draftNodes /\ k < j
    BY <1>1, PlacesCounted
  <2>2. NodeIssues = {} <=>
          ~\E j \in DOMAIN draftNodes : \E k \in 1 .. j - 1 : draftNodes[k].id = draftNodes[j].id
    BY DEF NodeIssues
  <2>3. QED
    BY <2>1, <2>2
<1>3. QED
  BY <1>1, <1>2 DEF Distinct

LEMMA IdsCounted ==
  ASSUME DraftTyped PROVE Distinct <=> Cardinality(Ids) = Len(draftNodes)
<1> DEFINE f == [i \in DOMAIN draftNodes |-> draftNodes[i].id]
           D == DOMAIN draftNodes
<1>1. f \in Surjection(D, Ids)
  BY DEF Surjection, Ids
<1>2. Distinct <=> f \in Injection(D, Ids)
  BY <1>1 DEF Distinct, Injection, IsInjective, Surjection
<1>3. IsFiniteSet(D) /\ Cardinality(D) = Len(draftNodes)
  BY PlacesCounted
<1> HIDE DEF f, D
<1>4. Cardinality(Ids) = Cardinality(D) <=> f \in Injection(D, Ids)
  BY <1>1, <1>3, FS_Surjection
<1>5. QED
  BY <1>2, <1>3, <1>4

LEMMA EdgesTold ==
  EdgeIssues = {} <=> EndpointsExist(DraftGraph) /\ BranchesAccepted(DraftGraph)
<1>1. Nodes(DraftGraph) = Ids /\ \A id \in Ids : DraftGraph.kind[id] = TypeOf(id)
  BY DEF Nodes, DraftGraph
<1>2. \A e : e \in DraftGraph.edges <=> \E i \in DOMAIN draftEdges : e = draftEdges[i]
  BY DEF DraftGraph
<1>3. EdgeIssues = {} <=>
        \A j \in DOMAIN draftEdges :
          /\ HasEndpoints(draftEdges[j])
          /\ draftEdges[j].branch \in BranchesByNodeType[TypeOf(draftEdges[j].source)]
  BY DEF EdgeIssues
<1>4. EndpointsExist(DraftGraph) <=> \A j \in DOMAIN draftEdges : HasEndpoints(draftEdges[j])
  BY <1>1, <1>2 DEF EndpointsExist, HasEndpoints
<1>5. ASSUME \A j \in DOMAIN draftEdges : HasEndpoints(draftEdges[j])
      PROVE  BranchesAccepted(DraftGraph) <=>
               \A j \in DOMAIN draftEdges :
                 draftEdges[j].branch \in BranchesByNodeType[TypeOf(draftEdges[j].source)]
  BY <1>1, <1>2, <1>5 DEF BranchesAccepted, HasEndpoints
<1>6. QED
  BY <1>3, <1>4, <1>5

LEMMA TypesOfPlaces ==
  ASSUME DraftTyped, Distinct, NEW i \in DOMAIN draftNodes
  PROVE  TypeOf(draftNodes[i].id) = draftNodes[i].type
<1>1. i <= i
  BY PlacesCounted
<1>2. NodeOf(draftNodes[i].id) = i
  BY <1>1 DEF NodeOf, Distinct
<1>3. QED
  BY <1>2 DEF TypeOf

LEMMA SourcesAre ==
  ASSUME DraftTyped, Distinct
  PROVE  SourceNodes(DraftGraph) = {draftNodes[i].id : i \in DraftSources}
<1>1. Nodes(DraftGraph) = Ids /\ \A id \in Ids : DraftGraph.kind[id] = TypeOf(id)
  BY DEF Nodes, DraftGraph
<1>2. \A i \in DOMAIN draftNodes : TypeOf(draftNodes[i].id) = draftNodes[i].type
  BY TypesOfPlaces
<1>3. QED
  BY <1>1, <1>2 DEF SourceNodes, Ids, DraftSources

LEMMA SourcesTold ==
  ASSUME DraftTyped, Distinct
  PROVE  /\ SourceIssues = {} <=> OneSource(DraftGraph)
         /\ SourceIssues = {} => DraftSources # {} /\ SourceNodes(DraftGraph) = {SourceId}
<1>1. IsFiniteSet(DraftSources) /\ Cardinality(DraftSources) \in Nat
  BY PlacesCounted, FS_Subset, FS_CardinalityType DEF DraftSources
<1>2. SourceIssues = {} <=> Cardinality(DraftSources) = 1
  <2>1. Cardinality(DraftSources) = 0 => SourceIssues # {}
    BY DEF SourceIssues
  <2>2. Cardinality(DraftSources) > 1 => SourceIssues # {}
    BY <1>1 DEF SourceIssues
  <2>3. Cardinality(DraftSources) = 1 => SourceIssues = {}
    BY DEF SourceIssues
  <2>4. QED
    BY <1>1, <2>1, <2>2, <2>3
<1>3. Cardinality(DraftSources) = 1 <=> \E i : DraftSources = {i}
  BY <1>1, FS_Singleton
<1>4. DraftSources \subseteq DOMAIN draftNodes
  BY DEF DraftSources
<1>5. ASSUME NEW i, DraftSources = {i}
      PROVE  /\ OneSource(DraftGraph) /\ DraftSources # {}
             /\ SourceNodes(DraftGraph) = {SourceId}
  <2>1. FirstSource = i
    BY <1>5, SourceFound
  <2>2. SourceNodes(DraftGraph) = {SourceId}
    BY <1>5, <2>1, SourcesAre DEF SourceId
  <2>3. SourceId \in Nodes(DraftGraph)
    BY <1>5, SourceFound DEF Nodes, DraftGraph
  <2>4. QED
    BY <1>5, <2>2, <2>3 DEF OneSource
<1>6. ASSUME OneSource(DraftGraph) PROVE \E i : DraftSources = {i}
  <2>1. PICK s \in Nodes(DraftGraph) : SourceNodes(DraftGraph) = {s}
    BY <1>6 DEF OneSource
  <2>2. PICK i \in DraftSources : draftNodes[i].id = s
    BY <2>1, SourcesAre
  <2>3. \A j \in DraftSources : j = i
    BY <1>4, <2>1, <2>2, SourcesAre DEF Distinct
  <2>4. DraftSources = {i}
    BY <2>2, <2>3
  <2>5. QED
    BY <2>4
<1>7. QED
  BY <1>2, <1>3, <1>5, <1>6

LEMMA CyclesAre ==
  ASSUME EndpointsExist(DraftGraph) PROVE Acyclic(DraftGraph) <=> NoCycleIn(Ids)
<1>1. Nodes(DraftGraph) = Ids
  BY DEF Nodes, DraftGraph
<1>2. \A e : e \in DraftGraph.edges <=> \E i \in DOMAIN draftEdges : e = draftEdges[i]
  BY DEF DraftGraph
<1>3. Links = DOMAIN draftEdges
  BY <1>1, <1>2 DEF Links, HasEndpoints, EndpointsExist
<1>4. ASSUME NEW S, NEW n
      PROVE  (\A e \in DraftGraph.edges : e.source = n => e.target \notin S)
               <=> (\A i \in Links : draftEdges[i].source = n => draftEdges[i].target \notin S)
  BY <1>2, <1>3
<1>5. ASSUME NEW S
      PROVE  (\E n \in S : \A e \in DraftGraph.edges : e.source = n => e.target \notin S)
               <=> (\E n \in S : \A i \in Links :
                      draftEdges[i].source = n => draftEdges[i].target \notin S)
  BY <1>4
<1>6. QED
  BY <1>1, <1>5 DEF Acyclic, NoCycleIn

LEMMA WalkTold ==
  ASSUME DraftTyped, EndpointsExist(DraftGraph), WalkSound(walk), walk.step = "done",
         DraftSources # {}, SourceNodes(DraftGraph) = {SourceId}
  PROVE  WalkIssues = {} <=>
           /\ Acyclic(DraftGraph)
           /\ \A s \in SourceNodes(DraftGraph), n \in Ids : Reaches(DraftGraph, s, n)
<1> DEFINE w == walk
<1>1. WalkIssues = {} <=> w.cycles = {} /\ Ids \subseteq w.reachable
  BY DEF WalkIssues
<1>2. /\ Len(w.stack) = 0 /\ VisitingIsStack(w.stack, w.visiting)
      /\ ReachedSound(w) /\ Followed(w) /\ NoCycleYet(w) /\ CyclesReal(w)
  BY DEF WalkSound, Ends
<1>3. w.visiting = {} /\ w.reachable = w.visited
  <2>1. 1 .. 0 = {}
    OBVIOUS
  <2>2. w.visiting = {}
    BY <1>2, <2>1 DEF VisitingIsStack
  <2>3. QED
    BY <1>2, <2>2 DEF ReachedSound
<1>4. Nodes(DraftGraph) = Ids
  BY DEF Nodes, DraftGraph
<1>5. \A n : Reaches(DraftGraph, SourceId, n) <=> Within(n)
  BY <1>4 DEF Reaches, Within
<1>6. \A n \in w.reachable : Within(n)
  BY <1>2 DEF ReachedSound
<1>7. ASSUME NEW n \in Ids, Within(n) PROVE n \in w.reachable
  <2>1. \A e \in DraftGraph.edges : \E i \in Links : e = draftEdges[i]
    BY <1>4 DEF EndpointsExist, DraftGraph, Links, HasEndpoints
  <2>2. Closed(DraftGraph.edges, w.reachable)
    BY <1>2, <1>3, <2>1 DEF Closed, Followed
  <2>3. w.reachable \in SUBSET Ids /\ SourceId \in w.reachable
    BY <1>2 DEF ReachedSound
  <2>4. QED
    BY <1>7, <2>2, <2>3 DEF Within
<1>8. w.reachable \subseteq Ids
  BY <1>2 DEF ReachedSound
<1> HIDE DEF w
<1>9. w.cycles = {} /\ w.visited = Ids => NoCycleIn(Ids)
  BY <1>2 DEF NoCycleYet
<1>10. NoCycleIn(Ids) => w.cycles = {}
  BY <1>2 DEF CyclesReal
<1>11. Ids \subseteq w.reachable <=> \A n \in Ids : Reaches(DraftGraph, SourceId, n)
  BY <1>5, <1>6, <1>7
<1>12. QED
  BY <1>1, <1>3, <1>8, <1>9, <1>10, <1>11, CyclesAre

LEMMA VerdictSound == ValidationInv => ValidationSound
<1> SUFFICES ASSUME ValidationInv, walk.step = "done"
             PROVE  ValidateAutomation = {} <=>
                      /\ Cardinality(Ids) = Len(draftNodes)
                      /\ OneSource(DraftGraph)
                      /\ EndpointsExist(DraftGraph)
                      /\ BranchesAccepted(DraftGraph)
                      /\ Acyclic(DraftGraph)
                      /\ \A s \in SourceNodes(DraftGraph), n \in Ids : Reaches(DraftGraph, s, n)
  BY DEF ValidationSound
<1>1. DraftTyped /\ (DraftSources # {} => WalkSound(walk))
  BY DEF ValidationInv
<1>2. ValidateAutomation = {} <=>
        NodeIssues = {} /\ SourceIssues = {} /\ EdgeIssues = {} /\ WalkIssues = {}
  BY DEF ValidateAutomation
<1>3. NodeIssues = {} <=> Cardinality(Ids) = Len(draftNodes)
  BY <1>1, NodesTold, IdsCounted
<1>4. NodeIssues = {} => (SourceIssues = {} <=> OneSource(DraftGraph))
  BY <1>1, NodesTold, SourcesTold
<1>5. ASSUME NodeIssues = {}, SourceIssues = {}, EdgeIssues = {}
      PROVE  WalkIssues = {} <=>
               /\ Acyclic(DraftGraph)
               /\ \A s \in SourceNodes(DraftGraph), n \in Ids : Reaches(DraftGraph, s, n)
  <2>1. DraftSources # {} /\ SourceNodes(DraftGraph) = {SourceId}
    BY <1>1, <1>5, NodesTold, SourcesTold
  <2>2. EndpointsExist(DraftGraph)
    BY <1>5, EdgesTold
  <2>3. QED
    BY <1>1, <2>1, <2>2, WalkTold
<1>6. QED
  BY <1>2, <1>3, <1>4, <1>5, EdgesTold

LEMMA ValidationTypes == ValidationInv => DraftTypeOK
<1>1. Unwalked \in WalkState /\ [Unwalked EXCEPT !.step = "done"] \in WalkState
  <2>1. <<>> \in Seq(Call)
    OBVIOUS
  <2>2. QED
    BY <2>1 DEF Unwalked, WalkState
<1>2. QED
  BY <1>1 DEF ValidationInv, DraftTyped, DraftTypeOK, WalkSound

-----------------------------------------------------------------------------
(* While the check runs, its draft stays as it is.                         *)
LEMMA DraftStays ==
  ASSUME UNCHANGED <<draftNodes, draftEdges>>, NEW w
  PROVE  WalkSound(w)' = WalkSound(w)
<1>1. Ids' = Ids /\ DraftGraph' = DraftGraph /\ SourceId' = SourceId /\ Links' = Links
  BY DEF Ids, DraftGraph, TypeOf, NodeOf, SourceId, FirstSource, DraftSources, Links, HasEndpoints
<1>2. \A n : Adjacency(n)' = Adjacency(n)
  BY DEF Adjacency, HasEndpoints, Ids
<1>3. CallsTyped(w.stack)' = CallsTyped(w.stack) /\ StackIsPath(w.stack)' = StackIsPath(w.stack)
  BY <1>1, <1>2 DEF CallsTyped, StackIsPath
<1>4. ReachedSound(w)' = ReachedSound(w)
  BY <1>1 DEF ReachedSound, Within
<1>5. Followed(w)' = Followed(w)
  BY <1>1 DEF Followed
<1>6. NoCycleYet(w)' = NoCycleYet(w) /\ CyclesReal(w)' = CyclesReal(w)
  <2>1. ASSUME NEW V PROVE NoCycleIn(V)' = NoCycleIn(V)
    BY <1>1 DEF NoCycleIn
  <2>2. NoCycleIn(w.visited)' = NoCycleIn(w.visited)
    BY <2>1
  <2>3. NoCycleIn(Ids)' = NoCycleIn(Ids)
    BY <1>1 DEF NoCycleIn
  <2>4. CyclesReal(w)' = CyclesReal(w)
    BY <2>3 DEF CyclesReal
  <2>5. NoCycleYet(w)' = NoCycleYet(w)
    BY <1>1, <1>2, <2>2 DEF NoCycleYet
  <2>6. QED
    BY <2>4, <2>5
<1>7. QED
  BY <1>3, <1>4, <1>5, <1>6 DEF WalkSound, Ends, VisitingIsStack

LEMMA ValidationInvInit == DraftInit => ValidationInv
BY DEF DraftInit, ValidationInv, DraftTyped, Unwalked

LEMMA ValidationInvStep == ValidationInv /\ [DraftNext]_draftVars => ValidationInv'
<1> SUFFICES ASSUME ValidationInv, [DraftNext]_draftVars PROVE ValidationInv'
  OBVIOUS
<1>1. DraftTyped
  BY DEF ValidationInv
<1>2. ASSUME NEW n \in DraftNode, AddDraftNode(n) PROVE ValidationInv'
  <2>1. DraftTyped'
    BY <1>1, <1>2 DEF AddDraftNode, DraftTyped
  <2>2. QED
    BY <1>2, <2>1 DEF AddDraftNode, ValidationInv
<1>3. ASSUME NEW e \in DraftEdge, AddDraftEdge(e) PROVE ValidationInv'
  <2>1. DraftTyped'
    BY <1>1, <1>3 DEF AddDraftEdge, DraftTyped
  <2>2. QED
    BY <1>3, <2>1 DEF AddDraftEdge, ValidationInv
<1>4. ASSUME UNCHANGED <<draftNodes, draftEdges>>, walk'.step # "drafting",
             IF DraftSources = {} THEN walk' = [Unwalked EXCEPT !.step = "done"]
             ELSE WalkSound(walk')
      PROVE  ValidationInv'
  <2>1. DraftTyped' /\ DraftSources' = DraftSources
    BY <1>1, <1>4 DEF DraftTyped, DraftSources
  <2>2. CASE DraftSources = {}
    BY <1>4, <2>1, <2>2 DEF ValidationInv
  <2>3. CASE DraftSources # {}
    <3>1. WalkSound(walk')
      BY <1>4, <2>3
    <3>2. WalkSound(walk)'
      BY <1>4, <3>1, DraftStays
    <3>3. QED
      BY <1>4, <2>1, <2>3, <3>2 DEF ValidationInv
  <2>4. QED
    BY <2>2, <2>3
<1>5. CASE StartWalk
  <2>1. walk = Unwalked
    BY <1>5 DEF StartWalk, ValidationInv
  <2>2. CASE DraftSources = {}
    BY <1>4, <1>5, <2>1, <2>2 DEF StartWalk, Unwalked
  <2>3. CASE DraftSources # {}
    <3>1. walk' = Walk(SourceId, [Unwalked EXCEPT !.step = "walking"])
      BY <1>5, <2>1, <2>3 DEF StartWalk, SourceId
    <3>2. WalkSound(walk') /\ walk'.step # "drafting"
      BY <1>1, <2>3, <3>1, StartSound
    <3>3. QED
      BY <1>4, <1>5, <2>3, <3>2 DEF StartWalk
  <2>4. QED
    BY <2>2, <2>3
<1>6. walk.step = "walking" => DraftSources # {} /\ WalkSound(walk)
  BY DEF ValidationInv, Unwalked
<1>7. CASE WalkChild
  <2>1. PICK i \in walk.stack[Len(walk.stack)].left :
          walk' = Walk(draftEdges[i].target, [walk EXCEPT !.stack[Len(walk.stack)].left = @ \ {i}])
    BY <1>7 DEF WalkChild, Top
  <2>2. WalkSound(walk') /\ walk'.step # "drafting"
    BY <1>1, <1>6, <1>7, <2>1, ChildSound DEF WalkChild
  <2>3. QED
    BY <1>4, <1>6, <1>7, <2>2 DEF WalkChild
<1>8. CASE WalkReturn
  <2>1. WalkSound(walk') /\ walk'.step # "drafting"
    BY <1>1, <1>6, <1>8, ReturnSound DEF WalkReturn, Top
  <2>2. QED
    BY <1>4, <1>6, <1>8, <2>1 DEF WalkReturn
<1>9. CASE UNCHANGED draftVars
  <2>1. DraftTyped' /\ DraftSources' = DraftSources /\ walk' = walk
    BY <1>1, <1>9 DEF DraftTyped, DraftSources, draftVars
  <2>2. CASE walk.step = "drafting"
    BY <2>1, <2>2 DEF ValidationInv
  <2>3. CASE walk.step # "drafting"
    BY <1>4, <1>9, <2>1, <2>3 DEF ValidationInv, draftVars
  <2>4. QED
    BY <2>2, <2>3
<1>10. QED
  BY <1>2, <1>3, <1>5, <1>7, <1>8, <1>9 DEF DraftNext

(* Whatever the draft and the order of its edges, for any number of nodes  *)
(* and edges: once the walk has ended, the check has an issue if and only  *)
(* if the draft is not one the engine can run.  (automation.ts             *)
(* validateAutomation)                                                     *)
THEOREM ValidationAlwaysSound == DraftSpec => [](DraftTypeOK /\ ValidationSound)
<1>1. ValidationInv => DraftTypeOK /\ ValidationSound
  BY ValidationTypes, VerdictSound
<1>2. QED
  BY <1>1, ValidationInvInit, ValidationInvStep, PTL DEF DraftSpec
=============================================================================
