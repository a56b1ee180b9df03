------------------------------- MODULE Assets -------------------------------
(***************************************************************************)
(* The asset library: a row in the database and an object in the bucket,   *)
(* written by requests that interleave and may die between any two awaits. *)
(*                                                                         *)
(*   apps/server/src/web/asset-service.ts            the requests          *)
(*   packages/database/src/web/asset-repository.ts   their SQL             *)
(*   packages/database/src/web/repository.ts         the public reader     *)
(*                                                                         *)
(* An object's key names its asset and a revision that is never used again *)
(* (buildAssetKey).  Content stands for the bytes together with everything *)
(* the row says about them: type, size, checksum, dimensions.  Of the      *)
(* metadata columns, which are always written together, the visibility is  *)
(* kept.  The audit log is left out.                                       *)
(***************************************************************************)
EXTENDS Naturals, FiniteSets

CONSTANTS
  AssetIds,       \* uuids assets may get
  Contents,       \* the files people upload
  MaxRevisions,   \* bound: revisions of one asset
  AssetRequests,  \* concurrent requests
  NoRow           \* the row of an asset that does not exist

Keys == AssetIds \X (1 .. MaxRevisions)
AssetOf(key) == key[1]
Visibility == {"private", "public"}
AssetRows == [key : Keys, content : Contents, visibility : Visibility, archived : BOOLEAN]

ASSUME AssetsAssumption ==
  /\ MaxRevisions \in Nat \ {0}
  /\ AssetIds # {} /\ Contents # {}
  /\ NoRow \notin AssetRows
  /\ "absent" \notin Contents /\ "short" \notin Contents

VARIABLES
  assetRow,   \* AssetIds -> the row, or NoRow
  bucket,     \* Keys -> the content stored, "short" for a torn upload, or "absent"
  keysUsed,   \* the keys buildAssetKey has returned
  assetReq    \* AssetRequests -> what the request is about to do

assetVars == <<assetRow, bucket, keysUsed, assetReq>>

AssetSteps == {"idle", "discard", "insert", "put", "update", "deleteOld",
               "metadata", "deleteRow", "serve"}
Request == [step : AssetSteps, asset : AssetIds, own : Keys, old : Keys,
            content : Contents, visibility : Visibility]
IdleRequest == CHOOSE q \in Request : q.step = "idle"

AssetTypeOK ==
  /\ assetRow \in [AssetIds -> AssetRows \cup {NoRow}]
  /\ bucket \in [Keys -> Contents \cup {"short", "absent"}]
  /\ keysUsed \subseteq Keys
  /\ assetReq \in [AssetRequests -> Request]

AssetInit ==
  /\ assetRow = [a \in AssetIds |-> NoRow]
  /\ bucket = [k \in Keys |-> "absent"]
  /\ keysUsed = {}
  /\ assetReq = [r \in AssetRequests |-> IdleRequest]

Exists(a) == assetRow[a] # NoRow
Finish(r) == assetReq' = [assetReq EXCEPT ![r] = IdleRequest]

(* bucket.put under a key that was never used: what arrives is the file,   *)
(* or less than was declared when the client goes away (putAssetObject).   *)
PutAssetObject(r, a, key, c, v, whole, next) ==
  /\ AssetOf(key) = a
  /\ key \notin keysUsed
  /\ keysUsed' = keysUsed \cup {key}
  /\ bucket' = [bucket EXCEPT ![key] = IF whole THEN c ELSE "short"]
  /\ assetReq' = [assetReq EXCEPT ![r] =
       [@ EXCEPT !.step = IF whole THEN next ELSE "discard",
                 !.asset = a, !.own = key, !.content = c, !.visibility = v]]

(* A torn upload: its own object is removed and the request fails.         *)
DiscardObject(r) ==
  /\ assetReq[r].step = "discard"
  /\ bucket' = [bucket EXCEPT ![assetReq[r].own] = "absent"]
  /\ Finish(r)
  /\ UNCHANGED <<assetRow, keysUsed>>

-----------------------------------------------------------------------------
(* uploadAsset and createStreamedAsset: a fresh id, the object, the row.   *)
(* (The buffered upload is verified, so only the streamed one can be torn.)*)

StartUpload(r, a, key, c, whole, v) ==
  /\ assetReq[r].step = "idle"
  /\ \A k \in keysUsed : AssetOf(k) # a
  /\ PutAssetObject(r, a, key, c, v, whole, "insert")
  /\ UNCHANGED assetRow

InsertAsset(r) ==
  LET q == assetReq[r]
  IN /\ q.step = "insert"
     /\ assetRow' = [assetRow EXCEPT ![q.asset] =
                       [key |-> q.own, content |-> q.content,
                        visibility |-> q.visibility, archived |-> FALSE]]
     /\ Finish(r)
     /\ UNCHANGED <<bucket, keysUsed>>

-----------------------------------------------------------------------------
(* replaceAssetContent: the row is read, the new object put under a fresh  *)
(* key, the row repointed, and the object the row had when it was read is  *)
(* deleted in the background.                                              *)

ReadForReplace(r, a) ==
  /\ assetReq[r].step = "idle"
  /\ Exists(a)
  /\ assetReq' = [assetReq EXCEPT ![r].step = "put", ![r].asset = a,
                                  ![r].old = assetRow[a].key]
  /\ UNCHANGED <<assetRow, bucket, keysUsed>>

PutReplacement(r, key, c, whole) ==
  /\ assetReq[r].step = "put"
  /\ PutAssetObject(r, assetReq[r].asset, key, c, assetReq[r].visibility, whole, "update")
  /\ UNCHANGED assetRow

(* Unconditional on the id: it changes nothing when the row is gone.       *)
UpdateContent(r) ==
  LET q == assetReq[r]
  IN /\ q.step = "update"
     /\ assetRow' = IF Exists(q.asset)
                      THEN [assetRow EXCEPT ![q.asset].key = q.own,
                                            ![q.asset].content = q.content]
                      ELSE assetRow
     /\ assetReq' = [assetReq EXCEPT ![r].step = "deleteOld"]
     /\ UNCHANGED <<bucket, keysUsed>>

(* The background delete of the object a request found in the row.         *)
DeleteOldObject_Early(r) ==
  /\ assetReq[r].step \in {"update", "deleteOld"}
  /\ bucket' = [bucket EXCEPT ![assetReq[r].old] = "absent"]
  /\ IF assetReq[r].step = "deleteOld" THEN Finish(r) ELSE UNCHANGED assetReq
  /\ UNCHANGED <<assetRow, keysUsed>>

DeleteOldObject(r) ==
  /\ assetReq[r].step = "deleteOld"
  /\ bucket' = [bucket EXCEPT ![assetReq[r].old] = "absent"]
  /\ Finish(r)
  /\ UNCHANGED <<assetRow, keysUsed>>

-----------------------------------------------------------------------------
(* updateAsset: what the patch leaves out is written back as it was read.  *)

ReadForUpdate(r, a, patch) ==
  /\ assetReq[r].step = "idle"
  /\ Exists(a)
  /\ ~assetRow[a].archived
  /\ assetReq' = [assetReq EXCEPT
       ![r].step = "metadata", ![r].asset = a,
       ![r].visibility = IF patch = "unset" THEN assetRow[a].visibility ELSE patch]
  /\ UNCHANGED <<assetRow, bucket, keysUsed>>

UpdateMetadata(r) ==
  LET q == assetReq[r]
  IN /\ q.step = "metadata"
     /\ assetRow' = IF Exists(q.asset)
                      THEN [assetRow EXCEPT ![q.asset].visibility = q.visibility]
                      ELSE assetRow
     /\ Finish(r)
     /\ UNCHANGED <<bucket, keysUsed>>

(* archiveAsset and restoreAsset are one conditional UPDATE each.          *)
ArchiveAsset(a) ==
  /\ Exists(a)
  /\ ~assetRow[a].archived
  /\ assetRow' = [assetRow EXCEPT ![a].archived = TRUE]
  /\ UNCHANGED <<bucket, keysUsed, assetReq>>

RestoreAsset(a) ==
  /\ Exists(a)
  /\ assetRow[a].archived
  /\ assetRow' = [assetRow EXCEPT ![a].archived = FALSE]
  /\ UNCHANGED <<bucket, keysUsed, assetReq>>

-----------------------------------------------------------------------------
(* deleteAsset: the row is read, then deleted, then its object.            *)

ReadForDelete(r, a) ==
  /\ assetReq[r].step = "idle"
  /\ Exists(a)
  /\ assetReq' = [assetReq EXCEPT ![r].step = "deleteRow", ![r].asset = a,
                                  ![r].old = assetRow[a].key]
  /\ UNCHANGED <<assetRow, bucket, keysUsed>>

DeleteRow(r) ==
  LET q == assetReq[r]
  IN /\ q.step = "deleteRow"
     /\ assetRow' = [assetRow EXCEPT ![q.asset] = NoRow]
     /\ assetReq' = [assetReq EXCEPT ![r].step =
                       IF Exists(q.asset) THEN "deleteOld" ELSE "idle"]
     /\ UNCHANGED <<bucket, keysUsed>>

-----------------------------------------------------------------------------
(* The readers: the row first (findPublicAsset, or findAssetForDelivery    *)
(* for a member, who may see any asset), then the object it named then.    *)

FindAsset(r, a, isMember) ==
  /\ assetReq[r].step = "idle"
  /\ Exists(a)
  /\ isMember \/ (assetRow[a].visibility = "public" /\ ~assetRow[a].archived)
  /\ assetReq' = [assetReq EXCEPT ![r].step = "serve", ![r].asset = a,
                                  ![r].old = assetRow[a].key,
                                  ![r].content = assetRow[a].content]
  /\ UNCHANGED <<assetRow, bucket, keysUsed>>

(* The object is served as what the row said it is, or the answer is 404.  *)
ServeAsset(r) ==
  /\ assetReq[r].step = "serve"
  /\ Finish(r)
  /\ UNCHANGED <<assetRow, bucket, keysUsed>>

(* A request dies, or one of its awaits throws.                            *)
AssetRequestDies(r) ==
  /\ assetReq[r].step # "idle"
  /\ Finish(r)
  /\ UNCHANGED <<assetRow, bucket, keysUsed>>

-----------------------------------------------------------------------------
AssetNext ==
  \/ \E r \in AssetRequests :
       \/ \E key \in Keys, c \in Contents, whole \in BOOLEAN, v \in Visibility :
            StartUpload(r, AssetOf(key), key, c, whole, v)
       \/ \E key \in Keys, c \in Contents, whole \in BOOLEAN :
            PutReplacement(r, key, c, whole)
       \/ \E a \in AssetIds : ReadForReplace(r, a) \/ ReadForDelete(r, a)
       \/ \E a \in AssetIds, patch \in Visibility \cup {"unset"} : ReadForUpdate(r, a, patch)
       \/ \E a \in AssetIds, isMember \in BOOLEAN : FindAsset(r, a, isMember)
       \/ DiscardObject(r) \/ InsertAsset(r) \/ UpdateContent(r) \/ DeleteOldObject(r)
       \/ UpdateMetadata(r) \/ DeleteRow(r) \/ ServeAsset(r) \/ AssetRequestDies(r)
  \/ \E a \in AssetIds : ArchiveAsset(a) \/ RestoreAsset(a)

AssetSpec == AssetInit /\ [][AssetNext]_assetVars

-----------------------------------------------------------------------------
(* A row always points at an object that is in the bucket, whole, and is   *)
(* what the row's checksum, size and type say, whichever replaces and      *)
(* deletes run at once or die half way; and a reader that holds a row gets *)
(* the bytes that row described or nothing, never those of another         *)
(* revision.  (asset-service.ts:120 "never leaves the row pointing at      *)
(* something half-written", :434 "a stray R2 object is cheaper than a      *)
(* dangling row")                                                          *)
RowHasObject ==
  /\ \A a \in AssetIds : Exists(a) => bucket[assetRow[a].key] = assetRow[a].content
  /\ \A r \in AssetRequests :
       assetReq[r].step = "serve" =>
         bucket[assetReq[r].old] \in {assetReq[r].content, "absent"}

=============================================================================
