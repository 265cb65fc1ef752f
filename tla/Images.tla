------------------------------- MODULE Images -------------------------------
(***************************************************************************)
(* Hero images, avatars, banners and logos (event, user and sponsor        *)
(* services, upload.service): an object in S3 and its URL in a column.  An *)
(* upload reads the former URL and then puts the new object, updates the   *)
(* column and deletes the former object side by side, in any order.  An    *)
(* image is named by the request that uploads it; what a holder has before *)
(* is named by the holder.                                                 *)
(***************************************************************************)
EXTENDS Budgeting

CONSTANTS
  Requests,  \* uploads and removals, numbered as they come
  Holders,   \* image columns of rows of event, user and sponsor
  Kind,      \* Kind[h]: which column
  WithRow,   \* holders whose row exists at first
  WithImage, \* those that have an image then
  NoImage    \* NULL

Sponsors == {"banner", "logo"}

ASSUME ImagesAssumption ==
  /\ Kind \in [Holders -> {"hero", "avatar"} \cup Sponsors]
  /\ WithImage \subseteq WithRow /\ WithRow \subseteq Holders
  /\ \A h \in Holders \ WithRow : Kind[h] \in Sponsors
  /\ Requests \subseteq Nat /\ Requests \cap Holders = {} /\ NoImage \notin Requests \cup Holders

VARIABLES
  exists,     \* holders whose row exists
  url,        \* per holder: the column
  objects,    \* S3
  request,    \* per request: where it is and what is still on its way
  forms,      \* forms of clients: URLs they have loaded with a row
  broken,     \* history: holders one call for which has failed or died
  overlapped, \* history: holders two requests were at work on
  restored    \* history: holders an older URL of which a form has saved

imageHistory == <<broken, overlapped, restored>>
imageState == <<exists, url, objects, request, forms, imageHistory>>

Request(point, h, known, former, pending) ==
  [at |-> point, holder |-> h, known |-> known, former |-> former,
   pending |-> pending, failed |-> FALSE, uploads |-> point = "read"]
Unused == Request("unused", NoImage, FALSE, NoImage, {})
Live(h) == {r \in Requests : request[r].at \notin {"unused", "answered", "failed"}
                             /\ request[r].holder = h}

Come(r) ==
  request[r].at = "unused" /\ \A q \in Requests : q < r => request[q].at # "unused"

\* A new user's row has the URL of an avatar nobody has uploaded.
ImagesInit ==
  /\ exists = WithRow
  /\ url = [h \in Holders |-> IF h \in WithImage THEN h ELSE NoImage]
  /\ objects = {h \in WithImage : Kind[h] # "avatar"}
  /\ request = [r \in Requests |-> Unused] /\ forms = {}
  /\ broken = {} /\ overlapped = {} /\ restored = {}
  /\ left \in Budgets

Overlap(h) == overlapped' = IF Live(h) = {} THEN overlapped ELSE overlapped \cup {h}
Set(r, q) == request' = [request EXCEPT ![r] = q]

-----------------------------------------------------------------------------
\* createHeroImage, createAvatar, uploadBanner, uploadLogo

\* A sponsor's image may come before the sponsor: without an id nothing is read.
Upload(r, h) ==
  /\ Come(r) /\ Spend("image")
  /\ Set(r, Request("read", h, h \in exists, NoImage, {}))
  /\ Overlap(h)
  /\ UNCHANGED <<exists, url, objects, forms, broken, restored>>

CreateHeroImage(r, h) == Kind[h] = "hero"   /\ Upload(r, h)
CreateAvatar(r, h)    == Kind[h] = "avatar" /\ Upload(r, h)
UploadBanner(r, h)    == Kind[h] = "banner" /\ Upload(r, h)
UploadLogo(r, h)      == Kind[h] = "logo"   /\ Upload(r, h)

\* Mutant: the former object is kept.
NothingToDelete(former) == {}
\* deleteHeroImage, deleteAvatar, deleteBanner, deleteLogo: only if there is one.
ToDelete(former) == IF former = NoImage THEN {} ELSE {"delete"}

\* updateHeroImage, updateAvatarImage, updateBannerImage, updateLogoImage: the
\* object and the column, side by side.
UpdateImage == {"put", "update"}

\* After sharp: process...Image reads the row.
ReadFormer(r) ==
  /\ request[r].at = "read"
  /\ LET h == request[r].holder
         former == IF request[r].known THEN url[h] ELSE NoImage
     IN  Set(r, [request[r] EXCEPT !.at = "wait", !.former = former,
                                   !.pending = UpdateImage \cup ToDelete(former)])
  /\ UNCHANGED <<exists, url, objects, forms, left, imageHistory>>

Remove(r, h, begun) ==
  /\ Come(r) /\ Spend("remove") /\ Set(r, begun) /\ Overlap(h)
  /\ UNCHANGED <<exists, url, objects, forms, broken, restored>>

\* removeHeroImage reads first; removeAvatar reads while it updates.
RemoveHeroImage(r, h) ==
  /\ Kind[h] = "hero"
  /\ Remove(r, h, Request("wait", h, TRUE, url[h], {"clear"} \cup ToDelete(url[h])))
RemoveAvatar(r, h) ==
  /\ Kind[h] = "avatar"
  /\ Remove(r, h, Request("look", h, TRUE, NoImage, {"look", "clear"}))

-----------------------------------------------------------------------------
\* The calls on their way

\* Mutant: what the column holds by now.
CurrentOf(r) == url[request[r].holder]
\* The object to delete is the one that was read.
Doomed(r) == request[r].former

\* An UPDATE without a row, or without an id, throws, and nobody waits for it.
Arrives(r, op) ==
  LET h == request[r].holder
  IN  /\ op \in request[r].pending
      /\ Set(r, IF op = "look" THEN [request[r] EXCEPT !.pending = @ \ {op}, !.former = url[h]]
                ELSE [request[r] EXCEPT !.pending = @ \ {op}])
      /\ url' = IF op = "update" /\ request[r].known THEN [url EXCEPT ![h] = r]
                ELSE IF op = "clear" THEN [url EXCEPT ![h] = NoImage] ELSE url
      /\ objects' = IF op = "put" THEN objects \cup {r}
                    ELSE IF op = "delete" THEN objects \ {Doomed(r)} ELSE objects
      /\ UNCHANGED <<exists, forms, left, imageHistory>>

\* One call fails; Promise.all rejects and the others go on.
CallFails(r, op) ==
  /\ op \in request[r].pending /\ Spend("fault")
  /\ Set(r, [request[r] EXCEPT !.pending = @ \ {op}, !.failed = TRUE])
  /\ broken' = broken \cup {request[r].holder}
  /\ UNCHANGED <<exists, url, objects, forms, overlapped, restored>>

\* removeAvatar deletes after both.
Looked(r) ==
  /\ request[r].at = "look" /\ request[r].pending = {} /\ ~request[r].failed
  /\ Set(r, [request[r] EXCEPT !.at = "wait", !.pending = ToDelete(request[r].former)])
  /\ UNCHANGED <<exists, url, objects, forms, left, imageHistory>>

\* Without a row the array itself is awaited, which waits for nothing.
Waited(r) == request[r].known => request[r].pending = {} /\ ~request[r].failed

Answer(r) ==
  /\ request[r].at = "wait" /\ Waited(r)
  /\ Set(r, [request[r] EXCEPT !.at = "answered"])
  /\ UNCHANGED <<exists, url, objects, forms, left, imageHistory>>

Rejected(r) ==
  /\ request[r].at \in {"look", "wait"} /\ request[r].failed
  /\ Set(r, [request[r] EXCEPT !.at = "failed"])
  /\ UNCHANGED <<exists, url, objects, forms, left, imageHistory>>

-----------------------------------------------------------------------------
\* Forms: an image column is also written with the rest of its row.

LoadForm(h) ==
  /\ h \in exists /\ Kind[h] # "avatar" /\ Spend("form")
  /\ forms' = forms \cup {[holder |-> h, url |-> url[h]]}
  /\ UNCHANGED <<exists, url, objects, request, imageHistory>>

\* PUT of an event or a sponsor
SaveForm(form) ==
  /\ form \in forms /\ forms' = forms \ {form}
  /\ url' = [url EXCEPT ![form.holder] = form.url]
  /\ restored' = IF url' = url THEN restored ELSE restored \cup {form.holder}
  /\ UNCHANGED <<exists, objects, request, left, broken, overlapped>>

\* POST of a sponsor, with the URL of an upload that was answered.
CreateSponsor(h, r) ==
  /\ h \notin exists /\ request[r].at = "answered" /\ request[r].holder = h
  /\ exists' = exists \cup {h} /\ url' = [url EXCEPT ![h] = r]
  /\ UNCHANGED <<objects, request, forms, left, imageHistory>>

ImagesNext ==
  \/ \E r \in Requests :
       \/ ReadFormer(r) \/ Looked(r) \/ Answer(r) \/ Rejected(r)
       \/ \E h \in Holders :
            \/ CreateHeroImage(r, h) \/ CreateAvatar(r, h) \/ UploadBanner(r, h)
            \/ UploadLogo(r, h) \/ RemoveHeroImage(r, h) \/ RemoveAvatar(r, h)
            \/ CreateSponsor(h, r)
       \/ \E op \in request[r].pending : Arrives(r, op) \/ CallFails(r, op)
  \/ \E h \in Holders : LoadForm(h)
  \/ \E form \in forms : SaveForm(form)

ImagesSpec == ImagesInit /\ [][ImagesNext]_<<imageState, left>>

-----------------------------------------------------------------------------
\* Properties

\* A call on its way that will give the column an object again.
Mending(h) == \E r \in Requests :
  \/ "put" \in request[r].pending /\ url[h] = r
  \/ /\ request[r].pending \cap {"update", "clear"} # {}
     /\ request[r].holder = h /\ request[r].known /\ request[r].former = url[h]
\* removeAvatar may read the URL of an upload that comes after its UPDATE.
Spared(h) == Kind[h] = "avatar" /\ (url[h] = h \/ h \in overlapped)
\* Uploads and removals of the same image, in whatever order their calls
\* arrive, leave no column with the URL of a deleted object: only a failed call,
\* a form that was loaded before or a removed avatar does.
UrlServed == \A h \in exists \ (broken \cup restored) :
  url[h] \in objects \cup {NoImage} \/ Mending(h) \/ Spared(h)

\* An object that no column names is one that nobody deletes any more: that
\* takes two requests at once, a failure, a form, an upload without a row, or
\* removeAvatar, which may read the column after it has cleared it.
Removed(h) == Kind[h] = "avatar" /\ \E r \in Requests :
  request[r].holder = h /\ ~request[r].uploads
Owner(i) == IF i \in Holders THEN i ELSE request[i].holder
OrphansExplained == \A i \in objects : LET h == Owner(i) IN
  \/ url[h] = i \/ h \in broken \cup overlapped \cup restored
  \/ Live(h) # {} \/ Removed(h)
  \/ i \in Requests /\ ~request[i].known
=============================================================================
