------------------------------- MODULE Photos -------------------------------
(***************************************************************************)
(* The photo libraries and albums of a server (internal/photos, and their  *)
(* handlers in internal/server/photos.go), and the copies of thumbnails a  *)
(* gallery keeps.                                                          *)
(*                                                                         *)
(* A request looks things up, then pushes to the sync engine; other        *)
(* requests come in between.  Every photo has one derivative: its          *)
(* thumbnail stands for the preview too.                                   *)
(*                                                                         *)
(* An operator Name_Slip is a wrong variant of the operator Name after it; *)
(* the specification uses none of them.                                    *)
(***************************************************************************)
EXTENDS Integers, Sequences, FiniteSets

CONSTANTS
  People, Albums, PhotoIds, Names,
  Originals,   \* the contents of photos, named by their hash
  Decodable,   \* the contents the server can make a thumbnail of
  Movies,      \* the movies of Live Photos
  Thumbs,      \* thumbnails clients made
  ServerMade,  \* the thumbnail the server makes
  AlbumLevel,  \* [People -> [Albums -> 0..3]]
  StartPhotos, StartHeld, \* rows an instance begins with
  Requests,    \* the requests the server works on at the same time
  MaxRequests, MaxTiles, \* bounds: requests ever made, thumbnails kept at once
  None

VARIABLES
  photo,  \* library photos and album items, by object id
  held,   \* <<user, blob>>: the blobs a user may reference
  req,    \* what each handler is doing, or None
  begun,  \* requests made so far
  tile    \* what a gallery keeps of the thumbnails it fetched

rows == <<photo, held>>
photoVars == <<photo, held, req, begun, tile>>

PhotoRow ==
  [place : People \cup Albums, content : Originals, name : Names,
   thumb : Thumbs \cup {ServerMade, None}, from : PhotoIds \cup {None}, live : BOOLEAN, rev : Nat]

\* What a handler is doing; adding to an album is of at most two photos here.
AlbumItem == [from : PhotoIds, row : PhotoRow]
Asked ==
  [phase : {"push"}, user : People, content : Originals, name : Names,
   thumb : Thumbs \cup {ServerMade, None}, sent : Thumbs \cup {None},
   found : PhotoIds \cup {None}, seen : SUBSET PhotoIds]
  \cup [phase : {"attach"}, user : People, photo : PhotoIds, thumb : Thumbs]
  \cup [phase : {"attaching"}, photo : PhotoIds, thumb : Thumbs, base : Nat]
  \cup [phase : {"items"}, album : Albums, seen : SUBSET PhotoIds,
        items : [{1} -> AlbumItem] \cup [{2} -> AlbumItem] \cup [{1, 2} -> AlbumItem]]
  \cup [phase : {"answer"}, photo : PhotoIds \cup {None}]

\* An item of an album remembers a photo of a library.
FromLibraries(ph) ==
  \A i \in PhotoIds : ph[i] # None =>
    IF ph[i].place \in Albums
    THEN ph[i].from \in PhotoIds /\ ph[ph[i].from] # None /\ ph[ph[i].from].place \notin Albums
    ELSE ph[i].from = None

ASSUME PhotosAssumption ==
  /\ None \notin PhotoRow \cup Asked \cup PhotoIds \cup Thumbs
  /\ People \cap Albums = {}
  /\ StartPhotos \in [PhotoIds -> PhotoRow \cup {None}] /\ FromLibraries(StartPhotos)

Present(i) == photo[i] # None /\ photo[i].live
In(place) == {i \in PhotoIds : Present(i) /\ photo[i].place = place}
\* The user's level on the library or album of a photo; 3 is the owner's.
PlaceLevel(u, p) == IF p \in Albums THEN AlbumLevel[u][p] ELSE IF p = u THEN 3 ELSE 0
MayRead(u, i) == Present(i) /\ PlaceLevel(u, photo[i].place) > 0

Unused(k) == req[k] = None /\ begun < MaxRequests
Doing(k, phase) == req[k] # None /\ req[k].phase = phase
Takes(k, r) == req' = [req EXCEPT ![k] = r] /\ begun' = begun + 1
Becomes(k, r) == req' = [req EXCEPT ![k] = r] /\ UNCHANGED begun
\* The answer of a request: the photo it is about, or None when it failed.
Answers(k, i) == Becomes(k, [phase |-> "answer", photo |-> i])
AnswerRead(k) == Doing(k, "answer") /\ Becomes(k, None) /\ UNCHANGED <<rows, tile>>

-----------------------------------------------------------------------------
(* The library.                                                            *)

\* PUT of a blob.
PutBlob(u, b) ==
  /\ <<u, b>> \notin held /\ held' = held \cup {<<u, b>>}
  /\ UNCHANGED <<photo, req, begun, tile>>

\* Prepare: only what it can decode gets a thumbnail here.
Prepared(content, thumb) == IF content \in Decodable THEN ServerMade ELSE thumb

\* A photo of that name and content, else one of that content.
Existing_ByName(u, content, name) ==
  {i \in In(u) : photo[i].name = name /\ photo[i].content = content}
Existing(u, content, name) ==
  LET named == {i \in In(u) : photo[i].name = name /\ photo[i].content = content}
  IN IF named # {} THEN named ELSE {i \in In(u) : photo[i].content = content}

Lookup(k, u, content, name, thumb) ==
  \E found \in IF Existing(u, content, name) = {} THEN {None} ELSE Existing(u, content, name) :
    Takes(k, [phase |-> "push", user |-> u, content |-> content, name |-> name,
              thumb |-> Prepared(content, thumb), sent |-> thumb, found |-> found,
              seen |-> In(u)])

\* Commit of blobs uploaded before; a blob the user may not reference is refused.
CanCommit(u, content, movie) == \A b \in {content, movie} \ {None} : <<u, b>> \in held
Commit(k, u, content, name, movie, thumb) ==
  /\ CanCommit(u, content, movie) /\ (thumb # None => <<u, thumb>> \in held)
  /\ Lookup(k, u, content, name, thumb) /\ UNCHANGED <<rows, tile>>

\* Upload of the bytes themselves.
Ingest(k, u, content, name) ==
  /\ held' = held \cup {<<u, content>>}
  /\ Lookup(k, u, content, name, None) /\ UNCHANGED <<photo, tile>>

PushCreate(k, i) ==
  /\ Doing(k, "push") /\ req[k].found = None /\ photo[i] = None
  /\ photo' = [photo EXCEPT ![i] =
       [place |-> req[k].user, content |-> req[k].content, name |-> req[k].name,
        thumb |-> req[k].thumb, from |-> None, live |-> TRUE, rev |-> 1]]
  /\ Answers(k, i) /\ UNCHANGED <<held, tile>>

\* Over quota, or the push fails.
PushRefused(k) ==
  /\ Doing(k, "push") /\ req[k].found = None
  /\ Answers(k, None) /\ UNCHANGED <<rows, tile>>

\* It is there already: it gets the thumbnail it lacks.
PushFound(k) ==
  /\ Doing(k, "push") /\ req[k].found # None /\ UNCHANGED <<rows, tile>>
  /\ LET r == req[k] IN
       IF r.sent # None /\ photo[r.found].thumb = None
       THEN Becomes(k, [phase |-> "attach", user |-> r.user, photo |-> r.found, thumb |-> r.sent])
       ELSE Answers(k, r.found)

\* AttachDerivatives: to a photo of the user's own library that has none.
Attach(k, u, i, thumb) ==
  /\ <<u, thumb>> \in held
  /\ Takes(k, [phase |-> "attach", user |-> u, photo |-> i, thumb |-> thumb])
  /\ UNCHANGED <<rows, tile>>

AttachRead(k) ==
  /\ Doing(k, "attach") /\ UNCHANGED <<rows, tile>>
  /\ LET r == req[k] IN
       IF ~ (Present(r.photo) /\ photo[r.photo].place = r.user) THEN Answers(k, None)
       ELSE IF photo[r.photo].thumb # None THEN Answers(k, r.photo)
       ELSE Becomes(k, [phase |-> "attaching", photo |-> r.photo, thumb |-> r.thumb,
                        base |-> photo[r.photo].rev])

\* Not forced: a photo changed since is a conflict.
AttachPush(k) ==
  /\ Doing(k, "attaching")
  /\ LET r == req[k] IN
       IF Present(r.photo) /\ photo[r.photo].rev = r.base
       THEN /\ photo' = [photo EXCEPT ![r.photo] =
                 [photo[r.photo] EXCEPT !.thumb = r.thumb, !.rev = photo[r.photo].rev + 1]]
            /\ Answers(k, r.photo) /\ UNCHANGED <<held, tile>>
       ELSE Answers(k, None) /\ UNCHANGED <<rows, tile>>

\* A sync client deletes a photo or an album item.
Remove(u, i) ==
  /\ Present(i) /\ PlaceLevel(u, photo[i].place) >= 2
  /\ photo' = [photo EXCEPT ![i] = [photo[i] EXCEPT !.live = FALSE, !.rev = photo[i].rev + 1]]
  /\ UNCHANGED <<held, req, begun, tile>>

-----------------------------------------------------------------------------
(* Albums: items that copy a photo's blobs and remember its id.            *)

Source(i) == IF photo[i].place \in Albums THEN photo[i].from ELSE i

AddToAlbum(k, u, album, list) ==
  LET new == {n \in DOMAIN list : ~ \E j \in In(album) : photo[j].from = Source(list[n])} IN
  /\ AlbumLevel[u][album] >= 2 /\ \A n \in DOMAIN list : MayRead(u, list[n])
  /\ held' = held \cup {<<u, photo[list[n]].content>> : n \in new}
  /\ IF new = {} THEN Takes(k, [phase |-> "answer", photo |-> None])
     ELSE Takes(k, [phase |-> "items", album |-> album, seen |-> In(album),
                    items |-> [n \in new |-> [from |-> Source(list[n]), row |-> photo[list[n]]]]])
  /\ UNCHANGED <<photo, tile>>

PushItems(k, ids) ==
  /\ Doing(k, "items") /\ DOMAIN ids = DOMAIN req[k].items
  /\ \A m, n \in DOMAIN ids : photo[ids[n]] = None /\ (m # n => ids[m] # ids[n])
  /\ photo' = [i \in PhotoIds |->
       IF \E n \in DOMAIN ids : ids[n] = i
       THEN LET it == req[k].items[CHOOSE n \in DOMAIN ids : ids[n] = i] IN
            [place |-> req[k].album, content |-> it.row.content, name |-> it.row.name,
             thumb |-> it.row.thumb, from |-> it.from, live |-> TRUE, rev |-> 1]
       ELSE photo[i]]
  /\ Answers(k, ids[CHOOSE n \in DOMAIN ids : TRUE]) /\ UNCHANGED <<held, tile>>

-----------------------------------------------------------------------------
(* What is served as a photo's thumbnail, and what a gallery keeps of it.  *)

\* WithSourceDerivatives: an item takes the thumbnail its photo got later.
ThumbOf(i) ==
  LET src == photo[i].from IN
  IF photo[i].thumb = None /\ src # None /\ Present(src) /\ photo[src].content = photo[i].content
  THEN photo[src].thumb ELSE photo[i].thumb

\* RenditionBlob: without a thumbnail, the original.
Rendition(i) == IF ThumbOf(i) = None THEN photo[i].content ELSE ThumbOf(i)

ETag(i) == Rendition(i)

\* Only an answer that is the blob the URL names may be kept for good.
Immutable(v, i) == v # None /\ v = Rendition(i)

\* A fetch of the URL with ?v=v (None: without); a kept answer is not asked
\* for again, another is revalidated by its tag.
Fetch(u, i, v) ==
  /\ MayRead(u, i)
  /\ LET old == {t \in tile : t.photo = i /\ t.v = v}
         same == {t \in old : t.tag = ETag(i)}
     IN /\ ~ \E t \in old : t.kept
        /\ old = {} => Cardinality(tile) < MaxTiles
        /\ tile' = (tile \ old) \cup
             {[photo |-> i, v |-> v, tag |-> ETag(i), kept |-> Immutable(v, i),
               body |-> IF same = {} THEN Rendition(i) ELSE (CHOOSE t \in same : TRUE).body]}
  /\ UNCHANGED <<rows, req, begun>>

-----------------------------------------------------------------------------
PhotoInit ==
  /\ photo = StartPhotos /\ held = StartHeld
  /\ req = [k \in Requests |-> None] /\ begun = 0 /\ tile = {}

\* What the server does with the requests it has.
ServerStep ==
  \E k \in Requests :
    \/ \E i \in PhotoIds : PushCreate(k, i)
    \/ PushRefused(k) \/ PushFound(k) \/ AttachRead(k) \/ AttachPush(k)
    \/ Doing(k, "items") /\ \E ids \in [DOMAIN req[k].items -> PhotoIds] : PushItems(k, ids)

ClientStep ==
  \/ \E k \in Requests, u \in People :
       /\ Unused(k)
       /\ \/ \E c \in Originals, n \in Names :
               \/ Ingest(k, u, c, n)
               \/ \E t \in Thumbs \cup {None} : Commit(k, u, c, n, None, t)
          \/ \E i \in PhotoIds, t \in Thumbs : Attach(k, u, i, t)
          \/ \E a \in Albums, i, j \in {p \in PhotoIds : Present(p)} : AddToAlbum(k, u, a, <<i, j>>)
  \/ \E u \in People, b \in Originals \cup Thumbs : PutBlob(u, b)
  \/ \E u \in People, i \in PhotoIds :
       \/ Remove(u, i)
       \/ Present(i) /\ \E v \in {None, photo[i].content, Rendition(i)} : Fetch(u, i, v)
  \/ \E k \in Requests : AnswerRead(k)

PhotoNext == ServerStep \/ ClientStep
PhotoSpec == PhotoInit /\ [][PhotoNext]_photoVars

-----------------------------------------------------------------------------
(* Properties.                                                             *)

\* Every row and every request has its type.
PhotosOK ==
  /\ photo \in [PhotoIds -> PhotoRow \cup {None}]
  /\ req \in [Requests -> Asked \cup {None}]

\* A commit or an upload makes a second photo of one content only when the
\* other was made after it had looked (service.go:167).
PhotosDoubledOnlyInOverlap ==
  [][\A k \in Requests, i, j \in PhotoIds :
       /\ Doing(k, "push") /\ req'[k] # req[k] /\ photo[i] = None /\ photo'[i] # None
       /\ j \in In(req[k].user) /\ photo[j].content = req[k].content
       => j \notin req[k].seen]_photoVars

\* The library photo an item comes from.
Origin(i) == IF photo[i].from = None THEN i ELSE photo[i].from

\* "Photos already in the album are skipped" (albums.go:99), also when they are
\* added from another album: but for requests at the same time.
ItemsDoubledOnlyInOverlap ==
  [][\A k \in Requests, i, j \in PhotoIds :
       /\ Doing(k, "items") /\ req'[k] # req[k] /\ photo[i] = None /\ photo'[i] # None
       /\ j \in In(req[k].album) /\ Origin(photo[j].from) = Origin(photo'[i].from)
       => j \notin req[k].seen]_photoVars

\* "Derivatives the server made are never replaced" (derivatives.go:73), nor any other.
ThumbsNeverReplaced ==
  [][\A i \in PhotoIds : photo[i] # None /\ photo[i].thumb # None =>
       photo'[i].thumb = photo[i].thumb]_photoVars

\* What a gallery keeps for good under a URL is the blob the URL names.
KeptTilesTrue == \A t \in tile : t.kept => t.body = t.v

\* "A thumbnail attached later must not revalidate as the original that stood
\* in for it" (photos.go:164).
FetchShowsCurrent ==
  [][\A t \in tile' \ tile : t.body = Rendition(t.photo)]_photoVars

\* The library and its gallery: no photo or item is doubled but by overlapping
\* requests, no thumbnail replaced, and no gallery shows what is not.
LibrarySound ==
  /\ [](PhotosOK /\ KeptTilesTrue)
  /\ PhotosDoubledOnlyInOverlap /\ ItemsDoubledOnlyInOverlap
  /\ ThumbsNeverReplaced /\ FetchShowsCurrent
=============================================================================
