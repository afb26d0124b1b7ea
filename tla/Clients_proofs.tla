--------------------------- MODULE Clients_proofs ---------------------------
(***************************************************************************)
(* Proofs about what surrounds the engine: the photo libraries of a        *)
(* server (Photos), the backup of a phone's camera roll to one             *)
(* (PhotoBackup), the migration of an old database (Migration), and the    *)
(* configuration with the automatic backups (Settings).                    *)
(***************************************************************************)
EXTENDS PhotoBackup, Settings, Migration, FiniteSetTheorems, TLAPS

-----------------------------------------------------------------------------
(* The libraries.                                                          *)

\* A photo keeps where it is, its content and what it was added from; its
\* thumbnail changes with its revision, and only when it had none.
SameRow(r, s) ==
  /\ s.place = r.place /\ s.content = r.content /\ s.from = r.from
  /\ r.rev <= s.rev /\ (s.rev = r.rev => s.thumb = r.thumb)
  /\ r.thumb # None => s.thumb = r.thumb
Grows(ph, ph2) ==
  \A i \in PhotoIds : ph[i] # None => ph2[i] # None /\ SameRow(ph[i], ph2[i])

\* What a request read and has not pushed yet is still so, but for what it is
\* tried against when it is pushed.
AskedSound(ph, r) ==
  /\ r.phase = "push" =>
       IF r.found = None THEN \A j \in r.seen : ph[j] # None /\ ph[j].content # r.content
       ELSE ph[r.found] # None /\ ph[r.found].place = r.user /\ ph[r.found].content = r.content
  /\ r.phase = "attaching" =>
       /\ ph[r.photo] # None /\ r.base <= ph[r.photo].rev
       /\ r.base = ph[r.photo].rev => ph[r.photo].thumb = None
  /\ r.phase = "items" =>
       \A n \in DOMAIN r.items :
         LET from == r.items[n].from IN
         /\ from \in PhotoIds /\ ph[from] # None /\ ph[from].place \notin Albums
         /\ \A j \in r.seen : ph[j] # None /\ ph[j].from # from

TilesTrue == \A t \in tile : t.body = t.tag /\ (t.kept => t.tag = t.v)

LibraryInv ==
  /\ PhotosOK /\ FromLibraries(photo)
  /\ \A k \in Requests : req[k] # None => AskedSound(photo, req[k])
  /\ TilesTrue

\* The fields of what a handler is doing, by its phase.
LEMMA AskedFields ==
  ASSUME NEW r \in Asked
  PROVE  /\ r.phase = "push" =>
              /\ r.user \in People /\ r.content \in Originals /\ r.name \in Names
              /\ r.thumb \in Thumbs \cup {ServerMade, None} /\ r.sent \in Thumbs \cup {None}
              /\ r.found \in PhotoIds \cup {None} /\ r.seen \subseteq PhotoIds
         /\ r.phase = "attach" => r.user \in People /\ r.photo \in PhotoIds /\ r.thumb \in Thumbs
         /\ r.phase = "attaching" => r.photo \in PhotoIds /\ r.thumb \in Thumbs /\ r.base \in Nat
         /\ r.phase = "items" =>
              /\ r.album \in Albums /\ r.seen \subseteq PhotoIds
              /\ r.items \in [{1} -> AlbumItem] \cup [{2} -> AlbumItem] \cup [{1, 2} -> AlbumItem]
         /\ r.phase = "answer" => r.photo \in PhotoIds \cup {None}
BY DEF Asked

\* What was read of rows stays so while they only grow.
LEMMA AskedStays ==
  ASSUME NEW ph \in [PhotoIds -> PhotoRow \cup {None}], NEW ph2 \in [PhotoIds -> PhotoRow \cup {None}],
         Grows(ph, ph2), NEW r \in Asked, AskedSound(ph, r)
  PROVE  AskedSound(ph2, r)
<1>1. CASE r.phase = "push"
  BY <1>1, AskedFields DEF AskedSound, Grows, SameRow
<1>2. CASE r.phase = "attaching"
  <2>1. r.photo \in PhotoIds /\ r.base \in Nat
    BY <1>2, AskedFields
  <2>2. ph[r.photo] # None /\ r.base <= ph[r.photo].rev /\ (r.base = ph[r.photo].rev => ph[r.photo].thumb = None)
    BY <1>2 DEF AskedSound
  <2>3. ph2[r.photo] # None /\ SameRow(ph[r.photo], ph2[r.photo])
    BY <2>1, <2>2 DEF Grows
  <2>4. ph[r.photo].rev \in Nat /\ ph2[r.photo].rev \in Nat
    BY <2>1, <2>2, <2>3 DEF PhotoRow
  <2> QED BY <1>2, <2>1, <2>2, <2>3, <2>4 DEF AskedSound, SameRow
<1>3. CASE r.phase = "items"
  <2>1. r.seen \subseteq PhotoIds
    BY <1>3, AskedFields
  <2> QED BY <1>3, <2>1 DEF AskedSound, Grows, SameRow
<1>4. CASE r.phase \notin {"push", "attaching", "items"}
  BY <1>4 DEF AskedSound
<1> QED BY <1>1, <1>2, <1>3, <1>4

\* One request moves on, and the rows grow.
LEMMA RequestMoves ==
  ASSUME LibraryInv, NEW k \in Requests, NEW r \in Asked \cup {None},
         photo' \in [PhotoIds -> PhotoRow \cup {None}], Grows(photo, photo'), FromLibraries(photo'),
         req' = [req EXCEPT ![k] = r], r # None => AskedSound(photo', r), UNCHANGED tile
  PROVE  LibraryInv'
<1>1. PhotosOK'
  BY DEF LibraryInv, PhotosOK
<1>2. ASSUME NEW h \in Requests, req'[h] # None PROVE AskedSound(photo', req'[h])
  <2>1. CASE h = k
    BY <1>2, <2>1 DEF LibraryInv, PhotosOK
  <2>2. CASE h # k
    <3>1. req'[h] = req[h] /\ req[h] \in Asked
      BY <1>2, <2>2 DEF LibraryInv, PhotosOK
    <3>2. AskedSound(photo, req[h]) /\ photo \in [PhotoIds -> PhotoRow \cup {None}]
      BY <1>2, <3>1 DEF LibraryInv, PhotosOK
    <3> QED BY <3>1, <3>2, AskedStays
  <2> QED BY <2>1, <2>2
<1> QED BY <1>1, <1>2 DEF LibraryInv, TilesTrue

LEMMA Unmoved == ASSUME PhotosOK, UNCHANGED photo PROVE Grows(photo, photo')
BY DEF PhotosOK, PhotoRow, Grows, SameRow

\* The rows do not move at all.
LEMMA RequestReads ==
  ASSUME LibraryInv, NEW k \in Requests, NEW r \in Asked \cup {None},
         req' = [req EXCEPT ![k] = r], r # None => AskedSound(photo, r), UNCHANGED <<photo, tile>>
  PROVE  LibraryInv'
<1>1. Grows(photo, photo')
  BY Unmoved DEF LibraryInv
<1> QED BY <1>1, RequestMoves DEF LibraryInv, PhotosOK, FromLibraries

LEMMA LookupKeeps ==
  ASSUME LibraryInv, NEW k \in Requests, NEW u \in People, NEW content \in Originals,
         NEW name \in Names, NEW thumb \in Thumbs \cup {None},
         Lookup(k, u, content, name, thumb), UNCHANGED <<photo, tile>>
  PROVE  LibraryInv'
<1> DEFINE Pushes(found) == [phase |-> "push", user |-> u, content |-> content, name |-> name,
              thumb |-> Prepared(content, thumb), sent |-> thumb, found |-> found,
              seen |-> In(u)]
<1>1. PICK found \in IF Existing(u, content, name) = {} THEN {None} ELSE Existing(u, content, name) :
        req' = [req EXCEPT ![k] = Pushes(found)]
  BY DEF Lookup, Takes
<1>2. Existing(u, content, name) \subseteq In(u) /\ In(u) \subseteq PhotoIds
  BY DEF Existing, In
<1>3. Pushes(found) \in Asked
  BY <1>1, <1>2 DEF Asked, Prepared
<1>4. AskedSound(photo, Pushes(found))
  <2>1. CASE Existing(u, content, name) = {}
    <3>1. \A j \in In(u) : photo[j] # None /\ photo[j].content # content
      BY <2>1 DEF Existing, In, Present
    <3> QED BY <1>1, <2>1, <3>1 DEF AskedSound
  <2>2. CASE Existing(u, content, name) # {}
    <3>1. found \in In(u) /\ photo[found].content = content
      BY <1>1, <2>2 DEF Existing
    <3>2. found # None /\ photo[found] # None /\ photo[found].place = u
      BY <3>1, <1>2, PhotosAssumption DEF In, Present
    <3> QED BY <3>1, <3>2 DEF AskedSound
  <2> QED BY <2>1, <2>2
<1> HIDE DEF Pushes
<1> QED BY <1>1, <1>3, <1>4, RequestReads

LEMMA AnswerKeeps ==
  ASSUME LibraryInv, NEW k \in Requests, NEW r \in PhotoIds \cup {None},
         Answers(k, r), UNCHANGED <<photo, tile>>
  PROVE  LibraryInv'
<1>1. [phase |-> "answer", photo |-> r] \in Asked
  BY DEF Asked
<1>2. AskedSound(photo, [phase |-> "answer", photo |-> r])
  BY DEF AskedSound
<1> QED BY <1>1, <1>2, RequestReads DEF Answers, Becomes

\* One row is written, over none or as its successor, and the request is answered.
LEMMA RowWritten ==
  ASSUME LibraryInv, NEW i \in PhotoIds, NEW row1 \in PhotoRow,
         photo' = [photo EXCEPT ![i] = row1], photo[i] # None => SameRow(photo[i], row1),
         photo[i] = None => row1.place \notin Albums /\ row1.from = None
  PROVE  /\ photo' \in [PhotoIds -> PhotoRow \cup {None}]
         /\ Grows(photo, photo') /\ FromLibraries(photo')
<1>1. photo \in [PhotoIds -> PhotoRow \cup {None}] /\ FromLibraries(photo)
  BY DEF LibraryInv, PhotosOK
<1>2. row1 # None
  BY PhotosAssumption
<1>3. photo' \in [PhotoIds -> PhotoRow \cup {None}]
  BY <1>1
<1>4. Grows(photo, photo')
  <2>1. ASSUME NEW j \in PhotoIds, photo[j] # None PROVE photo'[j] # None /\ SameRow(photo[j], photo'[j])
    <3>1. CASE j = i
      BY <1>1, <1>2, <2>1, <3>1
    <3>2. CASE j # i
      <4>1. photo'[j] = photo[j] /\ photo[j].rev \in Nat
        BY <1>1, <2>1, <3>2 DEF PhotoRow
      <4> QED BY <2>1, <4>1 DEF SameRow
    <3> QED BY <3>1, <3>2
  <2> QED BY <2>1 DEF Grows
<1>5. FromLibraries(photo')
  <2>1. ASSUME NEW j \in PhotoIds, photo'[j] # None
        PROVE  IF photo'[j].place \in Albums
               THEN /\ photo'[j].from \in PhotoIds /\ photo'[photo'[j].from] # None
                    /\ photo'[photo'[j].from].place \notin Albums
               ELSE photo'[j].from = None
    <3>1. CASE photo[j] # None
      <4>1. photo'[j].place = photo[j].place /\ photo'[j].from = photo[j].from
        BY <1>4, <3>1 DEF Grows, SameRow
      <4>2. CASE photo[j].place \in Albums
        <5>1. /\ photo[j].from \in PhotoIds /\ photo[photo[j].from] # None
              /\ photo[photo[j].from].place \notin Albums
          BY <1>1, <3>1, <4>2 DEF FromLibraries
        <5>2. photo'[photo[j].from] # None /\ photo'[photo[j].from].place = photo[photo[j].from].place
          BY <1>4, <5>1 DEF Grows, SameRow
        <5> QED BY <4>1, <4>2, <5>1, <5>2
      <4>3. CASE photo[j].place \notin Albums
        BY <1>1, <3>1, <4>1, <4>3 DEF FromLibraries
      <4> QED BY <4>2, <4>3
    <3>2. CASE photo[j] = None
      <4>1. j = i /\ photo'[j] = row1
        BY <1>1, <2>1, <3>2
      <4> QED BY <3>2, <4>1
    <3> QED BY <3>1, <3>2
  <2> QED BY <2>1 DEF FromLibraries
<1> QED BY <1>3, <1>4, <1>5

LEMMA AnswerAfter ==
  ASSUME LibraryInv, NEW k \in Requests, NEW r \in PhotoIds \cup {None}, Answers(k, r),
         photo' \in [PhotoIds -> PhotoRow \cup {None}], Grows(photo, photo'), FromLibraries(photo'),
         UNCHANGED tile
  PROVE  LibraryInv'
<1>1. [phase |-> "answer", photo |-> r] \in Asked
  BY DEF Asked
<1>2. AskedSound(photo', [phase |-> "answer", photo |-> r])
  BY DEF AskedSound
<1> QED BY <1>1, <1>2, RequestMoves DEF Answers, Becomes

\* What a request is doing has its type and is sound.
LEMMA InHand ==
  ASSUME LibraryInv, NEW k \in Requests, req[k] # None
  PROVE  req[k] \in Asked /\ AskedSound(photo, req[k])
BY DEF LibraryInv, PhotosOK

LEMMA PushCreateKeeps ==
  ASSUME LibraryInv, NEW k \in Requests, NEW i \in PhotoIds, PushCreate(k, i)
  PROVE  LibraryInv' /\ Grows(photo, photo')
<1> DEFINE made == [place |-> req[k].user, content |-> req[k].content, name |-> req[k].name,
        thumb |-> req[k].thumb, from |-> None, live |-> TRUE, rev |-> 1]
<1>1. req[k] \in Asked /\ req[k].phase = "push" /\ photo[i] = None
  BY InHand DEF PushCreate, Doing
<1>2. made \in PhotoRow /\ made.place \notin Albums /\ made.from = None
  BY <1>1, AskedFields, PhotosAssumption DEF PhotoRow
<1>3. photo' = [photo EXCEPT ![i] = made] /\ Answers(k, i) /\ UNCHANGED tile
  BY DEF PushCreate
<1> HIDE DEF made
<1>4. /\ photo' \in [PhotoIds -> PhotoRow \cup {None}]
      /\ Grows(photo, photo') /\ FromLibraries(photo')
  BY <1>1, <1>2, <1>3, RowWritten
<1> QED BY <1>3, <1>4, AnswerAfter

LEMMA PushRefusedKeeps ==
  ASSUME LibraryInv, NEW k \in Requests, PushRefused(k)
  PROVE  LibraryInv'
BY AnswerKeeps DEF PushRefused, rows

LEMMA PushFoundKeeps ==
  ASSUME LibraryInv, NEW k \in Requests, PushFound(k)
  PROVE  LibraryInv'
<1>1. req[k] \in Asked /\ req[k].phase = "push" /\ req[k].found # None /\ UNCHANGED <<photo, tile>>
  BY InHand DEF PushFound, Doing, rows
<1>2. /\ req[k].user \in People /\ req[k].found \in PhotoIds /\ req[k].sent \in Thumbs \cup {None}
  BY <1>1, AskedFields
<1>3. CASE req[k].sent # None /\ photo[req[k].found].thumb = None
  <2> DEFINE next == [phase |-> "attach", user |-> req[k].user, photo |-> req[k].found,
                      thumb |-> req[k].sent]
  <2>1. next \in Asked
    BY <1>2, <1>3 DEF Asked
  <2>2. AskedSound(photo, next)
    BY DEF AskedSound
  <2>3. req' = [req EXCEPT ![k] = next]
    BY <1>3 DEF PushFound, Becomes
  <2> HIDE DEF next
  <2> QED BY <1>1, <2>1, <2>2, <2>3, RequestReads
<1>4. CASE ~ (req[k].sent # None /\ photo[req[k].found].thumb = None)
  <2>1. Answers(k, req[k].found)
    BY <1>4 DEF PushFound
  <2> QED BY <1>1, <1>2, <2>1, AnswerKeeps
<1> QED BY <1>3, <1>4

LEMMA AttachKeeps ==
  ASSUME LibraryInv, NEW k \in Requests, NEW u \in People, NEW i \in PhotoIds, NEW t \in Thumbs,
         Attach(k, u, i, t)
  PROVE  LibraryInv'
<1> DEFINE next == [phase |-> "attach", user |-> u, photo |-> i, thumb |-> t]
<1>1. next \in Asked
  BY DEF Asked
<1>2. AskedSound(photo, next)
  BY DEF AskedSound
<1>3. req' = [req EXCEPT ![k] = next] /\ UNCHANGED <<photo, tile>>
  BY DEF Attach, Takes, rows
<1> HIDE DEF next
<1> QED BY <1>1, <1>2, <1>3, RequestReads

LEMMA AttachReadKeeps ==
  ASSUME LibraryInv, NEW k \in Requests, AttachRead(k)
  PROVE  LibraryInv'
<1>1. req[k] \in Asked /\ req[k].phase = "attach" /\ UNCHANGED <<photo, tile>>
  BY InHand DEF AttachRead, Doing, rows
<1>2. req[k].photo \in PhotoIds /\ req[k].thumb \in Thumbs
  BY <1>1, AskedFields
<1>3. CASE ~ (Present(req[k].photo) /\ photo[req[k].photo].place = req[k].user)
  <2>1. Answers(k, None)
    BY <1>3 DEF AttachRead
  <2> QED BY <1>1, <2>1, AnswerKeeps
<1>4. CASE /\ Present(req[k].photo) /\ photo[req[k].photo].place = req[k].user
           /\ photo[req[k].photo].thumb # None
  <2>1. Answers(k, req[k].photo)
    BY <1>4 DEF AttachRead
  <2> QED BY <1>1, <1>2, <2>1, AnswerKeeps
<1>5. CASE /\ Present(req[k].photo) /\ photo[req[k].photo].place = req[k].user
           /\ photo[req[k].photo].thumb = None
  <2> DEFINE next == [phase |-> "attaching", photo |-> req[k].photo, thumb |-> req[k].thumb,
                      base |-> photo[req[k].photo].rev]
  <2>1. photo[req[k].photo] # None /\ photo[req[k].photo].rev \in Nat
    BY <1>2, <1>5 DEF LibraryInv, PhotosOK, PhotoRow, Present
  <2>2. next \in Asked
    BY <1>2, <2>1 DEF Asked
  <2>3. AskedSound(photo, next)
    BY <1>5, <2>1 DEF AskedSound
  <2>4. req' = [req EXCEPT ![k] = next]
    BY <1>5 DEF AttachRead, Becomes
  <2> HIDE DEF next
  <2> QED BY <1>1, <2>2, <2>3, <2>4, RequestReads
<1> QED BY <1>3, <1>4, <1>5

\* Rows that get a thumbnail, or are deleted.
LEMMA NewThumb ==
  ASSUME NEW r \in PhotoRow, r.thumb = None, NEW t \in Thumbs
  PROVE  LET new == [r EXCEPT !.thumb = t, !.rev = r.rev + 1]
         IN  new \in PhotoRow /\ SameRow(r, new)
<1> DEFINE mid == [r EXCEPT !.thumb = t]
<1>1. /\ mid \in PhotoRow /\ mid.place = r.place /\ mid.content = r.content /\ mid.from = r.from
      /\ r.rev \in Nat
  BY DEF PhotoRow
<1>2. [r EXCEPT !.thumb = t, !.rev = r.rev + 1] = [mid EXCEPT !.rev = r.rev + 1]
  BY DEF PhotoRow
<1>3. mid.thumb = t
  BY DEF PhotoRow
<1> HIDE DEF mid
<1> DEFINE new == [mid EXCEPT !.rev = r.rev + 1]
<1>4. /\ new \in PhotoRow /\ new.place = mid.place /\ new.content = mid.content
      /\ new.from = mid.from /\ new.rev = r.rev + 1 /\ new.thumb = mid.thumb
  BY <1>1 DEF PhotoRow
<1> HIDE DEF new
<1>5. SameRow(r, new)
  BY <1>1, <1>3, <1>4 DEF SameRow
<1> QED BY <1>2, <1>4, <1>5 DEF new

LEMMA GoneRow ==
  ASSUME NEW r \in PhotoRow
  PROVE  LET new == [r EXCEPT !.live = FALSE, !.rev = r.rev + 1]
         IN  new \in PhotoRow /\ SameRow(r, new)
<1> DEFINE mid == [r EXCEPT !.live = FALSE]
<1>1. /\ mid \in PhotoRow /\ mid.place = r.place /\ mid.content = r.content /\ mid.from = r.from
      /\ r.rev \in Nat
  BY DEF PhotoRow
<1>2. [r EXCEPT !.live = FALSE, !.rev = r.rev + 1] = [mid EXCEPT !.rev = r.rev + 1]
  BY DEF PhotoRow
<1>3. mid.thumb = r.thumb
  BY DEF PhotoRow
<1> HIDE DEF mid
<1> DEFINE new == [mid EXCEPT !.rev = r.rev + 1]
<1>4. /\ new \in PhotoRow /\ new.place = mid.place /\ new.content = mid.content
      /\ new.from = mid.from /\ new.rev = r.rev + 1 /\ new.thumb = mid.thumb
  BY <1>1 DEF PhotoRow
<1> HIDE DEF new
<1>5. SameRow(r, new)
  BY <1>1, <1>3, <1>4 DEF SameRow
<1> QED BY <1>2, <1>4, <1>5 DEF new

LEMMA AttachPushKeeps ==
  ASSUME LibraryInv, NEW k \in Requests, AttachPush(k)
  PROVE  LibraryInv' /\ Grows(photo, photo')
<1>1. req[k] \in Asked /\ req[k].phase = "attaching" /\ AskedSound(photo, req[k])
  BY InHand DEF AttachPush, Doing
<1>2. /\ req[k].photo \in PhotoIds /\ req[k].thumb \in Thumbs /\ photo[req[k].photo] # None
      /\ req[k].base = photo[req[k].photo].rev => photo[req[k].photo].thumb = None
  BY <1>1, AskedFields DEF AskedSound
<1>3. CASE Present(req[k].photo) /\ photo[req[k].photo].rev = req[k].base
  <2> DEFINE old == photo[req[k].photo]
             new == [old EXCEPT !.thumb = req[k].thumb, !.rev = old.rev + 1]
  <2>1. old \in PhotoRow /\ old.rev \in Nat /\ old.thumb = None
    BY <1>2, <1>3 DEF LibraryInv, PhotosOK, PhotoRow
  <2>2. new \in PhotoRow /\ SameRow(old, new)
    BY <1>2, <2>1, NewThumb
  <2>3. photo' = [photo EXCEPT ![req[k].photo] = new] /\ Answers(k, req[k].photo) /\ UNCHANGED tile
    BY <1>3 DEF AttachPush
  <2> HIDE DEF new
  <2>4. /\ photo' \in [PhotoIds -> PhotoRow \cup {None}]
        /\ Grows(photo, photo') /\ FromLibraries(photo')
    BY <1>2, <2>2, <2>3, RowWritten
  <2> QED BY <1>2, <2>3, <2>4, AnswerAfter
<1>4. CASE ~ (Present(req[k].photo) /\ photo[req[k].photo].rev = req[k].base)
  <2>1. Answers(k, None) /\ UNCHANGED <<photo, tile>>
    BY <1>4 DEF AttachPush, rows
  <2>2. Grows(photo, photo')
    BY <2>1, Unmoved DEF LibraryInv
  <2> QED BY <2>1, <2>2, AnswerKeeps
<1> QED BY <1>3, <1>4

LEMMA RemoveKeeps ==
  ASSUME LibraryInv, NEW u, NEW i \in PhotoIds, Remove(u, i)
  PROVE  LibraryInv' /\ Grows(photo, photo')
<1> DEFINE new == [photo[i] EXCEPT !.live = FALSE, !.rev = photo[i].rev + 1]
<1>1. photo[i] \in PhotoRow /\ photo[i].rev \in Nat /\ photo[i] # None
  BY DEF LibraryInv, PhotosOK, PhotoRow, Remove, Present
<1>2. new \in PhotoRow /\ SameRow(photo[i], new)
  BY <1>1, GoneRow
<1>3. photo' = [photo EXCEPT ![i] = new] /\ UNCHANGED <<req, tile>>
  BY DEF Remove
<1> HIDE DEF new
<1>4. Grows(photo, photo') /\ FromLibraries(photo') /\ photo' \in [PhotoIds -> PhotoRow \cup {None}]
  BY <1>1, <1>2, <1>3, RowWritten
<1>5. PhotosOK'
  BY <1>3, <1>4 DEF LibraryInv, PhotosOK
<1>6. ASSUME NEW k \in Requests, req'[k] # None PROVE AskedSound(photo', req'[k])
  <2>1. req[k] \in Asked /\ AskedSound(photo, req[k]) /\ photo \in [PhotoIds -> PhotoRow \cup {None}]
    BY <1>3, <1>6, InHand DEF LibraryInv, PhotosOK
  <2> QED BY <1>3, <1>4, <2>1, AskedStays
<1> QED BY <1>3, <1>4, <1>5, <1>6 DEF LibraryInv, TilesTrue

\* Reading photos into an album: what is not there yet, by the photo it comes from.
LEMMA AddKeeps ==
  ASSUME LibraryInv, NEW k \in Requests, NEW u \in People, NEW album \in Albums,
         NEW i \in PhotoIds, NEW j \in PhotoIds, AddToAlbum(k, u, album, <<i, j>>)
  PROVE  LibraryInv'
<1> DEFINE list == <<i, j>>
           new == {n \in DOMAIN list : ~ \E h \in In(album) : photo[h].from = Source(list[n])}
           items == [n \in new |-> [from |-> Source(list[n]), row |-> photo[list[n]]]]
           next == [phase |-> "items", album |-> album, seen |-> In(album), items |-> items]
<1>1. /\ \A n \in DOMAIN list : MayRead(u, list[n]) /\ list[n] \in PhotoIds
      /\ DOMAIN list = {1, 2} /\ UNCHANGED <<photo, tile>>
  BY DEF AddToAlbum
<1>2. CASE new = {}
  <2>1. Answers(k, None) \/ req' = [req EXCEPT ![k] = [phase |-> "answer", photo |-> None]]
    BY <1>2 DEF AddToAlbum, Takes
  <2>2. [phase |-> "answer", photo |-> None] \in Asked
    BY DEF Asked
  <2>3. AskedSound(photo, [phase |-> "answer", photo |-> None])
    BY DEF AskedSound
  <2> QED BY <1>1, <2>1, <2>2, <2>3, RequestReads DEF Answers, Becomes
<1>3. CASE new # {}
  <2>1. req' = [req EXCEPT ![k] = next]
    BY <1>3 DEF AddToAlbum, Takes
  <2>2. ASSUME NEW n \in new
        PROVE  /\ photo[list[n]] \in PhotoRow /\ Source(list[n]) \in PhotoIds
               /\ photo[Source(list[n])] # None /\ photo[Source(list[n])].place \notin Albums
    <3>1. list[n] \in PhotoIds /\ photo[list[n]] # None
      BY <1>1, <2>2 DEF MayRead, Present
    <3>2. FromLibraries(photo) /\ photo \in [PhotoIds -> PhotoRow \cup {None}]
      BY DEF LibraryInv, PhotosOK
    <3> HIDE DEF list
    <3> QED BY <3>1, <3>2 DEF FromLibraries, Source
  <2>3. ASSUME NEW n \in new, NEW h \in In(album)
        PROVE  photo[h] # None /\ photo[h].from # Source(list[n])
    BY <2>3 DEF In, Present
  <2>4. new \in {{1}, {2}, {1, 2}}
    BY <1>1, <1>3
  <2> HIDE DEF list, new
  <2>5. items \in [new -> AlbumItem]
    BY <2>2 DEF AlbumItem
  <2>6. next \in Asked
    <3>1. items \in [{1} -> AlbumItem] \cup [{2} -> AlbumItem] \cup [{1, 2} -> AlbumItem]
      BY <2>4, <2>5
    <3>2. In(album) \in SUBSET PhotoIds
      BY DEF In
    <3> HIDE DEF items
    <3> QED BY <3>1, <3>2 DEF Asked
  <2>7. AskedSound(photo, next)
    <3>1. \A n \in DOMAIN items : n \in new /\ items[n].from = Source(list[n])
      OBVIOUS
    <3> HIDE DEF items
    <3> QED BY <2>2, <2>3, <3>1 DEF AskedSound
  <2> HIDE DEF next
  <2> QED BY <1>1, <2>1, <2>6, <2>7, RequestReads
<1> QED BY <1>2, <1>3

\* The rows of the items: new ids, of photos of libraries.
LEMMA PushItemsRows ==
  ASSUME LibraryInv, NEW k \in Requests, Doing(k, "items"),
         NEW ids \in [DOMAIN req[k].items -> PhotoIds], PushItems(k, ids)
  PROVE  \A i \in PhotoIds :
           \/ photo'[i] = photo[i]
           \/ \E n \in DOMAIN req[k].items :
                /\ photo[i] = None /\ photo'[i] \in PhotoRow /\ photo'[i].place = req[k].album
                /\ photo'[i].from = req[k].items[n].from
<1>1. req[k] \in Asked /\ req[k].phase = "items"
  BY InHand DEF Doing
<1>2. /\ req[k].album \in Albums
      /\ \A n \in DOMAIN req[k].items :
           req[k].items[n].from \in PhotoIds /\ req[k].items[n].row \in PhotoRow
  BY <1>1, AskedFields DEF AlbumItem
<1> SUFFICES ASSUME NEW i \in PhotoIds, photo'[i] # photo[i]
             PROVE  \E n \in DOMAIN req[k].items :
                      /\ photo[i] = None /\ photo'[i] \in PhotoRow /\ photo'[i].place = req[k].album
                      /\ photo'[i].from = req[k].items[n].from
  OBVIOUS
<1> DEFINE n == CHOOSE n \in DOMAIN ids : ids[n] = i
           it == req[k].items[n]
<1>3. \E m \in DOMAIN ids : ids[m] = i
  BY DEF PushItems
<1>4. n \in DOMAIN req[k].items /\ photo[i] = None
  BY <1>3 DEF PushItems
<1>5. photo'[i] = [place |-> req[k].album, content |-> it.row.content, name |-> it.row.name,
             thumb |-> it.row.thumb, from |-> it.from, live |-> TRUE, rev |-> 1]
  BY <1>3 DEF PushItems
<1>6. it.from \in PhotoIds /\ it.row \in PhotoRow
  BY <1>2, <1>4
<1> HIDE DEF n
<1>7. photo'[i] \in PhotoRow /\ photo'[i].place = req[k].album /\ photo'[i].from = it.from
  BY <1>2, <1>5, <1>6 DEF PhotoRow
<1> QED BY <1>4, <1>7

LEMMA PushItemsKeeps ==
  ASSUME LibraryInv, NEW k \in Requests, Doing(k, "items"),
         NEW ids \in [DOMAIN req[k].items -> PhotoIds], PushItems(k, ids)
  PROVE  LibraryInv' /\ Grows(photo, photo')
<1>1. req[k] \in Asked /\ req[k].phase = "items" /\ AskedSound(photo, req[k])
  BY InHand DEF Doing
<1>2. /\ req[k].album \in Albums /\ DOMAIN req[k].items # {}
      /\ \A n \in DOMAIN req[k].items :
           LET from == req[k].items[n].from
           IN  from \in PhotoIds /\ photo[from] # None /\ photo[from].place \notin Albums
  BY <1>1, AskedFields DEF AskedSound
<1>3. photo \in [PhotoIds -> PhotoRow \cup {None}] /\ FromLibraries(photo)
  BY DEF LibraryInv, PhotosOK
<1>4. photo' \in [PhotoIds -> PhotoRow \cup {None}]
  <2>1. ASSUME NEW i \in PhotoIds PROVE photo'[i] \in PhotoRow \cup {None}
    BY <1>3, PushItemsRows
  <2>2. photo' = [i \in PhotoIds |-> photo'[i]]
    BY DEF PushItems
  <2> QED BY <2>1, <2>2
<1>5. Grows(photo, photo')
  <2>1. ASSUME NEW i \in PhotoIds, photo[i] # None PROVE photo'[i] = photo[i] /\ photo[i].rev \in Nat
    BY <1>3, <2>1, PushItemsRows DEF PhotoRow
  <2> QED BY <2>1 DEF Grows, SameRow
<1>6. FromLibraries(photo')
  <2>1. ASSUME NEW i \in PhotoIds, photo'[i] # None
        PROVE  IF photo'[i].place \in Albums
               THEN /\ photo'[i].from \in PhotoIds /\ photo[photo'[i].from] # None
                    /\ photo[photo'[i].from].place \notin Albums
               ELSE photo'[i].from = None
    <3>1. CASE photo'[i] = photo[i]
      BY <1>3, <2>1, <3>1 DEF FromLibraries
    <3>2. CASE photo'[i] # photo[i]
      BY <1>2, <3>2, PushItemsRows
    <3> QED BY <3>1, <3>2
  <2> QED BY <1>5, <2>1 DEF FromLibraries, Grows, SameRow
<1>7. (CHOOSE n \in DOMAIN ids : TRUE) \in DOMAIN ids
  BY <1>2
<1>8. ids[CHOOSE n \in DOMAIN ids : TRUE] \in PhotoIds
  BY <1>7
<1> QED BY <1>4, <1>5, <1>6, <1>8, AnswerAfter DEF PushItems

\* A fetch: what is revalidated by its tag is what the tag names.
LEMMA FetchKeeps ==
  ASSUME LibraryInv, NEW u, NEW i, NEW v, Fetch(u, i, v)
  PROVE  LibraryInv' /\ \A t \in tile' \ tile : t.body = Rendition(t.photo)
<1> DEFINE old == {t \in tile : t.photo = i /\ t.v = v}
           same == {t \in old : t.tag = ETag(i)}
           body == IF same = {} THEN Rendition(i) ELSE (CHOOSE t \in same : TRUE).body
           new == [photo |-> i, v |-> v, tag |-> ETag(i), kept |-> Immutable(v, i), body |-> body]
<1>1. tile' = (tile \ old) \cup {new} /\ UNCHANGED <<photo, req>>
  BY DEF Fetch, rows
<1>2. body = Rendition(i)
  <2>1. CASE same # {}
    <3>1. (CHOOSE t \in same : TRUE) \in same
      BY <2>1
    <3> QED BY <2>1, <3>1 DEF LibraryInv, TilesTrue, ETag
  <2> QED BY <2>1
<1>3. new.body = new.tag /\ (new.kept => new.tag = new.v) /\ new.body = Rendition(new.photo)
  BY <1>2 DEF ETag, Immutable
<1> HIDE DEF old, new
<1>4. TilesTrue'
  BY <1>1, <1>3 DEF LibraryInv, TilesTrue
<1> QED BY <1>1, <1>3, <1>4 DEF LibraryInv, PhotosOK, FromLibraries, AskedSound

LEMMA AnswerReadKeeps ==
  ASSUME LibraryInv, NEW k \in Requests, AnswerRead(k)
  PROVE  LibraryInv'
BY RequestReads DEF AnswerRead, Becomes, rows

\* What the server does for a request.
LEMMA ServerKeeps ==
  ASSUME LibraryInv, ServerStep
  PROVE  LibraryInv' /\ Grows(photo, photo') /\ UNCHANGED tile
<1>1. PICK k \in Requests :
        \/ \E i \in PhotoIds : PushCreate(k, i)
        \/ PushRefused(k) \/ PushFound(k) \/ AttachRead(k) \/ AttachPush(k)
        \/ Doing(k, "items") /\ \E ids \in [DOMAIN req[k].items -> PhotoIds] : PushItems(k, ids)
  BY DEF ServerStep
<1>2. CASE \E i \in PhotoIds : PushCreate(k, i)
  BY <1>2, PushCreateKeeps DEF PushCreate
<1>3. CASE PushRefused(k)
  <2>1. UNCHANGED <<photo, tile>>
    BY <1>3 DEF PushRefused, rows
  <2> QED BY <1>3, <2>1, PushRefusedKeeps, Unmoved DEF LibraryInv
<1>4. CASE PushFound(k)
  <2>1. UNCHANGED <<photo, tile>>
    BY <1>4 DEF PushFound, rows
  <2> QED BY <1>4, <2>1, PushFoundKeeps, Unmoved DEF LibraryInv
<1>5. CASE AttachRead(k)
  <2>1. UNCHANGED <<photo, tile>>
    BY <1>5 DEF AttachRead, rows
  <2> QED BY <1>5, <2>1, AttachReadKeeps, Unmoved DEF LibraryInv
<1>6. CASE AttachPush(k)
  BY <1>6, AttachPushKeeps DEF AttachPush
<1>7. CASE Doing(k, "items") /\ \E ids \in [DOMAIN req[k].items -> PhotoIds] : PushItems(k, ids)
  BY <1>7, PushItemsKeeps DEF PushItems
<1> QED BY <1>1, <1>2, <1>3, <1>4, <1>5, <1>6, <1>7

\* What clients ask of it.
LEMMA ClientKeeps ==
  ASSUME LibraryInv, ClientStep
  PROVE  /\ LibraryInv' /\ Grows(photo, photo') /\ \A i \in PhotoIds : photo[i] = None => photo'[i] = None
         /\ \A t \in tile' \ tile : t.body = Rendition(t.photo)
<1> DEFINE Goal == /\ LibraryInv' /\ Grows(photo, photo')
                   /\ \A i \in PhotoIds : photo[i] = None => photo'[i] = None
                   /\ \A t \in tile' \ tile : t.body = Rendition(t.photo)
<1>1. ASSUME LibraryInv', UNCHANGED <<photo, tile>> PROVE Goal
  BY <1>1, Unmoved DEF LibraryInv
<1>2. ASSUME NEW k \in Requests, NEW u \in People, NEW c \in Originals, NEW n \in Names, Ingest(k, u, c, n)
      PROVE  Goal
  <2>1. UNCHANGED <<photo, tile>> /\ Lookup(k, u, c, n, None)
    BY <1>2 DEF Ingest
  <2> QED BY <1>1, <2>1, LookupKeeps
<1>3. ASSUME NEW k \in Requests, NEW u \in People, NEW c \in Originals, NEW n \in Names,
             NEW t \in Thumbs \cup {None}, Commit(k, u, c, n, None, t)
      PROVE  Goal
  <2>1. UNCHANGED <<photo, tile>> /\ Lookup(k, u, c, n, t)
    BY <1>3 DEF Commit, rows
  <2> QED BY <1>1, <2>1, LookupKeeps
<1>4. ASSUME NEW k \in Requests, NEW u \in People, NEW i \in PhotoIds, NEW t \in Thumbs, Attach(k, u, i, t)
      PROVE  Goal
  <2>1. UNCHANGED <<photo, tile>>
    BY <1>4 DEF Attach, rows
  <2> QED BY <1>1, <1>4, <2>1, AttachKeeps
<1>5. ASSUME NEW k \in Requests, NEW u \in People, NEW a \in Albums, NEW i \in PhotoIds, NEW j \in PhotoIds,
             AddToAlbum(k, u, a, <<i, j>>)
      PROVE  Goal
  <2>1. UNCHANGED <<photo, tile>>
    BY <1>5 DEF AddToAlbum
  <2> QED BY <1>1, <1>5, <2>1, AddKeeps
<1>6. ASSUME NEW u \in People, NEW b, PutBlob(u, b) PROVE Goal
  <2>1. UNCHANGED <<photo, req, tile>>
    BY <1>6 DEF PutBlob
  <2>2. LibraryInv'
    BY <2>1 DEF LibraryInv, PhotosOK, FromLibraries, AskedSound, TilesTrue
  <2> QED BY <1>1, <2>1, <2>2
<1>7. ASSUME NEW u \in People, NEW i \in PhotoIds, Remove(u, i) PROVE Goal
  <2>1. UNCHANGED tile /\ photo[i] # None
    BY <1>7 DEF Remove, Present
  <2>2. \A j \in PhotoIds : photo[j] = None => photo'[j] = None
    BY <1>7, <2>1 DEF Remove, LibraryInv, PhotosOK
  <2> QED BY <1>7, <2>1, <2>2, RemoveKeeps
<1>8. ASSUME NEW u \in People, NEW i \in PhotoIds, NEW v, Fetch(u, i, v) PROVE Goal
  <2>1. UNCHANGED photo
    BY <1>8 DEF Fetch, rows
  <2> QED BY <1>8, <2>1, FetchKeeps, Unmoved DEF LibraryInv
<1>9. ASSUME NEW k \in Requests, AnswerRead(k) PROVE Goal
  <2>1. UNCHANGED <<photo, tile>>
    BY <1>9 DEF AnswerRead, rows
  <2> QED BY <1>1, <1>9, <2>1, AnswerReadKeeps
<1> HIDE DEF Goal
<1>10. Goal
  BY <1>2, <1>3, <1>4, <1>5, <1>6, <1>7, <1>8, <1>9 DEF ClientStep
<1> QED BY <1>10 DEF Goal

LEMMA LibraryStep ==
  ASSUME LibraryInv, [PhotoNext]_photoVars
  PROVE  LibraryInv' /\ Grows(photo, photo')
<1>1. CASE UNCHANGED photoVars
  BY <1>1, Unmoved DEF photoVars, LibraryInv, PhotosOK, FromLibraries, AskedSound, TilesTrue
<1> QED BY <1>1, ServerKeeps, ClientKeeps DEF PhotoNext

LEMMA LibraryInit == PhotoInit => LibraryInv
<1> SUFFICES ASSUME PhotoInit PROVE LibraryInv
  OBVIOUS
<1>1. photo = StartPhotos /\ tile = {} /\ req = [k \in Requests |-> None]
  BY DEF PhotoInit
<1> QED BY <1>1, PhotosAssumption DEF LibraryInv, PhotosOK, TilesTrue

\* Only the push of a request makes a row, and it is that request that moves on.
LEMMA RowMade ==
  ASSUME LibraryInv, [PhotoNext]_photoVars, NEW k \in Requests, req'[k] # req[k],
         NEW i \in PhotoIds, photo[i] = None, photo'[i] # None
  PROVE  \/ PushCreate(k, i)
         \/ Doing(k, "items") /\ \E ids \in [DOMAIN req[k].items -> PhotoIds] : PushItems(k, ids)
<1>1. ServerStep
  BY ClientKeeps DEF PhotoNext, photoVars
<1>2. PICK h \in Requests :
        \/ \E j \in PhotoIds : PushCreate(h, j)
        \/ PushRefused(h) \/ PushFound(h) \/ AttachRead(h) \/ AttachPush(h)
        \/ Doing(h, "items") /\ \E ids \in [DOMAIN req[h].items -> PhotoIds] : PushItems(h, ids)
  BY <1>1 DEF ServerStep
<1>3. photo \in [PhotoIds -> PhotoRow \cup {None}] /\ req \in [Requests -> Asked \cup {None}]
  BY DEF LibraryInv, PhotosOK
<1>4. ~ (PushRefused(h) \/ PushFound(h) \/ AttachRead(h))
  BY DEF PushRefused, PushFound, AttachRead, rows
<1>5. ~ AttachPush(h)
  <2>1. SUFFICES ASSUME AttachPush(h) PROVE FALSE
    OBVIOUS
  <2>2. req[h] \in Asked /\ AskedSound(photo, req[h]) /\ req[h].phase = "attaching"
    BY <2>1, InHand DEF AttachPush, Doing
  <2>3. photo[req[h].photo] # None
    BY <2>2 DEF AskedSound
  <2>4. photo'[i] = photo[i]
    BY <1>3, <2>1, <2>3 DEF AttachPush, rows
  <2> QED BY <2>4
<1>6. CASE \E j \in PhotoIds : PushCreate(h, j)
  <2>1. PICK j \in PhotoIds : PushCreate(h, j)
    BY <1>6
  <2>2. j = i
    BY <1>3, <2>1 DEF PushCreate
  <2>3. h = k
    BY <1>3, <2>1 DEF PushCreate, Answers, Becomes
  <2> QED BY <2>1, <2>2, <2>3
<1>7. CASE Doing(h, "items") /\ \E ids \in [DOMAIN req[h].items -> PhotoIds] : PushItems(h, ids)
  <2>1. h = k
    BY <1>3, <1>7 DEF PushItems, Answers, Becomes
  <2> QED BY <1>7, <2>1
<1> QED BY <1>2, <1>4, <1>5, <1>6, <1>7

LEMMA DoubledOnlyInOverlap ==
  ASSUME LibraryInv, [PhotoNext]_photoVars, NEW k \in Requests, NEW i \in PhotoIds, NEW j \in PhotoIds,
         Doing(k, "push"), req'[k] # req[k], photo[i] = None, photo'[i] # None,
         photo[j].content = req[k].content
  PROVE  j \notin req[k].seen
<1>1. req[k].phase = "push" /\ req[k] \in Asked /\ AskedSound(photo, req[k])
  BY InHand DEF Doing
<1>2. PushCreate(k, i)
  BY <1>1, RowMade DEF Doing
<1> QED BY <1>1, <1>2 DEF PushCreate, AskedSound

LEMMA ItemDoubledOnlyInOverlap ==
  ASSUME LibraryInv, [PhotoNext]_photoVars, NEW k \in Requests, NEW i \in PhotoIds, NEW j \in PhotoIds,
         Doing(k, "items"), req'[k] # req[k], photo[i] = None, photo'[i] # None,
         j \in In(req[k].album), Origin(photo[j].from) = Origin(photo'[i].from)
  PROVE  j \notin req[k].seen
<1>1. req[k].phase = "items" /\ req[k] \in Asked /\ AskedSound(photo, req[k]) /\ FromLibraries(photo)
  BY InHand DEF Doing, LibraryInv
<1>2. PICK ids \in [DOMAIN req[k].items -> PhotoIds] : PushItems(k, ids)
  BY <1>1, RowMade DEF Doing, PushCreate
<1>3. PICK n \in DOMAIN req[k].items : photo'[i].from = req[k].items[n].from
  BY <1>2, PushItemsRows
<1>4. /\ photo'[i].from \in PhotoIds /\ photo[photo'[i].from] # None
      /\ photo[photo'[i].from].place \notin Albums
      /\ \A h \in req[k].seen : photo[h].from # photo'[i].from
  BY <1>1, <1>3 DEF AskedSound
<1>5. photo[j] # None /\ photo[j].place \in Albums
  BY <1>1, AskedFields DEF In, Present
<1>6. /\ photo[j].from \in PhotoIds /\ photo[photo[j].from] # None
      /\ photo[photo[j].from].place \notin Albums
  BY <1>1, <1>5 DEF FromLibraries
<1>7. Origin(photo[j].from) = photo[j].from /\ Origin(photo'[i].from) = photo'[i].from
  BY <1>1, <1>4, <1>6 DEF FromLibraries, Origin
<1> QED BY <1>4, <1>7

\* The libraries, their albums and a gallery's thumbnails are sound: no photo and
\* no album item is doubled but by requests that overlap, a thumbnail is never
\* replaced, and what a gallery shows and keeps is what it asked for (service.go,
\* albums.go, derivatives.go, photos.go).
THEOREM LibraryStaysSound == PhotoSpec => LibrarySound
<1>1. LibraryInv /\ [PhotoNext]_photoVars => LibraryInv'
  BY LibraryStep
<1>2. LibraryInv => PhotosOK /\ KeptTilesTrue
  BY DEF LibraryInv, TilesTrue, KeptTilesTrue
<1> DEFINE Doubles == \A k \in Requests, i, j \in PhotoIds :
       /\ Doing(k, "push") /\ req'[k] # req[k] /\ photo[i] = None /\ photo'[i] # None
       /\ j \in In(req[k].user) /\ photo[j].content = req[k].content
       => j \notin req[k].seen
           Items == \A k \in Requests, i, j \in PhotoIds :
       /\ Doing(k, "items") /\ req'[k] # req[k] /\ photo[i] = None /\ photo'[i] # None
       /\ j \in In(req[k].album) /\ Origin(photo[j].from) = Origin(photo'[i].from)
       => j \notin req[k].seen
           Kept == \A i \in PhotoIds : photo[i] # None /\ photo[i].thumb # None =>
       photo'[i].thumb = photo[i].thumb
           Shown == \A t \in tile' \ tile : t.body = Rendition(t.photo)
<1>3. LibraryInv /\ [PhotoNext]_photoVars => [Doubles]_photoVars
  BY DoubledOnlyInOverlap
<1>4. LibraryInv /\ [PhotoNext]_photoVars => [Items]_photoVars
  BY ItemDoubledOnlyInOverlap
<1>5. LibraryInv /\ [PhotoNext]_photoVars => [Kept]_photoVars
  BY LibraryStep DEF Grows, SameRow
<1>6. LibraryInv /\ [PhotoNext]_photoVars => [Shown]_photoVars
  BY ServerKeeps, ClientKeeps DEF PhotoNext
<1>7. [][Doubles]_photoVars /\ [][Items]_photoVars /\ [][Kept]_photoVars /\ [][Shown]_photoVars
      /\ [](PhotosOK /\ KeptTilesTrue) => LibrarySound
  BY DEF LibrarySound, PhotosDoubledOnlyInOverlap, ItemsDoubledOnlyInOverlap, ThumbsNeverReplaced,
         FetchShowsCurrent
<1> QED BY <1>1, <1>2, <1>3, <1>4, <1>5, <1>6, <1>7, LibraryInit, PTL DEF PhotoSpec

-----------------------------------------------------------------------------
(* The backup of a phone.                                                  *)

PhoneRow ==
  [state : States, sha : Originals \cup {None}, modified : 0..MaxVersion]
PhoneRows == [Assets -> PhoneRow]

PhoneTyped ==
  /\ asset \in [Assets -> 1..MaxVersion] /\ row \in PhoneRows /\ disk \in PhoneRows /\ kills \in Nat
  /\ \A t \in uploads \cup finished : t.asset \in Assets /\ t.part \in {"original", "movie"}
  /\ \A w \in waits : w.req \in Requests /\ w.asset \in Assets
  /\ InPass("commit") => pass \in [step : {"commit"}, todo : SUBSET Assets]
  /\ InPass("check") => pass \in [step : {"check"}, asset : Assets]

\* What a row was exported as is no older than what the last scan noted.
Fresh(r, a) == \E v \in 1..MaxVersion : r.sha = <<a, v>> /\ r.modified <= v
InLibrary(ph, a, m) ==
  \E i \in PhotoIds, v \in m..MaxVersion :
    ph[i] # None /\ ph[i].place = Phone /\ ph[i].content = <<a, v>>

\* A row r of the asset a, in memory or saved.
RowSound(r, a, ph, version, cr) ==
  /\ r.modified <= version
  /\ r.state = "unknown" => r.sha = None
  /\ r.state \in {"uploading", "uploaded", "done"} => r.sha # None /\ (a \notin cr => Fresh(r, a))
  /\ r.state = "done" /\ a \notin cr => InLibrary(ph, a, r.modified)

\* A request q of the phone is, or was, about a version no older than m.
Good(q, ph, a, m) ==
  \E v \in 1..MaxVersion :
    /\ m <= v
    /\ \/ q.phase = "push" /\ q.user = Phone /\ q.content = <<a, v>> /\ q.sent = None
       \/ /\ q.phase = "answer"
          /\ q.photo # None =>
               /\ q.photo \in PhotoIds /\ ph[q.photo] # None /\ ph[q.photo].place = Phone
               /\ ph[q.photo].content = <<a, v>>

\* A commit that is awaited, of an asset whose row is r, with the request q.
WaitSound(w, q, r, ph, cr) ==
  /\ q # None /\ r.sha # None
  /\ w.asset \notin cr =>
       Fresh(r, w.asset) /\ (w.by # "pass" => r.state # "done") /\ Good(q, ph, w.asset, r.modified)
WaitsApart(ws, cr) ==
  \A w, v \in ws : w.req = v.req \/ (w.asset = v.asset /\ w.asset \notin cr) => w = v

RowsInv ==
  \A a \in Assets : RowSound(row[a], a, photo, asset[a], crossed)
                    /\ RowSound(disk[a], a, photo, asset[a], crossed)
TasksInv == \A t \in uploads \cup finished : row[t.asset].sha # None /\ disk[t.asset].sha # None
WaitsInv ==
  /\ \A w \in waits : WaitSound(w, req[w.req], row[w.asset], photo, crossed)
  /\ \A w \in waits : w.by = "pass" => InPass("commit")
  /\ WaitsApart(waits, crossed)
PassInv ==
  /\ InPass("commit") => \A a \in pass.todo : row[a].sha # None /\ (a \notin crossed => Fresh(row[a], a))
  /\ InPass("check") => Fresh(row[pass.asset], pass.asset)
UploadingInv ==
  \A a \in Assets : row[a].state = "uploading" /\ kills = 0 =>
    \E t \in uploads \cup finished : t.asset = a /\ t.part = "original"

PhoneInv == PhoneTyped /\ RowsInv /\ TasksInv /\ WaitsInv /\ PassInv /\ UploadingInv

LEMMA LibraryGrows ==
  ASSUME NEW ph, NEW ph2, Grows(ph, ph2), NEW a, NEW m, InLibrary(ph, a, m)
  PROVE  InLibrary(ph2, a, m)
BY DEF InLibrary, Grows, SameRow

LEMMA RowStays ==
  ASSUME NEW ph, NEW ph2, Grows(ph, ph2), NEW r \in PhoneRow, NEW a,
         NEW v \in 1..MaxVersion, NEW v2 \in 1..MaxVersion, v <= v2,
         NEW cr, NEW cr2, cr \subseteq cr2, RowSound(r, a, ph, v, cr)
  PROVE  RowSound(r, a, ph2, v2, cr2)
BY LibraryGrows, PhoneAssumption DEF RowSound, PhoneRow

LEMMA GoodStays ==
  ASSUME NEW ph, NEW ph2, Grows(ph, ph2), NEW q, NEW a, NEW m, Good(q, ph, a, m)
  PROVE  Good(q, ph2, a, m)
BY DEF Good, Grows, SameRow

LEMMA WaitStays ==
  ASSUME NEW ph, NEW ph2, Grows(ph, ph2), NEW w, NEW q, NEW r, NEW cr, NEW cr2, cr \subseteq cr2,
         WaitSound(w, q, r, ph, cr)
  PROVE  WaitSound(w, q, r, ph2, cr2)
BY GoodStays DEF WaitSound

LEMMA Sentinel == None \notin PhotoRow /\ None \notin Asked /\ None \notin PhotoIds /\ None \notin Thumbs
BY PhotosAssumption

LEMMA AnswerIsOne ==
  ASSUME NEW i \in PhotoIds \cup {None} PROVE [phase |-> "answer", photo |-> i] # None
<1>1. [phase |-> "answer", photo |-> i] \in Asked
  BY DEF Asked
<1> QED BY <1>1, Sentinel

\* What the server does keeps a request of the phone about its version.
LEMMA ServerGood ==
  ASSUME LibraryInv, ServerStep, NEW k \in Requests, req[k] # None
  PROVE  /\ req'[k] # None
         /\ \A a, m : Good(req[k], photo, a, m) => Good(req'[k], photo', a, m)
<1>1. PICK h \in Requests :
        \/ \E i \in PhotoIds : PushCreate(h, i)
        \/ PushRefused(h) \/ PushFound(h) \/ AttachRead(h) \/ AttachPush(h)
        \/ Doing(h, "items") /\ \E ids \in [DOMAIN req[h].items -> PhotoIds] : PushItems(h, ids)
  BY DEF ServerStep
<1>2. /\ photo \in [PhotoIds -> PhotoRow \cup {None}] /\ req \in [Requests -> Asked \cup {None}]
      /\ LibraryInv' /\ Grows(photo, photo')
  BY ServerKeeps DEF LibraryInv, PhotosOK
<1>3. ASSUME req'[k] = req[k] PROVE \A a, m : Good(req[k], photo, a, m) => Good(req'[k], photo', a, m)
  BY <1>2, <1>3, GoodStays
<1>4. req' \in [Requests -> Asked \cup {None}]
  BY <1>2 DEF LibraryInv, PhotosOK
<1>5. CASE h # k
  <2>1. req'[k] = req[k]
    BY <1>1, <1>2, <1>5 DEF PushCreate, PushRefused, PushFound, AttachRead, AttachPush, PushItems,
       Answers, Becomes
  <2> QED BY <1>3, <2>1
<1>6. CASE h = k
  <2>1. req[k] \in Asked /\ AskedSound(photo, req[k])
    BY InHand
  <2>2. CASE \E i \in PhotoIds : PushCreate(k, i)
    <3>1. PICK i \in PhotoIds : PushCreate(k, i)
      BY <2>2
    <3>2. /\ req'[k] = [phase |-> "answer", photo |-> i] /\ req[k].phase = "push"
          /\ photo'[i] = [place |-> req[k].user, content |-> req[k].content, name |-> req[k].name,
                thumb |-> req[k].thumb, from |-> None, live |-> TRUE, rev |-> 1]
      BY <1>2, <3>1 DEF PushCreate, Answers, Becomes, Doing
    <3>3. photo'[i] # None /\ photo'[i].place = req[k].user /\ photo'[i].content = req[k].content
      <4>1. photo'[i] \in PhotoRow
        BY <2>1, <3>2, AskedFields DEF PhotoRow
      <4>2. photo'[i] # None
        BY <4>1, Sentinel
      <4> QED BY <3>2, <4>2
    <3>4. req'[k] # None
      BY <3>2, AnswerIsOne
    <3> QED BY <3>2, <3>3, <3>4 DEF Good
  <2>3. CASE PushRefused(k)
    <3>1. req'[k] = [phase |-> "answer", photo |-> None]
      BY <1>2, <2>3 DEF PushRefused, Answers, Becomes
    <3> QED BY <3>1, AnswerIsOne DEF Good
  <2>4. CASE PushFound(k)
    <3>1. req[k].phase = "push" /\ req[k].found # None /\ UNCHANGED photo
      BY <2>4 DEF PushFound, Doing, rows
    <3>2. /\ req[k].found \in PhotoIds /\ photo[req[k].found] # None
          /\ photo[req[k].found].place = req[k].user /\ photo[req[k].found].content = req[k].content
          /\ req[k].user \in People /\ req[k].sent \in Thumbs \cup {None}
      BY <2>1, <3>1, AskedFields DEF AskedSound
    <3>3. CASE req[k].sent # None /\ photo[req[k].found].thumb = None
      <4>1. req'[k] = [phase |-> "attach", user |-> req[k].user, photo |-> req[k].found,
                       thumb |-> req[k].sent]
        BY <1>2, <2>4, <3>3 DEF PushFound, Becomes
      <4>2. req'[k] \in Asked
        BY <3>2, <3>3, <4>1 DEF Asked
      <4> QED BY <3>1, <3>3, <4>2, PhotosAssumption DEF Good
    <3>4. CASE ~ (req[k].sent # None /\ photo[req[k].found].thumb = None)
      <4>1. req'[k] = [phase |-> "answer", photo |-> req[k].found]
        BY <1>2, <2>4, <3>4 DEF PushFound, Answers, Becomes
      <4>2. req'[k] \in Asked
        BY <3>2, <4>1 DEF Asked
      <4> QED BY <3>1, <3>2, <4>1, <4>2, PhotosAssumption DEF Good
    <3> QED BY <3>3, <3>4
  <2>5. CASE AttachRead(k)
    <3>1. req[k].phase = "attach" /\ req[k].photo \in PhotoIds /\ req[k].thumb \in Thumbs
      BY <2>1, <2>5, AskedFields DEF AttachRead, Doing
    <3>2. CASE \E i \in PhotoIds \cup {None} : Answers(k, i)
      BY <1>2, <3>1, <3>2, AnswerIsOne DEF Answers, Becomes, Good
    <3>3. CASE Present(req[k].photo)
               /\ Becomes(k, [phase |-> "attaching", photo |-> req[k].photo, thumb |-> req[k].thumb,
                              base |-> photo[req[k].photo].rev])
      <4>1. photo[req[k].photo].rev \in Nat
        BY <1>2, <3>1, <3>3 DEF Present, PhotoRow
      <4>2. req'[k] \in Asked
        BY <1>2, <3>1, <3>3, <4>1 DEF Becomes, Asked
      <4> QED BY <3>1, <4>2, Sentinel DEF Good
    <3> QED BY <2>5, <3>1, <3>2, <3>3 DEF AttachRead
  <2>6. CASE AttachPush(k)
    <3>1. req[k].phase = "attaching" /\ req[k].photo \in PhotoIds
      BY <2>1, <2>6, AskedFields DEF AttachPush, Doing
    <3>2. \E i \in PhotoIds \cup {None} : Answers(k, i)
      BY <2>6, <3>1 DEF AttachPush
    <3> QED BY <1>2, <3>1, <3>2, AnswerIsOne DEF Answers, Becomes, Good
  <2>7. CASE Doing(k, "items") /\ \E ids \in [DOMAIN req[k].items -> PhotoIds] : PushItems(k, ids)
    <3>1. req[k].phase = "items" /\ DOMAIN req[k].items # {}
      BY <2>1, <2>7, AskedFields DEF Doing
    <3>2. PICK ids \in [DOMAIN req[k].items -> PhotoIds] : PushItems(k, ids)
      BY <2>7
    <3>3. ids[CHOOSE n \in DOMAIN ids : TRUE] \in PhotoIds
      BY <3>1
    <3> QED BY <1>2, <3>1, <3>2, <3>3, AnswerIsOne DEF PushItems, Answers, Becomes, Good
  <2> QED BY <1>1, <1>6, <2>2, <2>3, <2>4, <2>5, <2>6, <2>7
<1> QED BY <1>5, <1>6

\* Rows change in their states only, and none becomes done.
StatesOnly(rs, rs2) ==
  \A b \in Assets :
    /\ rs2[b].sha = rs[b].sha /\ rs2[b].modified = rs[b].modified
    /\ rs2[b].state = "done" => rs[b].state = "done"

LEMMA WithRow ==
  ASSUME PhoneTyped, NEW a \in Assets, NEW s \in States
  PROVE  /\ With(a, s) \in PhoneRows /\ With(a, s)[a].state = s
         /\ With(a, s)[a].sha = row[a].sha /\ With(a, s)[a].modified = row[a].modified
         /\ \A b \in Assets \ {a} : With(a, s)[b] = row[b]
<1>1. row[a] \in PhoneRow
  BY DEF PhoneTyped, PhoneRows
<1>2. [row[a] EXCEPT !.state = s] \in PhoneRow
  BY <1>1 DEF PhoneRow
<1> QED BY <1>1, <1>2 DEF PhoneTyped, PhoneRows, With, PhoneRow

\* A row in its new state is sound when what the state says is so.
LEMMA WithSound ==
  ASSUME PhoneTyped, RowsInv, NEW a \in Assets, NEW s \in States, s # "unknown",
         NEW cr, crossed \subseteq cr,
         s \in {"uploading", "uploaded", "done"} =>
           row[a].sha # None /\ (a \notin cr => Fresh(row[a], a)),
         s = "done" /\ a \notin cr => InLibrary(photo, a, row[a].modified)
  PROVE  \A b \in Assets : RowSound(With(a, s)[b], b, photo, asset[b], cr)
<1>1. ASSUME NEW b \in Assets, b # a PROVE RowSound(With(a, s)[b], b, photo, asset[b], cr)
  <2>1. RowSound(row[b], b, photo, asset[b], crossed)
    BY DEF RowsInv
  <2> QED BY <1>1, <2>1, WithRow DEF RowSound
<1>2. RowSound(With(a, s)[a], a, photo, asset[a], cr)
  <2>1. row[a].modified <= asset[a]
    BY DEF RowsInv, RowSound
  <2> QED BY <2>1, WithRow DEF RowSound, Fresh
<1> QED BY <1>1, <1>2

\* What the phone has but no part in, while the library's rows grow.
LEMMA LibraryMoves ==
  ASSUME PhoneInv, LibraryInv, LibraryInv', Grows(photo, photo'), UNCHANGED phoneVars,
         \A w \in waits :
           /\ req'[w.req] # None
           /\ \A a, m : Good(req[w.req], photo, a, m) => Good(req'[w.req], photo', a, m)
  PROVE  PhoneInv'
<1> USE DEF PhoneInv
<1>1. UNCHANGED <<asset, row, disk, uploads, finished, pass, waits, kills, faults, crossed>>
  BY DEF phoneVars, phoneRows
<1>2. PhoneTyped'
  BY <1>1 DEF PhoneTyped, InPass
<1>3. RowsInv'
  <2>1. ASSUME NEW a \in Assets
        PROVE  RowSound(row[a], a, photo', asset[a], crossed) /\ RowSound(disk[a], a, photo', asset[a], crossed)
    BY RowStays DEF RowsInv, PhoneTyped, PhoneRows
  <2> QED BY <1>1, <2>1 DEF RowsInv
<1>4. WaitsInv'
  <2>1. ASSUME NEW w \in waits PROVE WaitSound(w, req'[w.req], row[w.asset], photo', crossed)
    BY DEF WaitsInv, WaitSound
  <2> QED BY <1>1, <2>1 DEF WaitsInv, InPass
<1>5. TasksInv' /\ PassInv' /\ UploadingInv'
  BY <1>1 DEF TasksInv, PassInv, UploadingInv, InPass
<1> QED BY <1>2, <1>3, <1>4, <1>5

\* A commit that is sent, or refused at once: the request is a new one.
LEMMA CommitSends ==
  ASSUME PhoneInv, LibraryInv, NEW a \in Assets, NEW by, CommitSent(a, by), row[a].sha # None,
         a \notin crossed' => Fresh(row[a], a)
  PROVE  /\ LibraryInv' /\ UNCHANGED <<photo, tile>>
         /\ crossed \subseteq crossed' /\ crossed' \subseteq crossed \cup {a}
         /\ by = "original" /\ a \notin crossed' => row[a].state = "uploading"
         /\ waits \subseteq waits' /\ WaitsApart(waits', crossed')
         /\ \A w \in waits : req'[w.req] = req[w.req]
         /\ \A w \in waits' \ waits :
              /\ w.req \in Requests /\ w.asset = a /\ w.by = by /\ req'[w.req] # None
              /\ a \notin crossed' => Good(req'[w.req], photo', a, row[a].modified)
<1> DEFINE c == row[a].sha
           can == CanCommit(Phone, c, MovieOf[a])
<1>1. /\ crossed \subseteq crossed' /\ crossed' \subseteq crossed \cup {a}
      /\ by = "original" /\ a \notin crossed' => row[a].state = "uploading"
  BY DEF CommitSent
<1>2. CASE ~can
  <2>1. UNCHANGED <<photo, held, req, begun, tile, waits>>
    BY <1>2 DEF CommitSent, photoVars
  <2>2. WaitsApart(waits, crossed')
    BY <1>1 DEF PhoneInv, WaitsInv, WaitsApart
  <2>3. LibraryInv'
    BY <2>1 DEF LibraryInv, PhotosOK, FromLibraries, AskedSound, TilesTrue
  <2> QED BY <1>1, <2>1, <2>2, <2>3
<1>3. CASE can
  <2>1. PICK k \in Requests :
          /\ Unused(k) /\ Lookup(k, Phone, c, NameOf[a], None) /\ UNCHANGED <<rows, tile>>
          /\ waits' = waits \cup {[req |-> k, asset |-> a, by |-> by]}
    BY <1>3 DEF CommitSent
  <2> DEFINE w0 == [req |-> k, asset |-> a, by |-> by]
  <2>2. c \in Originals /\ NameOf[a] \in Names /\ Phone \in People /\ UNCHANGED <<photo, tile>>
    BY <2>1, PhoneAssumption DEF PhoneInv, PhoneTyped, PhoneRows, PhoneRow, rows
  <2>3. LibraryInv'
    BY <2>1, <2>2, LookupKeeps
  <2>4. PICK found : req' = [req EXCEPT ![k] =
             [phase |-> "push", user |-> Phone, content |-> c, name |-> NameOf[a],
              thumb |-> Prepared(c, None), sent |-> None, found |-> found, seen |-> In(Phone)]]
    BY <2>1 DEF Lookup, Takes
  <2>5. req \in [Requests -> Asked \cup {None}] /\ req' \in [Requests -> Asked \cup {None}] /\ req[k] = None
    BY <2>1, <2>3 DEF LibraryInv, PhotosOK, Unused
  <2>6. \A w \in waits : w.req # k /\ w.req \in Requests /\ req'[w.req] = req[w.req]
    BY <2>4, <2>5 DEF PhoneInv, WaitsInv, WaitSound, PhoneTyped
  <2>7. /\ req'[k].phase = "push" /\ req'[k].user = Phone /\ req'[k].content = c /\ req'[k].sent = None
        /\ req'[k] # None
    <3>1. req'[k] = [phase |-> "push", user |-> Phone, content |-> c, name |-> NameOf[a],
              thumb |-> Prepared(c, None), sent |-> None, found |-> found, seen |-> In(Phone)]
      BY <2>4, <2>5
    <3>2. PICK f \in PhotoIds \cup {None} : req' = [req EXCEPT ![k] =
             [phase |-> "push", user |-> Phone, content |-> c, name |-> NameOf[a],
              thumb |-> Prepared(c, None), sent |-> None, found |-> f, seen |-> In(Phone)]]
      <4>1. Existing(Phone, c, NameOf[a]) \subseteq PhotoIds
        BY DEF Existing, In
      <4> QED BY <2>1, <4>1 DEF Lookup, Takes
    <3>3. [phase |-> "push", user |-> Phone, content |-> c, name |-> NameOf[a],
           thumb |-> Prepared(c, None), sent |-> None, found |-> f, seen |-> In(Phone)] \in Asked
      BY <2>2, <3>2 DEF Asked, Prepared, In
    <3>4. req'[k] \in Asked
      BY <2>5, <3>2, <3>3
    <3> QED BY <3>1, <3>4, Sentinel
  <2>8. a \notin crossed' => Good(req'[k], photo', a, row[a].modified)
    BY <2>7 DEF Fresh, Good
  <2>9. a \notin crossed' => \A w \in waits : w.asset # a
    BY <1>3 DEF CommitSent
  <2>10. WaitsApart(waits', crossed')
    <3>1. WaitsApart(waits, crossed)
      BY DEF PhoneInv, WaitsInv
    <3>2. waits' = waits \cup {w0} /\ w0.req = k /\ w0.asset = a
      BY <2>1
    <3> HIDE DEF w0
    <3> QED BY <1>1, <2>6, <2>9, <3>1, <3>2 DEF WaitsApart
  <2> QED BY <1>1, <2>1, <2>2, <2>3, <2>6, <2>7, <2>8, <2>10
<1> QED BY <1>2, <1>3

\* A wait that begins in this step.
NewWait(w) ==
  /\ req'[w.req] # None /\ row[w.asset].sha # None
  /\ w.asset \notin crossed' =>
       /\ Good(req'[w.req], photo', w.asset, row[w.asset].modified) /\ Fresh(row[w.asset], w.asset)
       /\ w.by # "pass" => row'[w.asset].state # "done"

\* Steps in which rows change in their states only.
LEMMA StatesChange ==
  ASSUME PhoneInv, PhoneTyped', UNCHANGED <<photo, asset>>, crossed \subseteq crossed',
         LibraryInv, StatesOnly(row, row'),
         \A b \in Assets : RowSound(row'[b], b, photo, asset[b], crossed'),
         disk' = disk \/ disk' = row',
         \A t \in uploads' \cup finished' :
           \/ \E t0 \in uploads \cup finished : t0.asset = t.asset
           \/ disk' = row' /\ row[t.asset].sha # None,
         \A w \in waits \cap waits' : req'[w.req] = req[w.req],
         \A w \in waits' \ waits : NewWait(w)
  PROVE  /\ RowsInv' /\ TasksInv'
         /\ \A w \in waits' : WaitSound(w, req'[w.req], row'[w.asset], photo', crossed')
<1>1. RowsInv'
  <2>1. Grows(photo, photo)
    BY Unmoved DEF LibraryInv, PhotosOK, PhotoRow, Grows, SameRow
  <2>2. ASSUME NEW b \in Assets PROVE RowSound(disk[b], b, photo, asset[b], crossed')
    <3>1. RowSound(disk[b], b, photo, asset[b], crossed) /\ disk[b] \in PhoneRow /\ asset[b] \in 1..MaxVersion
      BY DEF PhoneInv, RowsInv, PhoneTyped, PhoneRows
    <3> QED BY <2>1, <3>1, RowStays, PhoneAssumption
  <2> QED BY <2>2 DEF RowsInv
<1>2. TasksInv'
  <2>1. ASSUME NEW t \in uploads' \cup finished' PROVE row'[t.asset].sha # None /\ disk'[t.asset].sha # None
    <3>1. t.asset \in Assets
      BY DEF PhoneTyped
    <3>2. CASE \E t0 \in uploads \cup finished : t0.asset = t.asset
      BY <3>1, <3>2 DEF PhoneInv, TasksInv, StatesOnly
    <3>3. CASE disk' = row' /\ row[t.asset].sha # None
      BY <3>1, <3>3 DEF StatesOnly
    <3> QED BY <3>2, <3>3
  <2> QED BY <2>1 DEF TasksInv
<1>3. ASSUME NEW w \in waits' PROVE WaitSound(w, req'[w.req], row'[w.asset], photo', crossed')
  <2>1. w.asset \in Assets
    BY DEF PhoneTyped
  <2>2. row'[w.asset].sha = row[w.asset].sha /\ row'[w.asset].modified = row[w.asset].modified
        /\ (row'[w.asset].state = "done" => row[w.asset].state = "done")
    BY <2>1 DEF StatesOnly
  <2>3. CASE w \in waits
    <3>1. WaitSound(w, req[w.req], row[w.asset], photo, crossed) /\ req'[w.req] = req[w.req]
      BY <2>3 DEF PhoneInv, WaitsInv
    <3> QED BY <2>2, <3>1 DEF WaitSound, Fresh
  <2>4. CASE w \notin waits
    BY <2>2, <2>4 DEF WaitSound, NewWait, Fresh
  <2> QED BY <2>3, <2>4
<1> QED BY <1>1, <1>2, <1>3

LEMMA LibraryRests ==
  ASSUME LibraryInv, UNCHANGED <<photo, req, tile>>
  PROVE  LibraryInv' /\ Grows(photo, photo')
BY Unmoved DEF LibraryInv, PhotosOK, FromLibraries, AskedSound, TilesTrue

\* A pass goes on, and rows change in their states only.
LEMMA PassStays ==
  ASSUME PhoneInv, StatesOnly(row, row'), UNCHANGED pass, crossed \subseteq crossed'
  PROVE  PassInv'
BY DEF PhoneInv, PhoneTyped, PassInv, StatesOnly, Fresh, InPass

LEMMA EditKeeps ==
  ASSUME PhoneInv, LibraryInv, NEW a \in Assets, Edit(a)
  PROVE  PhoneInv' /\ LibraryInv'
<1>1. /\ UNCHANGED <<photo, req, tile, row, disk, uploads, finished, pass, waits, kills, crossed>>
      /\ asset' = [asset EXCEPT ![a] = asset[a] + 1] /\ asset[a] < MaxVersion
  BY DEF Edit, photoVars, phoneRows
<1>2. asset' \in [Assets -> 1..MaxVersion] /\ \A b \in Assets : asset[b] <= asset'[b]
  BY <1>1, PhoneAssumption DEF PhoneInv, PhoneTyped
<1>3. PhoneTyped'
  BY <1>1, <1>2 DEF PhoneInv, PhoneTyped, InPass
<1>4. LibraryInv' /\ Grows(photo, photo)
  BY <1>1, LibraryRests
<1>5. RowsInv'
  <2>1. ASSUME NEW b \in Assets
        PROVE  RowSound(row[b], b, photo, asset'[b], crossed) /\ RowSound(disk[b], b, photo, asset'[b], crossed)
    BY <1>2, <1>4, RowStays DEF PhoneInv, RowsInv, PhoneTyped, PhoneRows
  <2> QED BY <1>1, <2>1 DEF RowsInv
<1>6. TasksInv' /\ WaitsInv' /\ PassInv' /\ UploadingInv'
  BY <1>1 DEF PhoneInv, TasksInv, WaitsInv, PassInv, UploadingInv, InPass
<1> QED BY <1>3, <1>4, <1>5, <1>6 DEF PhoneInv

\* What a scan makes of a row: one that a request or a task is about keeps its export.
LEMMA ScannedRow ==
  ASSUME PhoneInv, NEW a \in Assets
  PROVE  /\ Scanned(a) \in PhoneRow /\ RowSound(Scanned(a), a, photo, asset[a], crossed)
         /\ row[a].sha # None => Scanned(a).sha = row[a].sha
         /\ row[a].sha # None /\ row[a].state # "done" =>
              Scanned(a).modified = row[a].modified /\ Scanned(a).state # "done"
         /\ row[a].state \in {"uploading", "uploaded"} => Scanned(a) = row[a]
         /\ Scanned(a).state = "uploading" => row[a].state = "uploading"
<1>1. row[a] \in PhoneRow /\ asset[a] \in 1..MaxVersion /\ RowSound(row[a], a, photo, asset[a], crossed)
  BY DEF PhoneInv, PhoneTyped, PhoneRows, RowsInv
<1>2. CASE row[a].state = "unknown"
  <2>1. Scanned(a) = [state |-> "pending", sha |-> None, modified |-> asset[a]]
    BY <1>2 DEF Scanned
  <2> QED BY <1>1, <1>2, <2>1 DEF RowSound, PhoneRow, States
<1>3. CASE row[a].state = "done" /\ asset[a] > row[a].modified
  <2>1. Scanned(a) = [state |-> "pending", sha |-> row[a].sha, modified |-> asset[a]]
    BY <1>3 DEF Scanned
  <2> QED BY <1>1, <1>3, <2>1 DEF RowSound, PhoneRow, States
<1>4. CASE row[a].state = "failed"
  <2>1. Scanned(a) = [row[a] EXCEPT !.state = "pending"]
    BY <1>4 DEF Scanned
  <2> QED BY <1>1, <1>4, <2>1 DEF RowSound, PhoneRow, States
<1>5. CASE row[a].state \notin {"unknown", "failed"} /\ ~ (row[a].state = "done" /\ asset[a] > row[a].modified)
  <2>1. Scanned(a) = row[a]
    BY <1>5 DEF Scanned
  <2> QED BY <1>1, <2>1
<1> QED BY <1>2, <1>3, <1>4, <1>5

LEMMA PassBeginKeeps ==
  ASSUME PhoneInv, LibraryInv, PassBegin
  PROVE  PhoneInv' /\ LibraryInv'
<1>1. /\ UNCHANGED <<photo, req, tile, asset, uploads, finished, waits, kills, crossed>>
      /\ row' = [a \in Assets |-> Scanned(a)] /\ disk' = row' /\ pass = None
      /\ pass' = [step |-> "commit", todo |-> {a \in Assets : row[a].state = "uploaded"}]
  BY DEF PassBegin, Saves, photoVars
<1>2. PhoneTyped'
  BY <1>1, ScannedRow DEF PhoneInv, PhoneTyped, PhoneRows, InPass
<1>3. RowsInv'
  BY <1>1, ScannedRow DEF RowsInv
<1>4. TasksInv'
  BY <1>1, ScannedRow DEF PhoneInv, PhoneTyped, TasksInv
<1>5. WaitsInv'
  <2>1. ASSUME NEW w \in waits PROVE WaitSound(w, req[w.req], row'[w.asset], photo, crossed) /\ w.by # "pass"
    <3>1. w.by # "pass" /\ w.asset \in Assets /\ WaitSound(w, req[w.req], row[w.asset], photo, crossed)
      BY <1>1 DEF PhoneInv, PhoneTyped, WaitsInv, InPass
    <3>2. row'[w.asset] = Scanned(w.asset)
      BY <1>1, <3>1
    <3> QED BY <3>1, <3>2, ScannedRow DEF WaitSound, Fresh
  <2> QED BY <1>1, <2>1 DEF PhoneInv, WaitsInv
<1>6. PassInv'
  <2>1. ASSUME NEW a \in Assets, row[a].state = "uploaded"
        PROVE  row'[a].sha # None /\ (a \notin crossed => Fresh(row'[a], a))
    BY <1>1, <2>1, ScannedRow DEF PhoneInv, RowsInv, RowSound
  <2>2. ~InPass("check")'
    BY <1>1 DEF InPass
  <2> QED BY <1>1, <2>1, <2>2 DEF PassInv
<1>7. UploadingInv'
  BY <1>1, ScannedRow DEF PhoneInv, UploadingInv
<1> QED BY <1>1, <1>2, <1>3, <1>4, <1>5, <1>6, <1>7, LibraryRests DEF PhoneInv

LEMMA PassCommitKeeps ==
  ASSUME PhoneInv, LibraryInv, NEW a \in Assets, PassCommit(a)
  PROVE  PhoneInv' /\ LibraryInv' /\ Grows(photo, photo')
<1>1. /\ InPass("commit") /\ a \in pass.todo /\ CommitSent(a, "pass")
      /\ pass' = [pass EXCEPT !.todo = pass.todo \ {a}]
      /\ UNCHANGED <<asset, uploads, finished, kills>>
  BY DEF PassCommit
<1>2. PICK s \in CommitState(a) : row' = With(a, s) /\ disk' = disk
  BY DEF PassCommit, Notes
<1>3. crossed \subseteq crossed'
  BY <1>1 DEF CommitSent
<1>4. row[a].sha # None /\ (a \notin crossed' => Fresh(row[a], a))
  BY <1>1, <1>3 DEF PhoneInv, PassInv
<1>5. /\ LibraryInv' /\ UNCHANGED <<photo, tile>> /\ crossed \subseteq crossed'
      /\ waits \subseteq waits' /\ WaitsApart(waits', crossed')
      /\ \A w \in waits : req'[w.req] = req[w.req]
      /\ \A w \in waits' \ waits :
           /\ w.req \in Requests /\ w.asset = a /\ w.by = "pass" /\ req'[w.req] # None
           /\ a \notin crossed' => Good(req'[w.req], photo', a, row[a].modified)
  BY <1>1, <1>4, CommitSends
<1>6. s \in States /\ s # "unknown" /\ (s \in {"uploading", "done"} => row[a].state = s)
  BY <1>2, <1>4 DEF CommitState, PhoneInv, PhoneTyped, PhoneRows, PhoneRow, RowsInv, RowSound, States
<1>7. pass \in [step : {"commit"}, todo : SUBSET Assets] /\ pass' \in [step : {"commit"}, todo : SUBSET Assets]
      /\ pass'.todo \subseteq pass.todo
  BY <1>1 DEF PhoneInv, PhoneTyped
<1>8. StatesOnly(row, row')
  BY <1>2, <1>6, WithRow DEF PhoneInv, StatesOnly
<1>9. PhoneTyped'
  <2>1. row' \in PhoneRows
    BY <1>2, <1>6, WithRow DEF PhoneInv
  <2> QED BY <1>1, <1>2, <1>5, <1>7, <2>1 DEF PhoneInv, PhoneTyped, InPass
<1>10. \A b \in Assets : RowSound(row'[b], b, photo, asset[b], crossed')
  <2>1. s = "done" /\ a \notin crossed' => InLibrary(photo, a, row[a].modified)
    BY <1>5, <1>6 DEF PhoneInv, RowsInv, RowSound
  <2> QED BY <1>2, <1>4, <1>5, <1>6, <2>1, WithSound DEF PhoneInv
<1>11. \A w \in waits' \ waits : NewWait(w)
  BY <1>4, <1>5 DEF NewWait
<1>12. /\ RowsInv' /\ TasksInv'
       /\ \A w \in waits' : WaitSound(w, req'[w.req], row'[w.asset], photo', crossed')
  BY <1>1, <1>2, <1>5, <1>8, <1>9, <1>10, <1>11, StatesChange
<1>13. InPass("commit")' /\ ~InPass("check")'
  <2>1. pass' # None
    BY <1>7, PhoneAssumption DEF Passes
  <2> QED BY <1>7, <2>1 DEF InPass
<1>14. PassInv'
  BY <1>1, <1>3, <1>7, <1>8, <1>13 DEF PhoneInv, PassInv, StatesOnly, Fresh
<1>15. UploadingInv'
  BY <1>1, <1>2, <1>6, WithRow DEF PhoneInv, UploadingInv
<1>16. WaitsInv'
  BY <1>5, <1>12, <1>13 DEF WaitsInv
<1> QED BY <1>5, <1>9, <1>12, <1>14, <1>15, <1>16, Unmoved DEF PhoneInv, LibraryInv

\* A pass saves what it has; only the end of a commit's wait lets it go on.
LEMMA PassSavesKeeps ==
  ASSUME PhoneInv, LibraryInv, PassLoop \/ PassEnds
  PROVE  PhoneInv' /\ LibraryInv'
<1>1. /\ row' = row /\ disk' = row /\ pass' \in {None, [step |-> "loop"]}
      /\ UNCHANGED <<photo, req, tile, asset, uploads, finished, waits, kills, crossed>>
      /\ \A w \in waits : w.by # "pass"
  BY DEF PassLoop, PassEnds, Saves, photoVars, InPass, PhoneInv, WaitsInv
<1>2. ~InPass("commit")' /\ ~InPass("check")'
  BY <1>1 DEF InPass
<1>3. PhoneTyped'
  BY <1>1, <1>2 DEF PhoneInv, PhoneTyped
<1>4. RowsInv' /\ TasksInv' /\ UploadingInv'
  BY <1>1 DEF PhoneInv, RowsInv, TasksInv, UploadingInv
<1>5. WaitsInv' /\ PassInv'
  BY <1>1, <1>2 DEF PhoneInv, WaitsInv, PassInv
<1> QED BY <1>1, <1>3, <1>4, <1>5, LibraryRests DEF PhoneInv

LEMMA PassExportKeeps ==
  ASSUME PhoneInv, LibraryInv, NEW a \in Assets, PassExport(a)
  PROVE  PhoneInv' /\ LibraryInv'
<1> DEFINE new == [row[a] EXCEPT !.sha = <<a, asset[a]>>]
<1>1. /\ UNCHANGED <<photo, req, tile, asset, disk, uploads, finished, waits, kills, crossed>>
      /\ row' = [row EXCEPT ![a] = new] /\ pass' = [step |-> "check", asset |-> a]
      /\ row[a].state = "pending" /\ ~InPass("commit")
  BY DEF PassExport, Notes, photoVars, InPass
<1>2. /\ row[a] \in PhoneRow /\ asset[a] \in 1..MaxVersion /\ <<a, asset[a]>> \in Originals
      /\ row[a].modified <= asset[a]
  BY PhoneAssumption DEF PhoneInv, PhoneTyped, PhoneRows, RowsInv, RowSound
<1>3. /\ new \in PhoneRow /\ new.state = "pending" /\ new.modified = row[a].modified
      /\ new.sha = <<a, asset[a]>> /\ new.sha # None
  BY <1>1, <1>2, PhoneAssumption DEF PhoneRow
<1>4. Fresh(new, a)
  BY <1>2, <1>3 DEF Fresh
<1> HIDE DEF new
<1>5. /\ row' \in PhoneRows /\ row'[a] = new
      /\ \A b \in Assets : b # a => row'[b] = row[b]
  BY <1>1, <1>3 DEF PhoneInv, PhoneTyped, PhoneRows
<1>6. ~InPass("commit")' /\ pass'.asset = a /\ pass' \in [step : {"check"}, asset : Assets]
  BY <1>1 DEF InPass
<1>7. PhoneTyped'
  BY <1>1, <1>5, <1>6 DEF PhoneInv, PhoneTyped, InPass
<1>8. RowsInv'
  <2>1. RowSound(new, a, photo, asset[a], crossed)
    BY <1>2, <1>3 DEF RowSound
  <2> QED BY <1>1, <1>5, <2>1 DEF PhoneInv, RowsInv
<1>9. TasksInv'
  BY <1>1, <1>3, <1>5 DEF PhoneInv, PhoneTyped, TasksInv
<1>10. WaitsInv'
  <2>1. ASSUME NEW w \in waits PROVE WaitSound(w, req[w.req], row'[w.asset], photo, crossed)
    <3>1. w.asset \in Assets /\ WaitSound(w, req[w.req], row[w.asset], photo, crossed)
      BY DEF PhoneInv, PhoneTyped, WaitsInv
    <3>2. CASE w.asset = a
      BY <1>3, <1>4, <1>5, <3>1, <3>2 DEF WaitSound
    <3> QED BY <1>5, <3>1, <3>2
  <2> QED BY <1>1, <2>1 DEF PhoneInv, WaitsInv
<1>11. PassInv'
  BY <1>4, <1>5, <1>6 DEF PassInv
<1>12. UploadingInv'
  BY <1>1, <1>3, <1>5 DEF PhoneInv, UploadingInv
<1> QED BY <1>1, <1>7, <1>8, <1>9, <1>10, <1>11, <1>12, LibraryRests DEF PhoneInv

\* Rows change in their states only, and so do tasks that end; the library rests.
LEMMA StatesStep ==
  ASSUME PhoneInv, LibraryInv, PhoneTyped', StatesOnly(row, row'),
         UNCHANGED <<photo, req, tile, asset, kills, crossed>>,
         \A b \in Assets : RowSound(row'[b], b, photo, asset[b], crossed),
         disk' = disk \/ disk' = row',
         \A t \in uploads' \cup finished' :
           \/ \E t0 \in uploads \cup finished : t0.asset = t.asset
           \/ disk' = row' /\ row[t.asset].sha # None,
         waits' \subseteq waits, \A w \in waits' : w.by = "pass" => InPass("commit")',
         PassInv', UploadingInv'
  PROVE  PhoneInv' /\ LibraryInv'
<1>1. WaitsApart(waits', crossed')
  BY DEF PhoneInv, WaitsInv, WaitsApart
<1>2. /\ RowsInv' /\ TasksInv'
      /\ \A w \in waits' : WaitSound(w, req'[w.req], row'[w.asset], photo', crossed')
  BY StatesChange
<1> QED BY <1>1, <1>2, LibraryRests DEF PhoneInv, WaitsInv

LEMMA PassExportFailsKeeps ==
  ASSUME PhoneInv, LibraryInv, NEW a \in Assets, PassExportFails(a)
  PROVE  PhoneInv' /\ LibraryInv'
<1>1. PICK s \in {"pending", "failed"} : row' = With(a, s) /\ disk' = disk
  BY DEF PassExportFails, Notes
<1>2. UNCHANGED <<photo, req, tile, asset, uploads, finished, pass, waits, kills, crossed>>
  BY DEF PassExportFails, photoVars
<1>3. /\ row' \in PhoneRows /\ StatesOnly(row, row')
      /\ \A b \in Assets : row'[b].state = "uploading" => row[b].state = "uploading"
  BY <1>1, WithRow DEF PhoneInv, StatesOnly, States
<1>4. \A b \in Assets : RowSound(row'[b], b, photo, asset[b], crossed)
  BY <1>1, WithSound DEF PhoneInv, States
<1>5. PhoneTyped'
  BY <1>1, <1>2, <1>3 DEF PhoneInv, PhoneTyped, InPass
<1>6. UploadingInv'
  BY <1>2, <1>3 DEF PhoneInv, UploadingInv
<1>7. \A w \in waits' : w.by = "pass" => InPass("commit")'
  BY <1>2 DEF PhoneInv, WaitsInv, InPass
<1> QED BY <1>1, <1>2, <1>3, <1>4, <1>5, <1>6, <1>7, PassStays, StatesStep

LEMMA PassUploadKeeps ==
  ASSUME PhoneInv, LibraryInv, PassUpload
  PROVE  PhoneInv' /\ LibraryInv'
<1> DEFINE a == pass.asset
           c == row[a].sha
           more == IF MovieOf[a] = None THEN {} ELSE {Task(a, "movie", MovieOf[a])}
<1>1. /\ InPass("check") /\ row' = With(a, "uploading") /\ disk' = row'
      /\ uploads' = uploads \cup {Task(a, "original", c)} \cup more
      /\ pass' = [step |-> "loop"]
      /\ UNCHANGED <<photo, req, tile, asset, finished, waits, kills, crossed>>
  BY DEF PassUpload, Saves, photoVars
<1>2. a \in Assets /\ Fresh(row[a], a) /\ row[a].sha # None
  <2>1. a \in Assets /\ Fresh(row[a], a)
    BY <1>1 DEF PhoneInv, PhoneTyped, PassInv
  <2> QED BY <2>1, PhoneAssumption DEF Fresh
<1>3. /\ Task(a, "original", c).asset = a /\ Task(a, "original", c).part = "original"
      /\ \A t \in more : t.asset = a /\ t.part = "movie"
  BY DEF Task
<1> HIDE DEF a, c, more
<1>4. /\ row' \in PhoneRows /\ StatesOnly(row, row')
      /\ \A b \in Assets : b # a => row'[b] = row[b]
  BY <1>1, <1>2, WithRow DEF PhoneInv, StatesOnly, States
<1>5. \A b \in Assets : RowSound(row'[b], b, photo, asset[b], crossed)
  BY <1>1, <1>2, WithSound DEF PhoneInv, States
<1>6. ~InPass("commit")' /\ ~InPass("check")' /\ \A w \in waits' : w.by # "pass"
  BY <1>1 DEF InPass, PhoneInv, WaitsInv
<1>7. \A t \in uploads' \cup finished' : t \in uploads \cup finished \/ (t.asset = a /\ t.part \in {"original", "movie"})
  BY <1>1, <1>3
<1>8. PhoneTyped'
  BY <1>1, <1>2, <1>4, <1>6, <1>7 DEF PhoneInv, PhoneTyped
<1>9. PassInv'
  BY <1>6 DEF PassInv
<1>10. UploadingInv'
  <2>1. Task(a, "original", c) \in uploads'
    BY <1>1
  <2>2. ASSUME NEW b \in Assets, b # a, row'[b].state = "uploading", kills' = 0
        PROVE  \E t \in uploads' \cup finished' : t.asset = b /\ t.part = "original"
    BY <1>1, <1>4, <2>2 DEF PhoneInv, UploadingInv
  <2> QED BY <1>3, <2>1, <2>2 DEF UploadingInv
<1> QED BY <1>1, <1>2, <1>4, <1>5, <1>6, <1>7, <1>8, <1>9, <1>10, StatesStep

LEMMA PassCommitsAtOnceKeeps ==
  ASSUME PhoneInv, LibraryInv, PassCommitsAtOnce
  PROVE  PhoneInv' /\ LibraryInv' /\ Grows(photo, photo')
<1> DEFINE a == pass.asset
<1>1. /\ InPass("check") /\ CommitSent(a, "pass") /\ pass' = [step |-> "commit", todo |-> {}]
      /\ UNCHANGED <<asset, uploads, finished, kills>>
  BY DEF PassCommitsAtOnce
<1>2. PICK s \in CommitState(a) : row' = With(a, s) /\ disk' = disk
  BY DEF PassCommitsAtOnce, Notes
<1>3. a \in Assets /\ Fresh(row[a], a) /\ row[a].sha # None
  <2>1. a \in Assets /\ Fresh(row[a], a)
    BY <1>1 DEF PhoneInv, PhoneTyped, PassInv
  <2> QED BY <2>1, PhoneAssumption DEF Fresh
<1> HIDE DEF a
<1>4. /\ LibraryInv' /\ UNCHANGED <<photo, tile>> /\ crossed \subseteq crossed'
      /\ waits \subseteq waits' /\ WaitsApart(waits', crossed')
      /\ \A w \in waits : req'[w.req] = req[w.req]
      /\ \A w \in waits' \ waits :
           /\ w.req \in Requests /\ w.asset = a /\ w.by = "pass" /\ req'[w.req] # None
           /\ a \notin crossed' => Good(req'[w.req], photo', a, row[a].modified)
  BY <1>1, <1>3, CommitSends
<1>5. s \in States /\ s # "unknown" /\ (s \in {"uploading", "done"} => row[a].state = s)
  BY <1>2, <1>3 DEF CommitState, PhoneInv, PhoneTyped, PhoneRows, PhoneRow, RowsInv, RowSound, States
<1>6. StatesOnly(row, row') /\ row' \in PhoneRows
  BY <1>2, <1>3, <1>5, WithRow DEF PhoneInv, StatesOnly
<1>7. pass' # None /\ pass' \in [step : {"commit"}, todo : SUBSET Assets]
  BY <1>1, PhoneAssumption DEF Passes
<1>8. InPass("commit")' /\ ~InPass("check")' /\ pass'.todo = {}
  BY <1>1, <1>7 DEF InPass
<1>9. PhoneTyped'
  BY <1>1, <1>2, <1>3, <1>4, <1>6, <1>7, <1>8 DEF PhoneInv, PhoneTyped
<1>10. \A b \in Assets : RowSound(row'[b], b, photo, asset[b], crossed')
  <2>1. s = "done" /\ a \notin crossed' => InLibrary(photo, a, row[a].modified)
    BY <1>3, <1>4, <1>5 DEF PhoneInv, RowsInv, RowSound
  <2> QED BY <1>2, <1>3, <1>4, <1>5, <2>1, WithSound DEF PhoneInv
<1>11. \A w \in waits' \ waits : NewWait(w)
  BY <1>3, <1>4 DEF NewWait
<1>12. /\ RowsInv' /\ TasksInv'
       /\ \A w \in waits' : WaitSound(w, req'[w.req], row'[w.asset], photo', crossed')
  BY <1>1, <1>2, <1>4, <1>6, <1>9, <1>10, <1>11, StatesChange
<1>13. PassInv' /\ WaitsInv'
  BY <1>4, <1>8, <1>12 DEF PassInv, WaitsInv
<1>14. UploadingInv'
  BY <1>1, <1>2, <1>3, <1>5, WithRow DEF PhoneInv, UploadingInv
<1> QED BY <1>4, <1>9, <1>12, <1>13, <1>14, Unmoved DEF PhoneInv, LibraryInv

LEMMA UploadEndsKeeps ==
  ASSUME PhoneInv, LibraryInv, NEW t \in uploads, NEW stored, NEW ok, UploadEnds(t, stored, ok)
  PROVE  PhoneInv' /\ LibraryInv'
<1> DEFINE e == [asset |-> t.asset, part |-> t.part, try |-> t.try, ok |-> ok]
<1>1. /\ uploads' = uploads \ {t} /\ finished' = finished \cup {e}
      /\ UNCHANGED <<photo, req, tile, asset, row, disk, pass, waits, kills, crossed>>
  BY DEF UploadEnds, phoneRows
<1>2. e.asset = t.asset /\ e.part = t.part
  OBVIOUS
<1> HIDE DEF e
<1>3. PhoneTyped'
  BY <1>1, <1>2 DEF PhoneInv, PhoneTyped, InPass
<1>4. StatesOnly(row, row')
  BY <1>1 DEF StatesOnly
<1>5. \A b \in Assets : RowSound(row'[b], b, photo, asset[b], crossed)
  BY <1>1 DEF PhoneInv, RowsInv
<1>6. UploadingInv'
  <2>1. \A u \in uploads \cup finished : \E u2 \in uploads' \cup finished' : u2.asset = u.asset /\ u2.part = u.part
    BY <1>1, <1>2
  <2> QED BY <1>1, <2>1 DEF PhoneInv, UploadingInv
<1>7. \A u \in uploads' \cup finished' : \E u0 \in uploads \cup finished : u0.asset = u.asset
  BY <1>1, <1>2
<1>8. \A w \in waits' : w.by = "pass" => InPass("commit")'
  BY <1>1 DEF PhoneInv, WaitsInv, InPass
<1> QED BY <1>1, <1>3, <1>4, <1>5, <1>6, <1>7, <1>8, PassStays, StatesStep

LEMMA UploadFailedKeeps ==
  ASSUME PhoneInv, LibraryInv, NEW e \in finished, UploadFailed(e)
  PROVE  PhoneInv' /\ LibraryInv'
<1>1. PICK s \in {"pending", "failed"} : row' = With(e.asset, s) /\ disk' = row'
  BY DEF UploadFailed, Saves
<1>2. /\ UNCHANGED <<photo, req, tile, asset, uploads, pass, waits, kills, crossed>>
      /\ finished' = finished \ {e} /\ e.asset \in Assets
  BY DEF UploadFailed, photoVars, PhoneInv, PhoneTyped
<1>3. /\ row' \in PhoneRows /\ StatesOnly(row, row') /\ row'[e.asset].state = s
      /\ \A b \in Assets : b # e.asset => row'[b] = row[b]
  BY <1>1, <1>2, WithRow DEF PhoneInv, StatesOnly, States
<1>4. \A b \in Assets : RowSound(row'[b], b, photo, asset[b], crossed)
  BY <1>1, <1>2, WithSound DEF PhoneInv, States
<1>5. PhoneTyped'
  BY <1>1, <1>2, <1>3 DEF PhoneInv, PhoneTyped, InPass
<1>6. UploadingInv'
  BY <1>2, <1>3 DEF PhoneInv, UploadingInv
<1>7. \A w \in waits' : w.by = "pass" => InPass("commit")'
  BY <1>2 DEF PhoneInv, WaitsInv, InPass
<1> QED BY <1>1, <1>2, <1>3, <1>4, <1>5, <1>6, <1>7, PassStays, StatesStep

\* A movie's callback before the original's completes nothing.
LEMMA MovieFirstKeeps ==
  ASSUME PhoneInv, LibraryInv, NEW e \in finished, UploadFinished(e),
         e.part = "movie" /\ row[e.asset].state # "uploaded"
  PROVE  PhoneInv' /\ LibraryInv'
<1>1. /\ UNCHANGED <<photo, req, tile, asset, row, disk, uploads, pass, waits, kills, crossed>>
      /\ finished' = finished \ {e}
  BY DEF UploadFinished, photoVars, phoneRows
<1>2. PhoneTyped' /\ StatesOnly(row, row')
  BY <1>1 DEF PhoneInv, PhoneTyped, InPass, StatesOnly
<1>3. UploadingInv'
  BY <1>1 DEF PhoneInv, UploadingInv
<1>4. \A b \in Assets : RowSound(row'[b], b, photo, asset[b], crossed)
  BY <1>1 DEF PhoneInv, RowsInv
<1>5. \A w \in waits' : w.by = "pass" => InPass("commit")'
  BY <1>1 DEF PhoneInv, WaitsInv, InPass
<1> QED BY <1>1, <1>2, <1>3, <1>4, <1>5, PassStays, StatesStep

LEMMA UploadFinishedKeeps ==
  ASSUME PhoneInv, LibraryInv, NEW e \in finished, UploadFinished(e),
         ~ (e.part = "movie" /\ row[e.asset].state # "uploaded")
  PROVE  PhoneInv' /\ LibraryInv' /\ Grows(photo, photo')
<1> DEFINE a == e.asset
<1>1. /\ CommitSent(a, e.part) /\ finished' = finished \ {e}
      /\ UNCHANGED <<asset, uploads, pass, kills>>
  BY DEF UploadFinished
<1>2. PICK s \in {"uploaded", "failed"} : row' = With(a, s) /\ disk' = row'
  BY DEF UploadFinished, Saves, CommitState
<1>3. a \in Assets /\ e.part \in {"original", "movie"} /\ row[a].sha # None
  BY DEF PhoneInv, PhoneTyped, TasksInv
<1>4. crossed \subseteq crossed' /\ (e.part = "original" /\ a \notin crossed' => row[a].state = "uploading")
  BY <1>1 DEF CommitSent
<1>5. a \notin crossed' => Fresh(row[a], a)
  <2>1. a \notin crossed' => a \notin crossed /\ row[a].state \in {"uploading", "uploaded"}
    BY <1>3, <1>4
  <2> QED BY <1>3, <2>1 DEF PhoneInv, RowsInv, RowSound
<1> HIDE DEF a
<1>6. /\ LibraryInv' /\ UNCHANGED <<photo, tile>> /\ crossed \subseteq crossed'
      /\ waits \subseteq waits' /\ WaitsApart(waits', crossed')
      /\ \A w \in waits : req'[w.req] = req[w.req]
      /\ \A w \in waits' \ waits :
           /\ w.req \in Requests /\ w.asset = a /\ w.by = e.part /\ req'[w.req] # None
           /\ a \notin crossed' => Good(req'[w.req], photo', a, row[a].modified)
  BY <1>1, <1>3, <1>5, CommitSends
<1>7. /\ StatesOnly(row, row') /\ row' \in PhoneRows /\ row'[a].state = s
      /\ \A b \in Assets : b # a => row'[b] = row[b]
  BY <1>2, <1>3, WithRow DEF PhoneInv, StatesOnly, States
<1>8. PhoneTyped'
  BY <1>1, <1>2, <1>3, <1>6, <1>7 DEF PhoneInv, PhoneTyped, InPass
<1>9. \A b \in Assets : RowSound(row'[b], b, photo, asset[b], crossed')
  BY <1>2, <1>3, <1>5, <1>6, WithSound DEF PhoneInv, States
<1>10. \A w \in waits' \ waits : NewWait(w)
  BY <1>3, <1>5, <1>6, <1>7 DEF NewWait
<1>11. /\ RowsInv' /\ TasksInv'
       /\ \A w \in waits' : WaitSound(w, req'[w.req], row'[w.asset], photo', crossed')
  BY <1>1, <1>2, <1>6, <1>7, <1>8, <1>9, <1>10, StatesChange
<1>12. PassInv'
  BY <1>1, <1>4, <1>7, PassStays
<1>13. UploadingInv'
  <2>1. ASSUME NEW b \in Assets, b # a, row[b].state = "uploading", kills = 0
        PROVE  \E t \in uploads \cup (finished \ {e}) : t.asset = b /\ t.part = "original"
    BY <2>1 DEF PhoneInv, UploadingInv, a
  <2> QED BY <1>1, <1>7, <2>1 DEF UploadingInv
<1>14. WaitsInv'
  <2>1. \A w \in waits' : w.by = "pass" => InPass("commit")'
    BY <1>1, <1>3, <1>6 DEF PhoneInv, WaitsInv, InPass
  <2> QED BY <1>6, <1>11, <2>1 DEF WaitsInv
<1> QED BY <1>6, <1>8, <1>11, <1>12, <1>13, <1>14, Unmoved DEF PhoneInv, LibraryInv

LEMMA CommitLostKeeps ==
  ASSUME PhoneInv, LibraryInv, NEW w \in waits, CommitLost(w)
  PROVE  PhoneInv' /\ LibraryInv'
<1>1. PICK s \in {"uploaded", "failed"} : row' = With(w.asset, s) /\ disk' = disk
  BY DEF CommitLost, Notes
<1>2. /\ UNCHANGED <<photo, req, tile, asset, uploads, finished, pass, kills, crossed>>
      /\ waits' = waits \ {w} /\ w.asset \in Assets
  BY DEF CommitLost, photoVars, PhoneInv, PhoneTyped
<1>3. row[w.asset].sha # None /\ (w.asset \notin crossed => Fresh(row[w.asset], w.asset))
  BY DEF PhoneInv, WaitsInv, WaitSound
<1>4. /\ row' \in PhoneRows /\ StatesOnly(row, row') /\ row'[w.asset].state = s
      /\ \A b \in Assets : b # w.asset => row'[b] = row[b]
  BY <1>1, <1>2, WithRow DEF PhoneInv, StatesOnly, States
<1>5. \A b \in Assets : RowSound(row'[b], b, photo, asset[b], crossed)
  BY <1>1, <1>2, <1>3, WithSound DEF PhoneInv, States
<1>6. PhoneTyped'
  BY <1>1, <1>2, <1>4 DEF PhoneInv, PhoneTyped, InPass
<1>7. UploadingInv'
  BY <1>2, <1>4 DEF PhoneInv, UploadingInv
<1>8. \A v \in waits' : v.by = "pass" => InPass("commit")'
  BY <1>2 DEF PhoneInv, WaitsInv, InPass
<1> QED BY <1>1, <1>2, <1>4, <1>5, <1>6, <1>7, <1>8, PassStays, StatesStep

\* The answer of a commit that is awaited: a photo of the version it was about.
LEMMA AnswerTells ==
  ASSUME PhoneInv, NEW w \in waits, Doing(w.req, "answer"), req[w.req].photo # None,
         w.asset \notin crossed
  PROVE  InLibrary(photo, w.asset, row[w.asset].modified)
<1>1. Good(req[w.req], photo, w.asset, row[w.asset].modified) /\ row[w.asset] \in PhoneRow
  BY DEF PhoneInv, WaitsInv, WaitSound, PhoneTyped, PhoneRows
<1>2. row[w.asset].modified \in 0..MaxVersion
  BY <1>1 DEF PhoneRow
<1>3. PICK v \in 1..MaxVersion :
        /\ row[w.asset].modified <= v /\ req[w.req].photo \in PhotoIds /\ photo[req[w.req].photo] # None
        /\ photo[req[w.req].photo].place = Phone /\ photo[req[w.req].photo].content = <<w.asset, v>>
  BY <1>1 DEF Good, Doing
<1>4. v \in row[w.asset].modified..MaxVersion
  BY <1>2, <1>3, PhoneAssumption
<1> QED BY <1>3, <1>4 DEF InLibrary

LEMMA CommitAnsweredKeeps ==
  ASSUME PhoneInv, LibraryInv, NEW w \in waits, CommitAnswered(w)
  PROVE  PhoneInv' /\ LibraryInv'
<1> DEFINE a == w.asset
<1>1. PICK s \in {"done", "uploaded", "failed"} :
        /\ row' = With(a, s) /\ disk' = disk
        /\ s = "done" => req[w.req].photo # None
  BY DEF CommitAnswered, Notes
<1>2. /\ UNCHANGED <<photo, tile, asset, uploads, finished, pass, kills, crossed>>
      /\ waits' = waits \ {w} /\ a \in Assets /\ w.req \in Requests
      /\ req' = [req EXCEPT ![w.req] = None]
  BY DEF CommitAnswered, Becomes, rows, PhoneInv, PhoneTyped
<1>3. row[a].sha # None /\ (a \notin crossed => Fresh(row[a], a))
  BY DEF PhoneInv, WaitsInv, WaitSound
<1>4. s = "done" /\ a \notin crossed => InLibrary(photo, a, row[a].modified)
  BY <1>1, AnswerTells DEF CommitAnswered
<1> HIDE DEF a
<1>5. LibraryInv'
  BY <1>2, RequestReads
<1>6. /\ row' \in PhoneRows /\ row'[a].state = s
      /\ row'[a].sha = row[a].sha /\ row'[a].modified = row[a].modified
      /\ \A b \in Assets : b # a => row'[b] = row[b]
  BY <1>1, <1>2, WithRow DEF PhoneInv, States
<1>7. \A b \in Assets : RowSound(row'[b], b, photo, asset[b], crossed)
  BY <1>1, <1>2, <1>3, <1>4, WithSound DEF PhoneInv, States
<1>8. PhoneTyped'
  BY <1>1, <1>2, <1>6 DEF PhoneInv, PhoneTyped, InPass
<1>9. RowsInv' /\ TasksInv'
  BY <1>1, <1>2, <1>6, <1>7 DEF PhoneInv, PhoneTyped, RowsInv, TasksInv
<1>10. WaitsInv'
  <2>1. ASSUME NEW v \in waits' PROVE WaitSound(v, req'[v.req], row'[v.asset], photo, crossed)
    <3>1. /\ v \in waits /\ v # w /\ v.req # w.req /\ v.asset \in Assets /\ v.req \in Requests
          /\ v.asset \notin crossed => v.asset # a
          /\ WaitSound(v, req[v.req], row[v.asset], photo, crossed)
      BY <1>2, <2>1 DEF PhoneInv, PhoneTyped, WaitsInv, WaitsApart, a
    <3>2. req'[v.req] = req[v.req]
      BY <1>2, <3>1 DEF LibraryInv, PhotosOK
    <3>3. CASE v.asset = a
      BY <1>6, <3>1, <3>2, <3>3 DEF WaitSound
    <3>4. CASE v.asset # a
      BY <1>6, <3>1, <3>2, <3>4
    <3> QED BY <3>3, <3>4
  <2>2. \A v \in waits' : v.by = "pass" => InPass("commit")'
    BY <1>2 DEF PhoneInv, WaitsInv, InPass
  <2>3. WaitsApart(waits', crossed)
    BY <1>2 DEF PhoneInv, WaitsInv, WaitsApart
  <2> QED BY <1>2, <2>1, <2>2, <2>3 DEF WaitsInv
<1>11. PassInv'
  <2>1. \A b \in Assets : row'[b].sha = row[b].sha /\ row'[b].modified = row[b].modified
    BY <1>6
  <2> QED BY <1>2, <2>1 DEF PhoneInv, PhoneTyped, PassInv, Fresh, InPass
<1>12. UploadingInv'
  BY <1>1, <1>2, <1>6 DEF PhoneInv, UploadingInv
<1> QED BY <1>5, <1>8, <1>9, <1>10, <1>11, <1>12 DEF PhoneInv

LEMMA KillKeeps ==
  ASSUME PhoneInv, LibraryInv, Kill
  PROVE  PhoneInv' /\ LibraryInv'
<1>1. /\ UNCHANGED <<photo, req, tile, asset, disk, uploads, crossed>> /\ kills' = kills + 1
      /\ row' = disk /\ pass' = None /\ waits' = {} /\ finished' = {}
  BY DEF Kill, photoVars
<1>2. PhoneTyped' /\ PassInv' /\ WaitsInv' /\ RowsInv' /\ TasksInv'
  BY <1>1 DEF PhoneInv, PhoneTyped, PassInv, WaitsInv, WaitsApart, RowsInv, TasksInv, InPass
<1>3. UploadingInv'
  BY <1>1 DEF PhoneInv, PhoneTyped, UploadingInv
<1> QED BY <1>1, <1>2, <1>3, LibraryRests DEF PhoneInv

LEMMA AnswerUnheardKeeps ==
  ASSUME PhoneInv, LibraryInv, NEW k \in Requests, AnswerUnheard(k)
  PROVE  PhoneInv' /\ LibraryInv'
<1>1. LibraryInv' /\ UNCHANGED <<photo, tile>> /\ UNCHANGED phoneVars /\ req' = [req EXCEPT ![k] = None]
  BY AnswerReadKeeps DEF AnswerUnheard, AnswerRead, Becomes, rows
<1>2. \A w \in waits : req'[w.req] = req[w.req] /\ req[w.req] # None
  BY <1>1 DEF AnswerUnheard, PhoneInv, PhoneTyped, WaitsInv, WaitSound, LibraryInv, PhotosOK
<1>3. Grows(photo, photo') /\ photo' = photo
  BY <1>1, Unmoved DEF LibraryInv
<1> QED BY <1>1, <1>2, <1>3, LibraryMoves

LEMMA ServerStepKeeps ==
  ASSUME PhoneInv, LibraryInv, ServerStep, UNCHANGED phoneVars
  PROVE  PhoneInv' /\ LibraryInv'
<1>1. LibraryInv' /\ Grows(photo, photo')
  BY ServerKeeps
<1>2. \A w \in waits : w.req \in Requests /\ req[w.req] # None
  BY DEF PhoneInv, PhoneTyped, WaitsInv, WaitSound
<1> QED BY <1>1, <1>2, ServerGood, LibraryMoves

LEMMA BackupStep ==
  ASSUME PhoneInv, LibraryInv, [BackupNext]_backupVars
  PROVE  PhoneInv' /\ LibraryInv'
<1>1. CASE UNCHANGED backupVars
  <2>1. UNCHANGED <<photo, held, req, begun, tile>> /\ UNCHANGED phoneVars
    BY <1>1 DEF backupVars, photoVars
  <2>2. LibraryInv' /\ Grows(photo, photo')
    BY <2>1, LibraryRests
  <2>3. \A w \in waits : req[w.req] # None
    BY DEF PhoneInv, WaitsInv, WaitSound
  <2> QED BY <2>1, <2>2, <2>3, LibraryMoves
<1>2. CASE BackupNext
  <2>1. CASE ServerStep /\ UNCHANGED phoneVars
    BY <2>1, ServerStepKeeps
  <2>2. CASE \E k \in Requests : AnswerUnheard(k)
    BY <2>2, AnswerUnheardKeeps
  <2>3. CASE \E a \in Assets : Edit(a) \/ PassCommit(a) \/ PassExport(a) \/ PassExportFails(a)
    BY <2>3, EditKeeps, PassCommitKeeps, PassExportKeeps, PassExportFailsKeeps
  <2>4. CASE PassBegin \/ PassLoop \/ PassUpload \/ PassCommitsAtOnce \/ PassEnds \/ Kill
    BY <2>4, PassBeginKeeps, PassSavesKeeps, PassUploadKeeps, PassCommitsAtOnceKeeps, KillKeeps
  <2>5. CASE \E t \in uploads, stored, ok \in BOOLEAN : UploadEnds(t, stored, ok)
    BY <2>5, UploadEndsKeeps
  <2>6. CASE \E e \in finished : UploadFailed(e) \/ UploadFinished(e)
    BY <2>6, UploadFailedKeeps, UploadFinishedKeeps, MovieFirstKeeps
  <2>7. CASE \E w \in waits : CommitAnswered(w) \/ CommitLost(w)
    BY <2>7, CommitAnsweredKeeps, CommitLostKeeps
  <2> QED BY <1>2, <2>1, <2>2, <2>3, <2>4, <2>5, <2>6, <2>7 DEF BackupNext
<1> QED BY <1>1, <1>2

LEMMA BackupBegins == BackupInit => PhoneInv /\ LibraryInv
<1> SUFFICES ASSUME BackupInit PROVE PhoneInv
  BY LibraryInit DEF BackupInit
<1>1. /\ asset = [a \in Assets |-> 1] /\ row = [a \in Assets |-> NoRow] /\ disk = row
      /\ uploads = {} /\ finished = {} /\ pass = None /\ waits = {} /\ kills = 0
  BY DEF BackupInit
<1>2. NoRow \in PhoneRow /\ 1 \in 1..MaxVersion
  BY PhoneAssumption DEF NoRow, PhoneRow, States
<1>3. PhoneTyped
  BY <1>1, <1>2 DEF PhoneTyped, PhoneRows, InPass
<1>4. RowsInv
  BY <1>1 DEF RowsInv, RowSound, NoRow
<1> QED BY <1>1, <1>3, <1>4 DEF PhoneInv, TasksInv, WaitsInv, WaitsApart, PassInv, UploadingInv, InPass, NoRow

\* The engine loses no photo: a row that is done is of a version in the library no
\* older than its last scan noted, and one that is uploading has an upload, but for
\* what overlapping commits, late callbacks and ends of the app are known to do
\* (PhotoBackup.swift).
THEOREM BackupStaysSound == BackupSpec => []BackupSound
<1>1. PhoneInv => BackupSound
  <2>1. ASSUME PhoneInv PROVE RowsTyped
    BY <2>1 DEF PhoneInv, PhoneTyped, PhoneRows, PhoneRow, RowsInv, RowSound, RowsTyped
  <2>2. ASSUME PhoneInv PROVE DoneIsCurrent
    BY <2>2 DEF PhoneInv, RowsInv, RowSound, InLibrary, DoneIsCurrent
  <2>3. ASSUME PhoneInv PROVE UploadsAccounted
    BY <2>3 DEF PhoneInv, UploadingInv, UploadsAccounted
  <2> QED BY <2>1, <2>2, <2>3 DEF BackupSound
<1>2. PhoneInv /\ LibraryInv /\ [BackupNext]_backupVars => (PhoneInv /\ LibraryInv)'
  BY BackupStep
<1> QED BY <1>1, <1>2, BackupBegins, PTL DEF BackupSpec

-----------------------------------------------------------------------------
(* The migration.                                                          *)

\* What the migrations before the multi-user one leave, and what it makes.
ColsTyped ==
  \A c \in Cols :
    cols[c].parent \in Cols \cup {Null} /\ cols[c].deleted \in BOOLEAN /\ cols[c].name \in Nat

\* The versions recorded have no gap, and a program believes in one of them.
VersionsInv ==
  /\ applied \subseteq Migrations
  /\ \A m \in applied, n \in Migrations : n <= m => n \in applied
  /\ open \in [Processes -> 1..7 \cup {Null}]
  /\ \A p \in Processes : open[p] # Null => \A m \in Migrations : m <= open[p] => m \in applied
  /\ repeated \in BOOLEAN

\* The multi-user migration is made once: it fails when there is an owner.
MigrationInv ==
  /\ VersionsInv /\ ColsTyped
  /\ objects \in [Old \cup New -> ObjectRow \cup {Null}]
  /\ 2 \in applied <=> Owner \in users
  /\ 2 \notin applied => \A c \in Cols : cols[c].name = 0
  /\ \A o \in New : objects[o] # Null => 6 \in applied
  /\ MigratedSound

\* The versions are few: the last of some, and the next one.
LEMMA LastVersion ==
  ASSUME applied \subseteq Migrations
  PROVE  Version \in 1..7 /\ (Version = 1 \/ Version \in applied)
<1>1. \E v \in {1} \cup applied : \A w \in {1} \cup applied : v >= w
  <2>1. CASE 7 \in applied
    BY <2>1 DEF Migrations
  <2>2. CASE 7 \notin applied /\ 6 \in applied
    BY <2>2 DEF Migrations
  <2>3. CASE 7 \notin applied /\ 6 \notin applied /\ 5 \in applied
    BY <2>3 DEF Migrations
  <2>4. CASE 7 \notin applied /\ 6 \notin applied /\ 5 \notin applied /\ 4 \in applied
    BY <2>4 DEF Migrations
  <2>5. CASE /\ 7 \notin applied /\ 6 \notin applied /\ 5 \notin applied /\ 4 \notin applied
             /\ 3 \in applied
    BY <2>5 DEF Migrations
  <2>6. CASE /\ 7 \notin applied /\ 6 \notin applied /\ 5 \notin applied /\ 4 \notin applied
             /\ 3 \notin applied
    BY <2>6 DEF Migrations
  <2> QED BY <2>1, <2>2, <2>3, <2>4, <2>5, <2>6
<1>2. Version \in {1} \cup applied
  BY <1>1 DEF Version, Max
<1> QED BY <1>2 DEF Migrations

LEMMA NextVersion ==
  ASSUME NEW v \in 1..7, Later(v) # {}
  PROVE  /\ Min(Later(v)) \in Migrations /\ v < Min(Later(v))
         /\ \A m \in Migrations : m < Min(Later(v)) => m <= v
<1>1. \E n \in Later(v) : \A m \in Later(v) : n <= m
  <2>1. Later(v) = (v + 1)..7 \/ (v = 1 /\ Later(v) = 2..7)
    BY DEF Later, Migrations
  <2>2. v # 7
    BY DEF Later, Migrations
  <2>3. v + 1 \in Later(v) /\ \A m \in Later(v) : v + 1 <= m
    BY <2>1, <2>2
  <2> QED BY <2>3
<1>2. Min(Later(v)) \in Later(v) /\ \A m \in Later(v) : Min(Later(v)) <= m
  BY <1>1 DEF Min
<1>3. Min(Later(v)) \in Migrations /\ v < Min(Later(v))
  BY <1>2 DEF Later
<1>4. ASSUME NEW m \in Migrations, m < Min(Later(v)) PROVE m <= v
  <2>1. m \notin Later(v)
    BY <1>2, <1>3, <1>4 DEF Migrations
  <2> QED BY <2>1 DEF Later, Migrations
<1> QED BY <1>3, <1>4

\* A root is its own; what is in a collection has the root of that.
LEMMA RootOfParent ==
  ASSUME ColsTyped, NEW c \in Cols
  PROVE  RootOf(c) = IF cols[c].parent = Null THEN c ELSE RootOf(cols[c].parent)
<1>1. CASE cols[c].parent = Null
  <2>1. Upward({c})
    BY <1>1 DEF Upward
  <2>2. Above(c) = {c}
    BY <2>1 DEF Above
  <2>3. {d \in Above(c) : cols[d].parent = Null} = {c}
    BY <1>1, <2>2
  <2>4. One({c}) = c
    BY DEF One
  <2> QED BY <1>1, <2>3, <2>4 DEF RootOf
<1>2. CASE cols[c].parent # Null
  <2> DEFINE up == cols[c].parent
  <2>1. up \in Cols
    BY <1>2 DEF ColsTyped
  <2>2. ASSUME NEW d \in Above(c), d # c PROVE d \in Above(up)
    <3>1. ASSUME NEW S \in SUBSET Cols, up \in S, Upward(S) PROVE d \in S
      <4>1. S \cup {c} \in SUBSET Cols /\ Upward(S \cup {c})
        BY <3>1 DEF Upward
      <4>2. d \in S \cup {c}
        BY <4>1 DEF Above
      <4> QED BY <2>2, <4>2
    <3>2. d \in Cols
      BY DEF Above
    <3> QED BY <3>1, <3>2 DEF Above
  <2>3. ASSUME NEW d \in Above(up) PROVE d \in Above(c)
    <3>1. ASSUME NEW S \in SUBSET Cols, c \in S, Upward(S) PROVE d \in S
      <4>1. up \in S
        BY <1>2, <3>1 DEF Upward
      <4> QED BY <3>1, <4>1 DEF Above
    <3>2. d \in Cols
      BY DEF Above
    <3> QED BY <3>1, <3>2 DEF Above
  <2>4. {d \in Above(c) : cols[d].parent = Null} = {d \in Above(up) : cols[d].parent = Null}
    BY <1>2, <2>2, <2>3
  <2> QED BY <1>2, <2>4 DEF RootOf
<1> QED BY <1>1, <1>2

\* The multi-user migration: owned, rooted, and no two names alike.
LEMMA MultiUserTree ==
  ASSUME MigrationInv, 2 \notin applied, MigrateV2
  PROVE  TreeMigrated' /\ ColsTyped' /\ Owner \in users'
<1>1. ColsTyped /\ \A c \in Cols : cols[c].name = 0
  BY DEF MigrationInv
<1>2. ASSUME NEW c \in Cols
      PROVE  /\ cols'[c].parent = cols[c].parent /\ cols'[c].deleted = cols[c].deleted
             /\ cols'[c].owner = Owner /\ cols'[c].root = RootOf(c)
             /\ cols'[c].name = IF Dup(c) THEN c ELSE cols[c].name
  BY DEF MigrateV2
<1>3. Owner \in users'
  BY DEF MigrateV2
<1>4. ColsTyped'
  BY <1>1, <1>2, MigrationAssumption DEF ColsTyped
<1>5. ASSUME NEW c \in Cols
      PROVE  /\ cols'[c].owner \in users'
             /\ cols'[c].root = IF cols'[c].parent = Null THEN c ELSE cols'[cols'[c].parent].root
  <2>1. cols[c].parent # Null => cols[c].parent \in Cols
    BY <1>1 DEF ColsTyped
  <2>2. RootOf(c) = IF cols[c].parent = Null THEN c ELSE RootOf(cols[c].parent)
    BY <1>1, RootOfParent
  <2> QED BY <1>2, <1>3, <2>1, <2>2
<1>6. ASSUME NEW c \in Cols, NEW d \in Cols, c # d, ~cols[c].deleted, ~cols[d].deleted,
             cols[c].parent = cols[d].parent, cols'[c].name = cols'[d].name
      PROVE  FALSE
  <2>1. c \in Nat /\ d \in Nat /\ c # 0 /\ d # 0
    BY MigrationAssumption
  <2>2. Dup(c) \/ Dup(d)
    BY <1>1, <1>6, <2>1 DEF Dup, Siblings
  <2>3. /\ cols'[c].name = IF Dup(c) THEN c ELSE 0
        /\ cols'[d].name = IF Dup(d) THEN d ELSE 0
    BY <1>1, <1>2
  <2> QED BY <1>6, <2>1, <2>2, <2>3
<1>7. ASSUME NEW c \in Cols, NEW d \in Cols, c # d, ~cols'[c].deleted, ~cols'[d].deleted
      PROVE  ~Siblings(c, d)'
  <2>1. /\ cols'[c].parent = cols[c].parent /\ cols'[c].deleted = cols[c].deleted
        /\ cols'[d].parent = cols[d].parent /\ cols'[d].deleted = cols[d].deleted
    BY <1>2
  <2> QED BY <1>6, <1>7, <2>1 DEF Siblings
<1>8. TreeMigrated'
  BY <1>5, <1>7 DEF TreeMigrated
<1> QED BY <1>3, <1>4, <1>8

\* The counts: a push adds one to each blob it refers to, and takes none away.
LEMMA PushCounts ==
  ASSUME MigrationInv, NEW o \in New, objects[o] = Null, NEW obj \in ObjectRow, ~obj.deleted,
         objects' = [objects EXCEPT ![o] = obj], NEW b \in Blobs
  PROVE  Cardinality(Referring(objects', b)) =
           IF b \in Blobs_(obj) THEN Cardinality(Referring(objects, b)) + 1
           ELSE Cardinality(Referring(objects, b))
<1>1. /\ objects \in [Old \cup New -> ObjectRow \cup {Null}] /\ IsFiniteSet(Old \cup New)
      /\ obj # Null
  BY MigrationAssumption DEF MigrationInv
<1>2. objects' \in [Old \cup New -> ObjectRow \cup {Null}]
  BY <1>1
<1>3. Referring(objects, b) \subseteq Old \cup New /\ o \notin Referring(objects, b)
  BY <1>1 DEF Referring, LiveObjects
<1>4. IsFiniteSet(Referring(objects, b))
  BY <1>1, <1>3, FS_Subset
<1>5. ASSUME NEW q, q # o PROVE q \in Referring(objects', b) <=> q \in Referring(objects, b)
  BY <1>1, <1>2, <1>5 DEF Referring, LiveObjects
<1>6. o \in Referring(objects', b) <=> b \in Blobs_(obj)
  BY <1>1, <1>2 DEF Referring, LiveObjects
<1>7. Referring(objects', b) =
        IF b \in Blobs_(obj) THEN Referring(objects, b) \cup {o} ELSE Referring(objects, b)
  <2>1. CASE b \in Blobs_(obj)
    <3>1. Referring(objects', b) = Referring(objects, b) \cup {o}
      BY <1>5, <1>6, <2>1
    <3> QED BY <2>1, <3>1
  <2>2. CASE b \notin Blobs_(obj)
    <3>1. ASSUME NEW q PROVE q \in Referring(objects', b) <=> q \in Referring(objects, b)
      <4>1. CASE q = o
        BY <1>3, <1>6, <2>2, <4>1
      <4> QED BY <1>5, <4>1
    <3>2. Referring(objects', b) = Referring(objects, b)
      BY <3>1
    <3> QED BY <2>2, <3>2
  <2> QED BY <2>1, <2>2
<1>8. Cardinality(Referring(objects, b) \cup {o}) = Cardinality(Referring(objects, b)) + 1
  BY <1>3, <1>4, FS_AddElement
<1> QED BY <1>7, <1>8

LEMMA PushMigrated ==
  ASSUME MigrationInv, NEW p \in Processes, NEW o \in New, NEW b \in Blobs,
         NEW extra \in SUBSET Blobs, Push(p, o, b, extra)
  PROVE  MigrationInv'
<1> DEFINE obj == [blob |-> b, extra |-> extra, deleted |-> FALSE,
                   charged |-> 1 + Cardinality(extra)]
<1>1. /\ objects[o] = Null /\ objects' = [objects EXCEPT ![o] = obj]
      /\ UNCHANGED <<applied, users, cols, open, repeated>>
  BY DEF Push
<1>2. Cardinality(extra) \in Nat
  BY MigrationAssumption, FS_Subset, FS_CardinalityType
<1>3. obj \in ObjectRow /\ ~obj.deleted /\ Blobs_(obj) = {b} \cup extra
      /\ obj.charged = 1 + Cardinality(obj.extra)
  BY <1>2 DEF ObjectRow, Blobs_
<1> HIDE DEF obj
<1>4. /\ objects \in [Old \cup New -> ObjectRow \cup {Null}]
      /\ 2 \in applied => refcount = Recount
      /\ \A q \in New : objects[q] # Null /\ ~repeated =>
           objects[q].charged = 1 + Cardinality(objects[q].extra)
      /\ \A q \in New : objects[q] # Null => 6 \in applied
      /\ VersionsInv
  BY DEF MigrationInv, MigratedSound, CountsMigrated
<1>5. 6 \in applied
  <2>1. open[p] \in 1..7 /\ Later(open[p]) = {} /\ \A m \in Migrations : m <= open[p] => m \in applied
    BY <1>4 DEF Push, IsOpen, VersionsInv
  <2> QED BY <2>1 DEF Later, Migrations
<1>6. 2 \in applied => refcount' = Recount'
  <2>1. \A c \in Blobs : Cardinality(Referring(objects', c)) =
          IF c \in {b} \cup extra THEN Cardinality(Referring(objects, c)) + 1
          ELSE Cardinality(Referring(objects, c))
    BY <1>1, <1>3, PushCounts
  <2>2. refcount' = [c \in Blobs |-> IF c \in {b} \cup extra THEN refcount[c] + 1 ELSE refcount[c]]
    BY DEF Push
  <2> QED BY <1>4, <2>1, <2>2 DEF Recount
<1>7. /\ objects' \in [Old \cup New -> ObjectRow \cup {Null}]
      /\ \A q \in New : objects'[q] # Null => 6 \in applied
      /\ \A q \in New : objects'[q] # Null /\ ~repeated =>
           objects'[q].charged = 1 + Cardinality(objects'[q].extra)
  <2>1. ASSUME NEW q \in New PROVE objects'[q] = IF q = o THEN obj ELSE objects[q]
    BY <1>1, <1>4
  <2> QED BY <1>1, <1>3, <1>4, <1>5, <2>1
<1>8. CountsMigrated'
  BY <1>1, <1>6, <1>7 DEF CountsMigrated
<1>9. VersionsInv' /\ ColsTyped' /\ TreeMigrated'
  BY <1>1 DEF MigrationInv, VersionsInv, ColsTyped, MigratedSound, TreeMigrated, Siblings
<1> QED BY <1>1, <1>7, <1>8, <1>9 DEF MigrationInv, MigratedSound

\* Opening the data, or giving up, concerns one program.
LEMMA OpensMigrated ==
  ASSUME MigrationInv, NEW p \in Processes, Opens(p) \/ Fails(p)
  PROVE  MigrationInv'
<1>1. /\ UNCHANGED <<applied, users, cols, objects, refcount, repeated>>
      /\ open' = [open EXCEPT ![p] = Version] \/ open' = [open EXCEPT ![p] = Null]
  BY DEF Opens, Fails
<1>2. VersionsInv
  BY DEF MigrationInv
<1>3. Version \in 1..7 /\ \A m \in Migrations : m <= Version => m \in applied
  BY <1>2, LastVersion DEF VersionsInv, Migrations
<1>4. VersionsInv'
  BY <1>1, <1>2, <1>3 DEF VersionsInv
<1>5. ColsTyped' /\ TreeMigrated' /\ CountsMigrated'
  BY <1>1 DEF MigrationInv, ColsTyped, MigratedSound, TreeMigrated, Siblings, CountsMigrated,
              Recount, Referring, LiveObjects
<1> QED BY <1>1, <1>4, <1>5 DEF MigrationInv, MigratedSound

\* Charging every object what it was thought to weigh moves no count.
LEMMA ChargeCounts ==
  ASSUME MigrationInv, MigrateV6
  PROVE  /\ objects' \in [Old \cup New -> ObjectRow \cup {Null}]
         /\ \A o \in New : objects'[o] # Null => objects[o] # Null
         /\ 2 \in applied => refcount' = Recount'
<1>1. objects \in [Old \cup New -> ObjectRow \cup {Null}] /\ (2 \in applied => refcount = Recount)
  BY DEF MigrationInv, MigratedSound, CountsMigrated
<1>2. ASSUME NEW o \in Old \cup New
      PROVE  /\ objects'[o] = Null <=> objects[o] = Null
             /\ objects[o] # Null => /\ objects'[o] \in ObjectRow
                                     /\ objects'[o].deleted = objects[o].deleted
                                     /\ Blobs_(objects'[o]) = Blobs_(objects[o])
  <2>1. objects'[o] = IF objects[o] = Null THEN Null ELSE [objects[o] EXCEPT !.charged = 1]
    BY <1>1 DEF MigrateV6
  <2>2. ASSUME objects[o] # Null
        PROVE  /\ objects'[o] \in ObjectRow /\ objects'[o].deleted = objects[o].deleted
               /\ objects'[o].blob = objects[o].blob /\ objects'[o].extra = objects[o].extra
    BY <1>1, <2>1, <2>2 DEF ObjectRow
  <2> QED BY <2>1, <2>2, MigrationAssumption DEF Blobs_
<1>3. DOMAIN objects' = Old \cup New /\ DOMAIN objects = Old \cup New
  BY <1>1 DEF MigrateV6
<1>4. objects' \in [Old \cup New -> ObjectRow \cup {Null}]
  <2>1. objects' = [o \in DOMAIN objects' |-> objects'[o]]
    BY DEF MigrateV6
  <2> QED BY <1>2, <1>3, <2>1
<1>5. ASSUME NEW b PROVE Referring(objects', b) = Referring(objects, b)
  BY <1>2, <1>3 DEF Referring, LiveObjects
<1>6. refcount' = refcount
  BY DEF MigrateV6
<1>7. Recount' = Recount
  BY <1>5 DEF Recount
<1> QED BY <1>1, <1>2, <1>4, <1>6, <1>7

\* A migration leaves what the next one relies on.
LEMMA MigrateMigrated ==
  ASSUME MigrationInv, NEW p \in Processes, Migrate(p)
  PROVE  MigrationInv'
<1> DEFINE v == Min(Later(open[p]))
<1>1. /\ Up(v) /\ applied' = applied \cup {v} /\ repeated' = (repeated \/ v \in applied)
      /\ open' = [open EXCEPT ![p] = v]
  BY DEF Migrate
<1>2. /\ VersionsInv /\ ColsTyped /\ TreeMigrated /\ CountsMigrated
      /\ objects \in [Old \cup New -> ObjectRow \cup {Null}]
      /\ 2 \in applied <=> Owner \in users
      /\ 2 \notin applied => \A c \in Cols : cols[c].name = 0
      /\ \A o \in New : objects[o] # Null => 6 \in applied
  BY DEF MigrationInv, MigratedSound
<1>3. open[p] \in 1..7 /\ open[p] # Null /\ Later(open[p]) # {}
  BY <1>2 DEF Migrate, VersionsInv
<1>4. /\ v \in Migrations /\ open[p] < v /\ \A m \in Migrations : m < v => m <= open[p]
  BY <1>3, NextVersion
<1> HIDE DEF v
<1>5. VersionsInv'
  <2>1. ASSUME NEW m \in Migrations, m <= v PROVE m \in applied'
    <3>1. m = v \/ m < v
      BY <1>4, <2>1 DEF Migrations
    <3>2. m < v => m \in applied
      BY <1>2, <1>3, <1>4 DEF VersionsInv
    <3> QED BY <1>1, <3>1, <3>2
  <2>2. applied' \subseteq Migrations /\ repeated' \in BOOLEAN
    BY <1>1, <1>2, <1>4 DEF VersionsInv
  <2>3. \A m \in applied', n \in Migrations : n <= m => n \in applied'
    BY <1>1, <1>2, <2>1 DEF VersionsInv
  <2>4. ASSUME NEW q \in Processes
        PROVE  /\ open'[q] \in 1..7 \cup {Null}
               /\ open'[q] # Null => \A m \in Migrations : m <= open'[q] => m \in applied'
    <3>1. v \in 1..7
      BY <1>4 DEF Migrations
    <3>2. open'[q] = IF q = p THEN v ELSE open[q]
      BY <1>1, <1>2 DEF VersionsInv
    <3> QED BY <1>1, <1>2, <2>1, <3>1, <3>2 DEF VersionsInv
  <2>5. open' \in [Processes -> 1..7 \cup {Null}]
    <3>1. v \in 1..7
      BY <1>4 DEF Migrations
    <3> QED BY <1>1, <1>2, <3>1 DEF VersionsInv
  <2> QED BY <2>2, <2>3, <2>4, <2>5 DEF VersionsInv
<1>6. CASE v = 2
  <2>1. MigrateV2
    BY <1>1, <1>6 DEF Up
  <2>2. /\ 2 \notin applied /\ 2 \in applied' /\ objects' = objects /\ refcount' = Recount
    BY <1>1, <1>2, <1>6, <2>1 DEF MigrateV2
  <2>3. TreeMigrated' /\ ColsTyped' /\ Owner \in users'
    BY <2>1, <2>2, MultiUserTree
  <2>4. Recount' = Recount
    BY <2>2 DEF Recount
  <2>5. CountsMigrated'
    BY <1>1, <1>2, <2>2, <2>4 DEF CountsMigrated
  <2> QED BY <1>1, <1>2, <1>5, <2>2, <2>3, <2>5 DEF MigrationInv, MigratedSound
<1>7. CASE v = 6
  <2>1. MigrateV6 /\ UNCHANGED <<users, cols>>
    BY <1>1, <1>7 DEF Up, MigrateV6
  <2>2. /\ objects' \in [Old \cup New -> ObjectRow \cup {Null}]
        /\ \A o \in New : objects'[o] # Null => objects[o] # Null
        /\ 2 \in applied => refcount' = Recount'
    BY <2>1, ChargeCounts
  <2>3. ColsTyped' /\ TreeMigrated'
    BY <1>1, <1>2, <1>7, <2>1 DEF ColsTyped, TreeMigrated, Siblings
  <2>4. CountsMigrated'
    <3>1. 2 \in applied' => refcount' = Recount'
      BY <1>1, <1>7, <2>2
    <3>2. \A o \in New : objects'[o] = Null \/ repeated'
      BY <1>1, <1>2, <1>7, <2>2
    <3> QED BY <3>1, <3>2 DEF CountsMigrated
  <2> QED BY <1>1, <1>2, <1>5, <1>7, <2>1, <2>2, <2>3, <2>4 DEF MigrationInv, MigratedSound
<1>8. CASE v # 2 /\ v # 6
  <2>1. UNCHANGED <<users, cols, objects, refcount>>
    BY <1>1, <1>8 DEF Up
  <2>2. ColsTyped' /\ TreeMigrated'
    BY <1>1, <1>2, <1>8, <2>1 DEF ColsTyped, TreeMigrated, Siblings
  <2>3. CountsMigrated'
    BY <1>1, <1>2, <1>8, <2>1 DEF CountsMigrated, Recount
  <2> QED BY <1>1, <1>2, <1>5, <1>8, <2>1, <2>2, <2>3 DEF MigrationInv, MigratedSound
<1> QED BY <1>6, <1>7, <1>8

LEMMA MigrationBegins == MigrationInit => MigrationInv
<1> SUFFICES ASSUME MigrationInit PROVE MigrationInv
  OBVIOUS
<1>1. applied = {} /\ users = {} /\ open = [p \in Processes |-> Null] /\ repeated = FALSE
  BY DEF MigrationInit
<1>2. ColsTyped /\ \A c \in Cols : cols[c].name = 0
  <2>1. PICK parent \in [Cols -> Cols \cup {Null}], deleted \in [Cols -> BOOLEAN] :
          cols = OldTree(parent, deleted)
    BY DEF MigrationInit
  <2> QED BY <2>1 DEF ColsTyped, OldTree
<1>3. /\ objects \in [Old \cup New -> ObjectRow \cup {Null}]
      /\ \A o \in New : objects[o] = Null
  <2>1. PICK b \in Blobs, extra \in SUBSET Blobs, deleted \in BOOLEAN :
          objects = OldObjects(b, extra, deleted)
    BY DEF MigrationInit
  <2>2. [blob |-> b, extra |-> extra, deleted |-> deleted, charged |-> 0] \in ObjectRow
    BY DEF ObjectRow
  <2> QED BY <2>1, <2>2 DEF OldObjects
<1>4. VersionsInv
  BY <1>1 DEF VersionsInv
<1>5. TreeMigrated /\ CountsMigrated
  BY <1>1, <1>3 DEF TreeMigrated, CountsMigrated
<1> QED BY <1>1, <1>2, <1>3, <1>4, <1>5 DEF MigrationInv, MigratedSound

\* However many programs open the data at once, die and try again: once the
\* multi-user migration is made the tree is owned, rooted and without a name
\* twice, and every blob is counted exactly (migrate.go).
THEOREM MigratedStaysSound == MigrationSpec => []MigratedSound
<1>1. ASSUME MigrationInv, [MigrationNext]_migrationVars PROVE MigrationInv'
  <2>1. CASE UNCHANGED migrationVars
    BY <1>1, <2>1 DEF migrationVars, MigrationInv, VersionsInv, ColsTyped, MigratedSound,
                      TreeMigrated, Siblings, CountsMigrated, Recount
  <2>2. CASE MigrationNext
    <3>1. PICK p \in Processes :
            \/ Opens(p) \/ Migrate(p) \/ Fails(p)
            \/ \E o \in New, b \in Blobs, extra \in SUBSET Blobs :
                 b \notin extra /\ Push(p, o, b, extra)
      BY <2>2 DEF MigrationNext
    <3> QED BY <1>1, <3>1, OpensMigrated, MigrateMigrated, PushMigrated
  <2> QED BY <1>1, <2>1, <2>2
<1>2. MigrationInv => MigratedSound
  BY DEF MigrationInv
<1> QED BY <1>1, <1>2, MigrationBegins, PTL DEF MigrationSpec

-----------------------------------------------------------------------------
(* The configuration and the backups the server makes by itself.           *)

Saving == [body : Body, base : Body]
SettingsTyped ==
  /\ file \in [torn : BOOLEAN, body : Body]
  /\ server \in Body \cup {Off} /\ page \in Body \cup {Off}
  /\ command \in [cfg : Body, base : Body] \cup {Off}
  /\ job \in Jobs \cup {Off}
  /\ saving \in [Writers -> Saving \cup {Off}]
  /\ clock \in 1..MaxClock
  /\ used \in [saves : Nat, kills : Nat, back : Nat]

\* What is saved is what was read, but for what its writer is to change.
JobInv ==
  /\ saving["server"] # Off =>
       /\ job # Off /\ job.step = "save"
       /\ saving["server"].body = job.cfg /\ saving["server"].base = job.base
  /\ job # Off =>
       /\ server # Off
       /\ ~job.torn =>
            /\ job.cfg.public = job.base.public /\ job.cfg.tls = job.base.tls
            /\ job.cfg.on = job.base.on /\ job.cfg.keep = job.base.keep
CommandInv ==
  /\ command # Off => command.cfg = command.base
  /\ saving["command"] # Off =>
       /\ saving["command"].body.keep = saving["command"].base.keep
       /\ saving["command"].body.last = saving["command"].base.last

\* Until the clock is set back, archives are made in the order of their names.
Newest(as, a) == a \in as /\ \A b \in as : b.made <= a.made
ArchivesOK(as, time) ==
  /\ IsFiniteSet(as) /\ as \subseteq [at : Nat, made : Nat]
  /\ \A a \in as : a.at <= time
  /\ \A a, b \in as : a.made <= b.made => a.at <= b.at
  /\ as = {} \/ \E a \in as : Newest(as, a)
ArchivesInv == used.back = 0 => ArchivesOK(archives, clock)

SettingsInv == SettingsTyped /\ JobInv /\ CommandInv /\ ArchivesInv

LEMMA SaveBegins ==
  ASSUME SettingsTyped, NEW w \in Writers, NEW body \in Body, NEW base \in Body,
         SaveBegin(w, body, base)
  PROVE  /\ file' \in [torn : BOOLEAN, body : Body]
         /\ saving' \in [Writers -> Saving \cup {Off}]
         /\ saving'[w] # Off /\ saving'[w].body = body /\ saving'[w].base = base
         /\ \A v \in Writers \ {w} : saving'[v] = saving[v]
         /\ used' \in [saves : Nat, kills : Nat, back : Nat] /\ used'.back = used.back
<1>1. used \in [saves : Nat, kills : Nat, back : Nat] /\ used' = [used EXCEPT !["saves"] = @ + 1]
  BY DEF SettingsTyped, SaveBegin, Uses
<1>2. used' \in [saves : Nat, kills : Nat, back : Nat] /\ used'.back = used.back
  BY <1>1
<1>3. file' = [file EXCEPT !.torn = TRUE] /\ file \in [torn : BOOLEAN, body : Body]
  BY DEF SettingsTyped, SaveBegin
<1>4. file' \in [torn : BOOLEAN, body : Body]
  BY <1>3
<1> DEFINE this == [body |-> body, base |-> base]
<1>5. this \in Saving /\ this # Off /\ this.body = body /\ this.base = base
  BY SettingsAssumption DEF Saving
<1>6. saving' = [saving EXCEPT ![w] = this] /\ saving \in [Writers -> Saving \cup {Off}]
  BY DEF SettingsTyped, SaveBegin
<1> HIDE DEF this
<1> QED BY <1>2, <1>4, <1>5, <1>6

LEMMA SaveEnds ==
  ASSUME SettingsTyped, NEW w \in Writers, SaveEnd(w)
  PROVE  /\ file' \in [torn : BOOLEAN, body : Body] /\ file'.body = saving[w].body
         /\ saving[w] \in Saving /\ saving[w] # Off /\ saving'[w] = Off
         /\ saving' \in [Writers -> Saving \cup {Off}]
         /\ \A v \in Writers \ {w} : saving'[v] = saving[v]
         /\ used' = used
<1>1. /\ saving \in [Writers -> Saving \cup {Off}] /\ saving[w] # Off
      /\ saving' = [saving EXCEPT ![w] = Off] /\ used' = used
  BY DEF SettingsTyped, SaveEnd
<1>2. saving[w] \in Saving /\ saving[w].body \in Body
  BY <1>1 DEF Saving
<1>3. PICK torn \in BOOLEAN : file' = [torn |-> torn, body |-> saving[w].body]
  BY DEF SaveEnd
<1> QED BY <1>1, <1>2, <1>3

\* What a writer is about to save is a configuration.
LEMMA CommandSavesBody ==
  ASSUME SettingsTyped, CommandInv, CommandSaves
  PROVE  /\ \E new \in Body : /\ SaveBegin("command", new, command.base)
                              /\ new.keep = command.base.keep /\ new.last = command.base.last
         /\ command \in [cfg : Body, base : Body] /\ command.base \in Body
         /\ UNCHANGED <<server, page, job, command, archives, clock>>
<1>1. PICK v \in Values : \E new \in {StepReachability(v), EnableAutoBackup, RunTLS(v)} :
        new # command.cfg /\ SaveBegin("command", new, command.base)
  BY DEF CommandSaves
<1>2. /\ command \in [cfg : Body, base : Body] /\ command.base \in Body
      /\ command.cfg = command.base /\ command.cfg \in Body
      /\ UNCHANGED <<server, page, job, command, archives, clock>>
  BY DEF CommandSaves, SettingsTyped, CommandInv
<1> DEFINE cfg == command.cfg
<1>3. /\ [cfg EXCEPT !.public = v] \in Body /\ [cfg EXCEPT !.public = v].keep = cfg.keep
      /\ [cfg EXCEPT !.public = v].last = cfg.last
  BY <1>2 DEF Body
<1>4. /\ [cfg EXCEPT !.on = TRUE] \in Body /\ [cfg EXCEPT !.on = TRUE].keep = cfg.keep
      /\ [cfg EXCEPT !.on = TRUE].last = cfg.last
  BY <1>2 DEF Body
<1>5. /\ [cfg EXCEPT !.tls = v] \in Body /\ [cfg EXCEPT !.tls = v].keep = cfg.keep
      /\ [cfg EXCEPT !.tls = v].last = cfg.last
  BY <1>2 DEF Body
<1>6. PICK new \in {StepReachability(v), EnableAutoBackup, RunTLS(v)} :
        SaveBegin("command", new, command.base)
  BY <1>1
<1>7. new \in Body /\ new.keep = cfg.keep /\ new.last = cfg.last
  BY <1>3, <1>4, <1>5, <1>6 DEF StepReachability, EnableAutoBackup, RunTLS
<1> QED BY <1>2, <1>6, <1>7

LEMMA PageSavesBody ==
  ASSUME SettingsTyped, PageSaves
  PROVE  /\ \E new \in Body : SaveBegin("page", new, page)
         /\ page \in Body /\ UNCHANGED <<server, page, job, command, archives, clock>>
<1>1. PICK v \in Values, on \in BOOLEAN, keep \in Keeps :
        \E new \in {ConfigPut(on, keep), TLSRegen(v)} :
          new # page /\ SaveBegin("page", new, page)
  BY DEF PageSaves
<1>2. page \in Body /\ UNCHANGED <<server, page, job, command, archives, clock>>
  BY DEF PageSaves, SettingsTyped
<1>3. ConfigPut(on, keep) \in Body
  BY <1>2 DEF ConfigPut, Body
<1>4. TLSRegen(v) \in Body
  BY <1>2 DEF TLSRegen, Body
<1> QED BY <1>1, <1>2, <1>3, <1>4

\* Pruning leaves the newest archive, unless none is to be left.
LEMMA PruneLeaves ==
  ASSUME ArchivesOK(archives, clock), NEW keep \in Nat
  PROVE  /\ ArchivesOK(Pruned(keep), clock)
         /\ keep # 0 => \A a \in archives : Newest(archives, a) => a \in Pruned(keep)
<1>1. /\ IsFiniteSet(archives) /\ archives \subseteq [at : Nat, made : Nat]
      /\ \A a, b \in archives : a.made <= b.made => a.at <= b.at
  BY DEF ArchivesOK
<1>2. Pruned(keep) \subseteq archives
  BY DEF Pruned
<1>3. IsFiniteSet(Pruned(keep))
  BY <1>1, <1>2, FS_Subset
<1>4. ASSUME NEW a \in archives, Newest(archives, a), keep # 0 PROVE a \in Pruned(keep)
  <2>1. \A b \in archives : ~Newer(b, a)
    BY <1>1, <1>4 DEF Newest, Newer
  <2>2. {b \in archives : Newer(b, a)} = {}
    BY <2>1
  <2>3. Cardinality({b \in archives : Newer(b, a)}) < keep
    BY <1>4, <2>2, FS_EmptySet
  <2> QED BY <2>3 DEF Pruned
<1>5. ASSUME keep = 0 PROVE Pruned(keep) = {}
  <2>1. ASSUME NEW a \in archives PROVE a \notin Pruned(keep)
    <3>1. IsFiniteSet({b \in archives : Newer(b, a)})
      BY <1>1, FS_Subset
    <3>2. Cardinality({b \in archives : Newer(b, a)}) \in Nat
      BY <3>1, FS_CardinalityType
    <3> QED BY <1>5, <3>2 DEF Pruned
  <2> QED BY <1>2, <2>1
<1>6. Pruned(keep) = {} \/ \E a \in Pruned(keep) : Newest(Pruned(keep), a)
  BY <1>2, <1>4, <1>5 DEF ArchivesOK, Newest
<1>7. ArchivesOK(Pruned(keep), clock)
  BY <1>2, <1>3, <1>6 DEF ArchivesOK
<1> QED BY <1>4, <1>7

\* The archive that is made is the newest, by its number and by its name.
LEMMA ArchiveMade ==
  ASSUME ArchivesOK(archives, clock), clock \in Nat,
         archives' = archives \cup
           {[at |-> clock, made |-> 1 + Max({0} \cup {a.made : a \in archives})]}
  PROVE  ArchivesOK(archives', clock)
<1> DEFINE mades == {0} \cup {a.made : a \in archives}
           last == Max(mades)
           new == [at |-> clock, made |-> 1 + last]
<1>1. /\ IsFiniteSet(archives) /\ archives \subseteq [at : Nat, made : Nat]
      /\ \A a \in archives : a.at <= clock
      /\ \A a, b \in archives : a.made <= b.made => a.at <= b.at
      /\ archives = {} \/ \E a \in archives : Newest(archives, a)
  BY DEF ArchivesOK
<1>2. \E m \in mades : \A n \in mades : m >= n
  <2>1. CASE archives = {}
    BY <2>1
  <2>2. CASE \E a \in archives : Newest(archives, a)
    <3>1. PICK a \in archives : Newest(archives, a)
      BY <2>2
    <3>2. a.made \in mades /\ \A n \in mades : a.made >= n
      BY <1>1, <3>1 DEF Newest
    <3> QED BY <3>2
  <2> QED BY <1>1, <2>1, <2>2
<1>3. last \in mades /\ \A n \in mades : last >= n
  BY <1>2 DEF Max
<1>4. last \in Nat /\ \A a \in archives : a.made <= last
  BY <1>1, <1>3
<1> HIDE DEF last
<1>5. new \in [at : Nat, made : Nat] /\ new.at = clock /\ new.made = 1 + last
  BY <1>4
<1> HIDE DEF new
<1>6. archives' = archives \cup {new}
  BY DEF new, last
<1>7. IsFiniteSet(archives \cup {new})
  BY <1>1, FS_AddElement
<1>8. ASSUME NEW a \in archives', NEW b \in archives', a.made <= b.made PROVE a.at <= b.at
  BY <1>1, <1>4, <1>5, <1>6, <1>8
<1>9. Newest(archives', new)
  BY <1>1, <1>4, <1>5, <1>6 DEF Newest
<1>10. archives' \subseteq [at : Nat, made : Nat] /\ \A a \in archives' : a.at <= clock
  BY <1>1, <1>5, <1>6
<1>11. IsFiniteSet(archives') /\ \E a \in archives' : Newest(archives', a)
  BY <1>6, <1>7, <1>9
<1> QED BY <1>8, <1>10, <1>11 DEF ArchivesOK

\* Steps that concern neither the clock nor the archives.
LEMMA ArchivesRest ==
  ASSUME ArchivesInv, UNCHANGED <<archives, clock>>, used'.back = used.back
  PROVE  ArchivesInv'
BY DEF ArchivesInv

\* The commands and the administration page.
LEMMA CommandsKeep ==
  ASSUME SettingsInv,
         \/ CommandReads \/ CommandSaves \/ CommandEnds \/ CommandFails
         \/ PageStarts \/ PageSaves \/ PageSaved
  PROVE  SettingsInv'
<1>1. SettingsTyped /\ JobInv /\ CommandInv /\ ArchivesInv
  BY DEF SettingsInv
<1>2. CASE CommandReads
  <2> DEFINE new == [cfg |-> file.body, base |-> file.body]
  <2>1. /\ file.body \in Body /\ command' = new
        /\ UNCHANGED <<file, server, page, job, saving, archives, clock, used>>
    BY <1>1, <1>2 DEF CommandReads, SettingsTyped
  <2>2. new \in [cfg : Body, base : Body] /\ new.cfg = new.base
    BY <2>1
  <2> HIDE DEF new
  <2>3. SettingsTyped'
    BY <1>1, <2>1, <2>2 DEF SettingsTyped
  <2>4. JobInv' /\ CommandInv' /\ ArchivesInv'
    BY <1>1, <2>1, <2>2, ArchivesRest DEF JobInv, CommandInv
  <2> QED BY <2>3, <2>4 DEF SettingsInv
<1>3. CASE CommandSaves
  <2>1. /\ command.base \in Body /\ UNCHANGED <<server, page, job, command, archives, clock>>
    BY <1>1, <1>3, CommandSavesBody
  <2>2. PICK new \in Body : /\ SaveBegin("command", new, command.base)
                            /\ new.keep = command.base.keep /\ new.last = command.base.last
    BY <1>1, <1>3, CommandSavesBody
  <2>3. /\ file' \in [torn : BOOLEAN, body : Body] /\ saving' \in [Writers -> Saving \cup {Off}]
        /\ saving'["command"].body = new /\ saving'["command"].base = command.base
        /\ saving'["server"] = saving["server"]
        /\ used' \in [saves : Nat, kills : Nat, back : Nat] /\ used'.back = used.back
    BY <1>1, <2>1, <2>2, SaveBegins DEF Writers
  <2>4. SettingsTyped'
    BY <1>1, <2>1, <2>3 DEF SettingsTyped
  <2>5. JobInv' /\ CommandInv' /\ ArchivesInv'
    BY <1>1, <2>1, <2>2, <2>3, ArchivesRest DEF JobInv, CommandInv
  <2> QED BY <2>4, <2>5 DEF SettingsInv
<1>4. CASE CommandEnds
  <2>1. /\ SaveEnd("command") /\ command' = Off
        /\ UNCHANGED <<server, page, job, archives, clock>>
    BY <1>4 DEF CommandEnds
  <2>2. /\ file' \in [torn : BOOLEAN, body : Body] /\ saving' \in [Writers -> Saving \cup {Off}]
        /\ saving'["command"] = Off /\ saving'["server"] = saving["server"] /\ used' = used
    BY <1>1, <2>1, SaveEnds DEF Writers
  <2>3. SettingsTyped'
    BY <1>1, <2>1, <2>2 DEF SettingsTyped
  <2>4. JobInv' /\ CommandInv' /\ ArchivesInv'
    BY <1>1, <2>1, <2>2, ArchivesRest DEF JobInv, CommandInv
  <2> QED BY <2>3, <2>4 DEF SettingsInv
<1>5. CASE CommandFails
  <2>1. command' = Off /\ UNCHANGED <<file, server, page, job, saving, archives, clock, used>>
    BY <1>5 DEF CommandFails
  <2>2. SettingsTyped'
    BY <1>1, <2>1 DEF SettingsTyped
  <2>3. JobInv' /\ CommandInv' /\ ArchivesInv'
    BY <1>1, <2>1, ArchivesRest DEF JobInv, CommandInv
  <2> QED BY <2>2, <2>3 DEF SettingsInv
<1>6. CASE PageStarts
  <2>1. page' = file.body /\ UNCHANGED <<file, server, job, command, saving, archives, clock, used>>
    BY <1>6 DEF PageStarts
  <2>2. SettingsTyped'
    BY <1>1, <2>1 DEF SettingsTyped
  <2>3. JobInv' /\ CommandInv' /\ ArchivesInv'
    BY <1>1, <2>1, ArchivesRest DEF JobInv, CommandInv
  <2> QED BY <2>2, <2>3 DEF SettingsInv
<1>7. CASE PageSaves
  <2>1. page \in Body /\ UNCHANGED <<server, page, job, command, archives, clock>>
    BY <1>1, <1>7, PageSavesBody
  <2>2. PICK new \in Body : SaveBegin("page", new, page)
    BY <1>1, <1>7, PageSavesBody
  <2>3. /\ file' \in [torn : BOOLEAN, body : Body] /\ saving' \in [Writers -> Saving \cup {Off}]
        /\ saving'["command"] = saving["command"] /\ saving'["server"] = saving["server"]
        /\ used' \in [saves : Nat, kills : Nat, back : Nat] /\ used'.back = used.back
    BY <1>1, <2>1, <2>2, SaveBegins DEF Writers
  <2>4. SettingsTyped'
    BY <1>1, <2>1, <2>3 DEF SettingsTyped
  <2>5. JobInv' /\ CommandInv' /\ ArchivesInv'
    BY <1>1, <2>1, <2>3, ArchivesRest DEF JobInv, CommandInv
  <2> QED BY <2>4, <2>5 DEF SettingsInv
<1>8. CASE PageSaved
  <2>1. /\ SaveEnd("page") /\ page' = saving["page"].body
        /\ UNCHANGED <<server, job, command, archives, clock>>
    BY <1>8 DEF PageSaved
  <2>2. /\ file' \in [torn : BOOLEAN, body : Body] /\ saving' \in [Writers -> Saving \cup {Off}]
        /\ saving'["command"] = saving["command"] /\ saving'["server"] = saving["server"]
        /\ saving["page"] \in Saving /\ used' = used
    BY <1>1, <2>1, SaveEnds DEF Writers
  <2>3. SettingsTyped'
    BY <1>1, <2>1, <2>2 DEF SettingsTyped, Saving
  <2>4. JobInv' /\ CommandInv' /\ ArchivesInv'
    BY <1>1, <2>1, <2>2, ArchivesRest DEF JobInv, CommandInv
  <2> QED BY <2>3, <2>4 DEF SettingsInv
<1> QED BY <1>2, <1>3, <1>4, <1>5, <1>6, <1>7, <1>8

\* A step of the job that changes no more than its progress, r, and the archives.
LEMMA JobMoves ==
  ASSUME SettingsInv, job # Off, saving["server"] = Off, NEW r \in Jobs, job' = r,
         r.torn = job.torn, r.base = job.base,
         /\ r.cfg.public = job.cfg.public /\ r.cfg.tls = job.cfg.tls
         /\ r.cfg.on = job.cfg.on /\ r.cfg.keep = job.cfg.keep,
         UNCHANGED <<file, server, page, command, saving, clock, used>>, ArchivesInv'
  PROVE  SettingsInv'
<1>1. SettingsTyped /\ JobInv /\ CommandInv
  BY DEF SettingsInv
<1>2. SettingsTyped'
  BY <1>1 DEF SettingsTyped
<1>3. JobInv' /\ CommandInv'
  BY <1>1 DEF JobInv, CommandInv
<1> QED BY <1>2, <1>3 DEF SettingsInv

\* The job is where it says, and has not begun to save before it does.
LEMMA JobGoesOn ==
  ASSUME SettingsInv, NEW step \in {"prune", "create", "prune again"}, JobAt(step)
  PROVE  /\ job \in Jobs /\ job # Off /\ saving["server"] = Off /\ job.cfg \in Body
         /\ \A next \in {"create", "prune again", "save"} :
              /\ [job EXCEPT !.step = next] \in Jobs
              /\ [job EXCEPT !.step = next].cfg = job.cfg
              /\ [job EXCEPT !.step = next].torn = job.torn
              /\ [job EXCEPT !.step = next].base = job.base
<1>1. job \in Jobs /\ job # Off /\ job.step = step /\ JobInv
  BY DEF JobAt, SettingsInv, SettingsTyped
<1>2. saving["server"] = Off
  BY <1>1 DEF JobInv
<1>3. ASSUME NEW next \in {"create", "prune again", "save"}
      PROVE  /\ [job EXCEPT !.step = next] \in Jobs
             /\ [job EXCEPT !.step = next].cfg = job.cfg
             /\ [job EXCEPT !.step = next].torn = job.torn
             /\ [job EXCEPT !.step = next].base = job.base
  BY <1>1 DEF Jobs
<1>4. job.cfg \in Body
  BY <1>1 DEF Jobs
<1> QED BY <1>1, <1>2, <1>3, <1>4

\* Of a backup, up to the time of its making.
LEMMA JobKeeps ==
  ASSUME SettingsInv, NoPassphrase \/ PruneFirst \/ MakeArchive \/ ArchiveFails \/ PruneAgain
  PROVE  SettingsInv'
<1>1. SettingsTyped /\ ArchivesInv /\ clock \in Nat
  BY DEF SettingsInv, SettingsTyped
<1>2. CASE NoPassphrase
  <2>1. /\ JobAt("prune") /\ job' = [job EXCEPT !.step = "save"]
        /\ UNCHANGED <<file, server, page, command, saving, archives, clock, used>>
    BY <1>2 DEF NoPassphrase, Does
  <2>2. ArchivesInv'
    BY <1>1, <2>1 DEF ArchivesInv
  <2> QED BY <2>1, <2>2, JobGoesOn, JobMoves
<1>3. CASE PruneFirst
  <2>1. /\ JobAt("prune") /\ job' = [job EXCEPT !.step = "create"]
        /\ archives' = Pruned(job.cfg.keep - 1)
        /\ UNCHANGED <<file, server, page, command, saving, clock, used>>
    BY <1>3 DEF PruneFirst, Does
  <2>2. job.cfg \in Body
    BY <2>1, JobGoesOn
  <2>3. job.cfg.keep - 1 \in Nat
    <3>1. job.cfg.keep \in Keeps
      BY <2>2 DEF Body
    <3>2. job.cfg.keep \in Nat /\ job.cfg.keep # 0
      BY <3>1, SettingsAssumption
    <3> QED BY <3>2
  <2>4. ArchivesInv'
    BY <1>1, <2>1, <2>3, PruneLeaves DEF ArchivesInv
  <2> QED BY <2>1, <2>4, JobGoesOn, JobMoves
<1>4. CASE MakeArchive
  <2>1. /\ JobAt("create") /\ job' = [job EXCEPT !.step = "prune again"]
        /\ archives' = archives \cup
             {[at |-> clock, made |-> 1 + Max({0} \cup {a.made : a \in archives})]}
        /\ UNCHANGED <<file, server, page, command, saving, clock, used>>
    BY <1>4 DEF MakeArchive, Does
  <2>2. ArchivesInv'
    BY <1>1, <2>1, ArchiveMade DEF ArchivesInv
  <2> QED BY <2>1, <2>2, JobGoesOn, JobMoves
<1>5. CASE ArchiveFails
  <2>1. /\ JobAt("create") /\ job' = [job EXCEPT !.step = "save"]
        /\ UNCHANGED <<file, server, page, command, saving, archives, clock, used>>
    BY <1>5 DEF ArchiveFails, Does
  <2>2. ArchivesInv'
    BY <1>1, <2>1 DEF ArchivesInv
  <2> QED BY <2>1, <2>2, JobGoesOn, JobMoves
<1>6. CASE PruneAgain
  <2> DEFINE cfg == [job.cfg EXCEPT !.last = clock]
             r == [step |-> "save", cfg |-> cfg, torn |-> job.torn, base |-> job.base]
  <2>1. /\ JobAt("prune again") /\ job' = r /\ archives' = Pruned(job.cfg.keep)
        /\ UNCHANGED <<file, server, page, command, saving, clock, used>>
    BY <1>6 DEF PruneAgain
  <2>2. job \in Jobs /\ job # Off /\ saving["server"] = Off /\ job.cfg \in Body
    BY <2>1, JobGoesOn
  <2>3. job.cfg.keep \in Nat
    BY <2>2, SettingsAssumption DEF Body
  <2>4. ArchivesInv'
    BY <1>1, <2>1, <2>3, PruneLeaves DEF ArchivesInv
  <2>5. /\ cfg \in Body /\ cfg.public = job.cfg.public /\ cfg.tls = job.cfg.tls
        /\ cfg.on = job.cfg.on /\ cfg.keep = job.cfg.keep
    BY <1>1, <2>2, SettingsAssumption DEF Body, SettingsTyped
  <2> HIDE DEF cfg
  <2>6. r \in Jobs /\ r.torn = job.torn /\ r.base = job.base /\ r.cfg = cfg
    BY <2>2, <2>5 DEF Jobs
  <2> HIDE DEF r
  <2> QED BY <2>1, <2>2, <2>4, <2>5, <2>6, JobMoves
<1> QED BY <1>2, <1>3, <1>4, <1>5, <1>6

\* The server comes and goes, begins a backup, and saves what came of it.
LEMMA ServerLives ==
  ASSUME SettingsInv, ServerStarts \/ ServerDies \/ MaybeRun \/ JobSaves \/ JobEnds
  PROVE  SettingsInv'
<1>1. SettingsTyped /\ JobInv /\ CommandInv /\ ArchivesInv
  BY DEF SettingsInv
<1>2. CASE ServerStarts
  <2>1. /\ server = Off /\ server' = file.body
        /\ UNCHANGED <<file, page, job, command, saving, archives, clock, used>>
    BY <1>2 DEF ServerStarts
  <2>2. SettingsTyped'
    BY <1>1, <2>1 DEF SettingsTyped
  <2>3. JobInv' /\ CommandInv' /\ ArchivesInv'
    BY <1>1, <2>1, ArchivesRest DEF JobInv, CommandInv
  <2> QED BY <2>2, <2>3 DEF SettingsInv
<1>3. CASE ServerDies
  <2>1. /\ used' = [used EXCEPT !["kills"] = @ + 1] /\ server' = Off /\ job' = Off
        /\ saving' = [saving EXCEPT !["server"] = Off]
        /\ UNCHANGED <<file, page, command, archives, clock>>
    BY <1>3 DEF ServerDies, Uses
  <2>2. used' \in [saves : Nat, kills : Nat, back : Nat] /\ used'.back = used.back
    BY <1>1, <2>1 DEF SettingsTyped
  <2>3. /\ saving' \in [Writers -> Saving \cup {Off}] /\ saving'["server"] = Off
        /\ saving'["command"] = saving["command"]
    BY <1>1, <2>1 DEF SettingsTyped, Writers
  <2>4. SettingsTyped'
    BY <1>1, <2>1, <2>2, <2>3 DEF SettingsTyped
  <2>5. JobInv' /\ CommandInv' /\ ArchivesInv'
    BY <1>1, <2>1, <2>2, <2>3, ArchivesRest DEF JobInv, CommandInv
  <2> QED BY <2>4, <2>5 DEF SettingsInv
<1>4. CASE MaybeRun
  <2> DEFINE r == [step |-> "prune", cfg |-> Loaded, torn |-> file.torn, base |-> file.body]
  <2>1. /\ server # Off /\ job = Off /\ job' = r
        /\ UNCHANGED <<file, server, page, command, saving, archives, clock, used>>
    BY <1>4 DEF MaybeRun
  <2>2. /\ file.torn \in BOOLEAN /\ file.body \in Body /\ Loaded \in Body
        /\ ~file.torn => Loaded = file.body
    BY <1>1, <2>1 DEF Loaded, SettingsTyped
  <2>3. r \in Jobs /\ r.torn = file.torn /\ r.cfg = Loaded /\ r.base = file.body
    BY <2>2 DEF Jobs
  <2> HIDE DEF r
  <2>4. SettingsTyped'
    BY <1>1, <2>1, <2>3 DEF SettingsTyped
  <2>5. JobInv' /\ CommandInv' /\ ArchivesInv'
    BY <1>1, <2>1, <2>2, <2>3, ArchivesRest DEF JobInv, CommandInv
  <2> QED BY <2>4, <2>5 DEF SettingsInv
<1>5. CASE JobSaves
  <2>1. /\ JobAt("save") /\ SaveBegin("server", job.cfg, job.base)
        /\ UNCHANGED <<server, page, job, command, archives, clock>>
    BY <1>5 DEF JobSaves
  <2>2. job # Off /\ job.step = "save" /\ job.cfg \in Body /\ job.base \in Body
    BY <1>1, <2>1 DEF JobAt, SettingsTyped, Jobs
  <2>3. /\ file' \in [torn : BOOLEAN, body : Body] /\ saving' \in [Writers -> Saving \cup {Off}]
        /\ saving'["server"].body = job.cfg /\ saving'["server"].base = job.base
        /\ saving'["command"] = saving["command"]
        /\ used' \in [saves : Nat, kills : Nat, back : Nat] /\ used'.back = used.back
    BY <1>1, <2>1, <2>2, SaveBegins DEF Writers
  <2>4. SettingsTyped'
    BY <1>1, <2>1, <2>3 DEF SettingsTyped
  <2>5. JobInv' /\ CommandInv' /\ ArchivesInv'
    BY <1>1, <2>1, <2>2, <2>3, ArchivesRest DEF JobInv, CommandInv
  <2> QED BY <2>4, <2>5 DEF SettingsInv
<1>6. CASE JobEnds
  <2>1. /\ SaveEnd("server") /\ job' = Off
        /\ server' = [public |-> server.public, tls |-> server.tls,
                      on |-> job.cfg.on, keep |-> job.cfg.keep, last |-> job.cfg.last]
        /\ UNCHANGED <<page, command, archives, clock>>
    BY <1>6 DEF JobEnds
  <2>2. /\ file' \in [torn : BOOLEAN, body : Body] /\ saving' \in [Writers -> Saving \cup {Off}]
        /\ saving["server"] # Off /\ saving'["server"] = Off
        /\ saving'["command"] = saving["command"] /\ used' = used
    BY <1>1, <2>1, SaveEnds DEF Writers
  <2>3. server \in Body /\ job.cfg \in Body
    BY <1>1, <2>2 DEF SettingsTyped, JobInv, Jobs
  <2>4. server' \in Body
    BY <2>1, <2>3 DEF Body
  <2>5. SettingsTyped'
    BY <1>1, <2>1, <2>2, <2>4 DEF SettingsTyped
  <2>6. JobInv' /\ CommandInv' /\ ArchivesInv'
    BY <1>1, <2>1, <2>2, ArchivesRest DEF JobInv, CommandInv
  <2> QED BY <2>5, <2>6 DEF SettingsInv
<1> QED BY <1>2, <1>3, <1>4, <1>5, <1>6

LEMMA TimeKeeps == ASSUME SettingsInv, Tick \/ ClockBack PROVE SettingsInv'
<1>1. SettingsTyped /\ JobInv /\ CommandInv /\ ArchivesInv
  BY DEF SettingsInv
<1>2. UNCHANGED <<file, server, page, job, command, saving, archives>>
  BY DEF Tick, ClockBack
<1>3. JobInv' /\ CommandInv'
  BY <1>1, <1>2 DEF JobInv, CommandInv
<1>4. CASE Tick
  <2>1. clock < MaxClock /\ clock' = clock + 1 /\ used' = used
    BY <1>4 DEF Tick
  <2>2. SettingsTyped'
    BY <1>1, <1>2, <2>1, SettingsAssumption DEF SettingsTyped
  <2>3. clock \in Nat
    BY <1>1 DEF SettingsTyped
  <2>4. ASSUME used.back = 0 PROVE ArchivesOK(archives, clock + 1)
    <3>1. ArchivesOK(archives, clock)
      BY <1>1, <2>4 DEF ArchivesInv
    <3>2. \A a \in archives : a.at \in Nat /\ a.at <= clock
      BY <3>1 DEF ArchivesOK
    <3>3. \A a \in archives : a.at <= clock + 1
      BY <2>3, <3>2
    <3> QED BY <3>1, <3>3 DEF ArchivesOK
  <2>5. ArchivesInv'
    BY <1>2, <2>1, <2>4 DEF ArchivesInv
  <2> QED BY <1>3, <2>2, <2>5 DEF SettingsInv
<1>5. CASE ClockBack
  <2>1. /\ used' = [used EXCEPT !["back"] = @ + 1] /\ clock' \in 1..clock - 1
        /\ used \in [saves : Nat, kills : Nat, back : Nat]
    BY <1>1, <1>5 DEF ClockBack, Uses, SettingsTyped
  <2>2. used' \in [saves : Nat, kills : Nat, back : Nat] /\ used'.back # 0
    BY <2>1
  <2>3. SettingsTyped'
    BY <1>1, <1>2, <2>1, <2>2, SettingsAssumption DEF SettingsTyped
  <2>4. ArchivesInv'
    BY <2>2 DEF ArchivesInv
  <2> QED BY <1>3, <2>3, <2>4 DEF SettingsInv
<1> QED BY <1>4, <1>5

LEMMA SettingsBegin == SettingsInit => SettingsInv
<1> SUFFICES ASSUME SettingsInit PROVE SettingsInv
  OBVIOUS
<1>1. PICK v \in Values, keep \in Keeps :
        file = [torn |-> FALSE,
                body |-> [public |-> v, tls |-> v, on |-> TRUE, keep |-> keep, last |-> 0]]
  BY DEF SettingsInit
<1>2. [public |-> v, tls |-> v, on |-> TRUE, keep |-> keep, last |-> 0] \in Body
  BY SettingsAssumption DEF Body
<1>3. file \in [torn : BOOLEAN, body : Body] /\ file.body \in Body
  BY <1>1, <1>2
<1>4. SettingsTyped
  BY <1>3, SettingsAssumption DEF SettingsTyped, SettingsInit
<1>5. JobInv /\ CommandInv
  BY DEF SettingsInit, JobInv, CommandInv, Writers
<1>6. ArchivesInv
  BY FS_EmptySet DEF SettingsInit, ArchivesInv, ArchivesOK
<1> QED BY <1>4, <1>5, <1>6 DEF SettingsInv

LEMMA SettingsStep == SettingsInv /\ [SettingsNext]_settingsVars => SettingsInv'
<1> SUFFICES ASSUME SettingsInv, [SettingsNext]_settingsVars PROVE SettingsInv'
  OBVIOUS
<1>1. CASE UNCHANGED settingsVars
  BY <1>1 DEF settingsVars, SettingsInv, SettingsTyped, JobInv, CommandInv, ArchivesInv
<1>2. CASE SettingsNext
  BY <1>2, CommandsKeep, JobKeeps, ServerLives, TimeKeeps DEF SettingsNext
<1> QED BY <1>1, <1>2

\* A save that ends: by the server or by a command, unless the page makes it.
LEMMA WhoSaves ==
  ASSUME SettingsInv, [SettingsNext]_settingsVars, NEW w \in {"server", "command"},
         saving[w] # Off, saving'[w] = Off, file' # file
  PROVE  SaveEnd(w)
<1>1. SettingsTyped /\ CommandInv
  BY DEF SettingsInv
<1>2. CASE CommandSaves
  <2>1. PICK new \in Body : SaveBegin("command", new, command.base)
    BY <1>1, <1>2, CommandSavesBody
  <2>2. command.base \in Body
    BY <1>1, <1>2, CommandSavesBody
  <2>3. saving'["command"] # Off /\ saving'["server"] = saving["server"]
    BY <1>1, <2>1, <2>2, SaveBegins DEF Writers
  <2> QED BY <2>3
<1>3. CASE PageSaves
  <2>1. PICK new \in Body : SaveBegin("page", new, page)
    BY <1>1, <1>3, PageSavesBody
  <2>2. page \in Body
    BY <1>1, <1>3, PageSavesBody
  <2>3. saving'["command"] = saving["command"] /\ saving'["server"] = saving["server"]
    BY <1>1, <2>1, <2>2, SaveBegins DEF Writers
  <2> QED BY <2>3
<1>4. CASE CommandEnds \/ PageSaved \/ JobEnds
  <2>1. PICK v \in Writers : SaveEnd(v)
    BY <1>4 DEF CommandEnds, PageSaved, JobEnds, Writers
  <2>2. \A u \in Writers \ {v} : saving'[u] = saving[u]
    BY <1>1, <2>1, SaveEnds
  <2>3. w = v
    BY <2>2 DEF Writers
  <2> QED BY <2>1, <2>3
<1>5. CASE JobSaves
  BY <1>5 DEF JobSaves, SaveBegin, JobAt
<1>6. CASE /\ ~CommandSaves /\ ~PageSaves /\ ~CommandEnds /\ ~PageSaved /\ ~JobEnds /\ ~JobSaves
  BY <1>6 DEF SettingsNext, settingsVars, CommandReads, CommandFails, PageStarts, ServerStarts,
     ServerDies, MaybeRun, NoPassphrase, PruneFirst, MakeArchive, ArchiveFails, PruneAgain,
     Tick, ClockBack
<1> QED BY <1>2, <1>3, <1>4, <1>5, <1>6

\* The archives that go, go by pruning.
LEMMA WhatIsPruned ==
  ASSUME SettingsInv, [SettingsNext]_settingsVars, NEW a \in archives, a \notin archives',
         Newest(archives, a)
  PROVE  job.cfg.keep = 1 \/ used.back > 0
<1>1. CASE PruneFirst \/ PruneAgain
  <2>1. JobAt("prune") \/ JobAt("prune again")
    BY <1>1 DEF PruneFirst, PruneAgain
  <2>2. job.cfg \in Body
    BY <2>1, JobGoesOn
  <2>3. job.cfg.keep \in Keeps
    BY <2>2 DEF Body
  <2>4. job.cfg.keep \in Nat /\ job.cfg.keep # 0
    BY <2>3, SettingsAssumption
  <2>5. PICK keep \in {job.cfg.keep - 1, job.cfg.keep} : archives' = Pruned(keep)
    BY <1>1 DEF PruneFirst, PruneAgain
  <2>6. used.back \in Nat /\ (used.back = 0 => ArchivesOK(archives, clock))
    BY DEF SettingsInv, SettingsTyped, ArchivesInv
  <2>7. CASE used.back = 0 /\ keep # 0
    BY <2>4, <2>5, <2>6, <2>7, PruneLeaves
  <2> QED BY <2>4, <2>5, <2>6, <2>7
<1>2. CASE ~PruneFirst /\ ~PruneAgain
  BY <1>2 DEF SettingsNext, settingsVars, CommandReads, CommandSaves, CommandEnds, CommandFails,
     PageStarts, PageSaves, PageSaved, ServerStarts, ServerDies, MaybeRun, NoPassphrase,
     MakeArchive, ArchiveFails, JobSaves, JobEnds, Tick, ClockBack
<1> QED BY <1>1, <1>2

\* The server and the commands lose a setting only when it was saved while they
\* ran, or the file could not be read; and a backup takes the last good archive away
\* only when one is to be kept, or the clock went back (autobackup.go, rotate.go).
THEOREM SettingsStaySound == SettingsSpec => SettingsSound
<1> DEFINE Lost == \A w \in {"server", "command"} :
       /\ saving[w] # Off /\ saving'[w] = Off /\ file' # file
       /\ w = "server" => ~job.torn
       => \A k \in DOMAIN file.body :
            \/ file'.body[k] = file.body[k]
            \/ saving[w].base[k] # file.body[k]
            \/ k \in IF w = "server" THEN {"last"} ELSE {"public", "on", "tls"}
           Removed == \A a \in archives \ archives' :
       (\A b \in archives : b.made <= a.made) => job.cfg.keep = 1 \/ used.back > 0
<1>1. ASSUME SettingsInv, [SettingsNext]_settingsVars PROVE Lost
  <2> SUFFICES ASSUME NEW w \in {"server", "command"}, saving[w] # Off, saving'[w] = Off,
                      file' # file, w = "server" => ~job.torn, NEW k \in DOMAIN file.body,
                      saving[w].base[k] = file.body[k],
                      k \notin IF w = "server" THEN {"last"} ELSE {"public", "on", "tls"}
               PROVE  file'.body[k] = file.body[k]
    BY <1>1
  <2>1. SettingsTyped /\ JobInv /\ CommandInv /\ w \in Writers
    BY <1>1 DEF SettingsInv, Writers
  <2>2. SaveEnd(w)
    BY <1>1, WhoSaves
  <2>3. file'.body = saving[w].body
    BY <2>1, <2>2, SaveEnds
  <2>4. k \in {"public", "tls", "on", "keep", "last"}
    BY <2>1 DEF SettingsTyped, Body
  <2>5. saving[w].body[k] = saving[w].base[k]
    <3>1. CASE w = "server"
      <4>1. /\ saving[w].body = job.cfg /\ saving[w].base = job.base
            /\ job.cfg.public = job.base.public /\ job.cfg.tls = job.base.tls
            /\ job.cfg.on = job.base.on /\ job.cfg.keep = job.base.keep
        BY <2>1, <3>1 DEF JobInv
      <4> QED BY <2>4, <3>1, <4>1
    <3>2. CASE w = "command"
      BY <2>1, <2>4, <3>2 DEF CommandInv
    <3> QED BY <3>1, <3>2
  <2> QED BY <2>3, <2>5
<1>2. ASSUME SettingsInv, [SettingsNext]_settingsVars PROVE Removed
  BY <1>2, WhatIsPruned DEF Newest
<1>3. SettingsInv /\ [SettingsNext]_settingsVars => [Lost]_settingsVars
  BY <1>1
<1>4. SettingsInv /\ [SettingsNext]_settingsVars => [Removed]_settingsVars
  BY <1>2
<1>5. [][Lost]_settingsVars /\ [][Removed]_settingsVars => SettingsSound
  BY DEF SettingsSound, SettingsLostOnlyInOverlap, NewestArchiveKept
<1> HIDE DEF Lost, Removed
<1> QED BY <1>3, <1>4, <1>5, SettingsBegin, SettingsStep, PTL DEF SettingsSpec
=============================================================================
