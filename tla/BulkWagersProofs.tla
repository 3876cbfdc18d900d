-------------------------- MODULE BulkWagersProofs --------------------------
(* What holds of the creation of wagers for every number of names, hashtags, *)
(* categories and calls, and for payloads of every length.                   *)
EXTENDS BulkWagers, SequenceTheorems, TLAPS

Running(call) == call.pc \in {"find", "create", "connect", "insert"}
Inside(call) == call.pc \in {"connect", "insert"}
Item(call, i) == call.payload[i]

(* An open call is at a wager of its payload, or past the last one with all  *)
(* of them checked; a single creation never enters the transaction.          *)
Placed(call) ==
  /\ Len(call.payload) \in 1..MaxWagers
  /\ call.next <= Len(call.payload) + 1
  /\ call.pc # "find" => call.next <= Len(call.payload)
  /\ call.kind = "single" => call.pc \in {"guard", "create"} /\ Len(call.payload) = 1

(* The hashtags it deals with are those of the wager it is at; the one it    *)
(* inserts is new to it, and was not there when the guard let it through.    *)
Dealing(call) ==
  /\ Inside(call) => call.todo # {} /\ call.todo \subseteq HashtagsOf(Item(call, call.next))
  /\ ~Inside(call) => call.todo = {}
  /\ call.pc = "insert" => call.missing # {} /\ call.missing \subseteq call.todo
  /\ call.pc # "insert" => call.missing = {}
  /\ call.missing \cap (call.inserted \cup call.seen) = {}
  /\ \A t \in call.inserted : \E i \in DOMAIN call.payload : t \in HashtagsOf(Item(call, i))

(* The wagers whose name a transaction has looked up have different names,   *)
(* none of which existed when the guard let the call through.                *)
Looked(call) == {i \in DOMAIN call.payload :
                   Running(call) /\ call.kind = "bulk"
                   /\ (i < call.next \/ (i = call.next /\ call.pc # "find"))}
Unclashed(call) ==
  /\ \A i, j \in Looked(call) : i # j => Item(call, i).name # Item(call, j).name
  /\ \A i \in Looked(call) : Item(call, i).name \notin call.taken

(* The wagers it has inserted have their category, and their hashtags but    *)
(* for those that are still to be dealt with.                                *)
Inserted(call) == {i \in DOMAIN call.payload :
                     Running(call) /\ call.kind = "bulk"
                     /\ (i < call.next \/ (i = call.next /\ call.todo # {}))}
Connected(call, tags, cats) ==
  \A i \in Inserted(call) :
    /\ cats[Item(call, i).category] = "live"
    /\ \A t \in HashtagsOf(Item(call, i)) :
         t \in tags \cup call.inserted \/ (i = call.next /\ t \in call.todo)

(* The guard has seen the category of every wager it has let pass.           *)
Vouched(call, cats) ==
  \A i \in DOMAIN call.payload :
    Running(call) \/ (~call.refused /\ i < call.next) => cats[Item(call, i).category] # "none"

Opened(call, tags, cats) ==
  /\ call \in Open
  /\ Placed(call)
  /\ Dealing(call)
  /\ Unclashed(call)
  /\ Connected(call, tags, cats)
  /\ Vouched(call, cats)

Ended(call) == /\ call.pc = "done" /\ call.status \in Statuses
               /\ call.payload \in Seq(Wagers)
               /\ call = Answered(call, call.status)

Sound(call, tags, cats) == call = NoCall \/ Opened(call, tags, cats) \/ Ended(call)

(* What was there when the guard let a call through is there still.          *)
Remembered == \A r \in Requests : /\ request[r].seen \subseteq hashtags
                                  /\ request[r].taken \subseteq CommittedNames

IndInv == /\ TypeOK
          /\ \A r \in Requests : Sound(request[r], hashtags, category)
          /\ Remembered
          /\ AllOrNothing
          /\ ClashOnlyByOverlap
          /\ ReferencesExist
          /\ ConflictOnlyByOverlap
-----------------------------------------------------------------------------
(* The values calls go through.                                              *)

LEMMA Codes == StatusOf("P2002") = 409 /\ StatusOf("P2003") = 409
               /\ StatusOf("P2025") = 404 /\ StatusOf("P2028") = 500
  BY Zenon DEF StatusOf

(* What is left of a call that is answered.                                  *)
LEMMA AnsweredShape ==
  ASSUME NEW call, NEW status
  PROVE  LET a == Answered(call, status)
         IN  /\ a.pc = "done" /\ a.status = status /\ a.kind = call.kind
             /\ a.inserted = {} /\ a.missing = {} /\ a.todo = {}
             /\ status \in {201, 409} =>
                  a.payload = call.payload /\ a.taken = call.taken /\ a.seen = call.seen
             /\ status \notin {201, 409} => a.payload = <<>> /\ a.taken = {} /\ a.seen = {}
             /\ a = Answered(a, a.status)
  <1> CASE status \in {201, 409}
    BY DEF Answered, NoCall
  <1> CASE status \notin {201, 409}
    BY DEF Answered, NoCall
  <1> QED
    OBVIOUS

LEMMA AnsweredSound ==
  ASSUME NEW call, NEW status \in Statuses, call.payload \in Seq(Wagers)
  PROVE  Ended(Answered(call, status))
  <1> DEFINE a == Answered(call, status)
  <1>1. /\ a.pc = "done" /\ a.status = status /\ a = Answered(a, a.status)
        /\ a.payload = call.payload \/ a.payload = <<>>
    BY AnsweredShape
  <1> HIDE DEF a
  <1>2. <<>> \in Seq(Wagers)
    OBVIOUS
  <1>3. Ended(a)
    BY <1>1, <1>2 DEF Ended
  <1> QED
    BY <1>3 DEF a

LEMMA NoCallShape ==
  /\ NoCall.pc = "none" /\ NoCall.status = 0 /\ NoCall.payload = <<>>
  /\ NoCall.kind = "bulk"
  /\ NoCall.inserted = {} /\ NoCall.missing = {} /\ NoCall.taken = {} /\ NoCall.seen = {}
  BY DEF NoCall

(* The wagers of a payload, and their hashtags.                              *)
LEMMA Payload ==
  ASSUME NEW call \in Open
  PROVE  /\ Len(call.payload) \in Nat
         /\ DOMAIN call.payload = 1..Len(call.payload)
         /\ \A i \in DOMAIN call.payload : Item(call, i) \in Wager
         /\ \A i \in DOMAIN call.payload : HashtagsOf(Item(call, i)) \subseteq Tags
  <1>1. call.payload \in Seq(Wagers)
    BY DEF Open
  <1>2. /\ Len(call.payload) \in Nat
        /\ DOMAIN call.payload = 1..Len(call.payload)
        /\ \A i \in DOMAIN call.payload : Item(call, i) \in Wager
    BY <1>1, WagersAssumption DEF Item
  <1>3. \A w \in Wager : HashtagsOf(w) \subseteq Tags
    BY DEF Wager, HashtagsOf
  <1> QED
    BY <1>2, <1>3

(* The states of a call are told apart by where it is.                       *)
LEMMA Stages ==
  ASSUME NEW call, NEW tags, NEW cats, Sound(call, tags, cats)
  PROVE  /\ call.pc = "none" => call = NoCall
         /\ call.pc = "done" => Ended(call)
         /\ call.pc \notin {"none", "done"} => Opened(call, tags, cats)
         /\ call.pc # "done" => call.status = 0
         /\ call.payload \in Seq(Wagers)
  <1>1. NoCall.payload \in Seq(Wagers)
    BY NoCallShape
  <1> QED
    BY <1>1, NoCallShape DEF Sound, Opened, Ended, Open

-----------------------------------------------------------------------------
(* Steps of one call.                                                        *)

(* A conflict has a cause: a category that is gone, or a hashtag that was    *)
(* not there when the guard let the call through.                            *)
Overlapped(call, tags, cats) ==
  \E i \in DOMAIN call.payload :
    \/ cats[Item(call, i).category] = "gone"
    \/ call.kind = "bulk" /\ HashtagsOf(Item(call, i)) \cap (tags \ call.seen) # {}

LEMMA ConflictHasCause ==
  ConflictOnlyByOverlap <=>
    \A r \in Requests : request[r].status = 409 => Overlapped(request[r], hashtags, category)
  BY DEF ConflictOnlyByOverlap, Overlapped, Bulk, Item

(* The names that are taken are those of the wagers of answered calls.       *)
LEMMA CommittedShape ==
  ASSUME NEW n
  PROVE  n \in CommittedNames <=>
           \E q \in Requests : \E i \in rows[q] : request[q].payload[i].name = n
  BY DEF CommittedNames, NamesOf

(* An open call, and one that is not made yet, have stored nothing.          *)
LEMMA OpenStoresNothing ==
  ASSUME IndInv, NEW r \in Requests, request[r].pc # "done"
  PROVE  request[r].status = 0 /\ rows[r] = {}
  BY Stages DEF IndInv, AllOrNothing

(* A step that takes one call further, and stores nothing for good.          *)
LEMMA Moved ==
  ASSUME IndInv, NEW r \in Requests, NEW call,
         request[r].pc # "done",
         request' = [request EXCEPT ![r] = call],
         UNCHANGED <<rows, hashtags, posted, category>>,
         Sound(call, hashtags, category),
         call.status # 201,
         call.status = 409 => Overlapped(call, hashtags, category),
         call.seen \subseteq hashtags, call.taken \subseteq CommittedNames
  PROVE  IndInv'
  <1>1. /\ DOMAIN request' = Requests /\ request'[r] = call
        /\ \A q \in Requests \ {r} : request'[q] = request[q]
    BY DEF IndInv, TypeOK
  <1>2. rows[r] = {}
    BY OpenStoresNothing
  <1>3. \A q \in Requests : Sound(request'[q], hashtags', category')
    BY <1>1 DEF IndInv
  <1>4. TypeOK'
    <2>1. DOMAIN request' = Requests /\ DOMAIN rows' = Requests
      BY <1>1 DEF IndInv, TypeOK
    <2>2. \A q \in Requests : \/ request'[q] \in Open \cup {NoCall}
                              \/ /\ request'[q].status \in Statuses
                                 /\ request'[q] = Answered(request'[q], request'[q].status)
      BY <1>3 DEF Sound, Opened, Ended
    <2>3. \A q \in Requests : rows'[q] \subseteq DOMAIN request'[q].payload
      BY <1>1, <1>2 DEF IndInv, TypeOK
    <2> QED
      BY <2>1, <2>2, <2>3 DEF IndInv, TypeOK
  <1>5. CommittedNames \subseteq CommittedNames'
    <2> SUFFICES ASSUME NEW n \in CommittedNames PROVE n \in CommittedNames'
      OBVIOUS
    <2>1. PICK q \in Requests : \E i \in rows[q] : request[q].payload[i].name = n
      BY CommittedShape
    <2>2. \E i \in rows'[q] : request'[q].payload[i].name = n
      BY <2>1, <1>1, <1>2
    <2> QED
      BY <2>2 DEF CommittedNames, NamesOf
  <1>6. Remembered'
    BY <1>1, <1>5 DEF IndInv, Remembered
  <1>7. AllOrNothing'
    <2>1. ASSUME NEW t \in hashtags \ posted
          PROVE  \E q \in Requests : /\ request'[q].kind = "bulk" /\ request'[q].status = 201
                                     /\ t \in TagsOf(q)'
      <3>1. PICK q \in Requests : Bulk(q) /\ request[q].status = 201 /\ t \in TagsOf(q)
        BY DEF IndInv, AllOrNothing
      <3>2. request'[q] = request[q]
        BY <1>1, <3>1, OpenStoresNothing
      <3> QED
        BY <3>1, <3>2 DEF Bulk, TagsOf
    <2>2. \A q \in Requests :
            rows'[q] = IF request'[q].status = 201 THEN DOMAIN request'[q].payload ELSE {}
      BY <1>1, <1>2 DEF IndInv, AllOrNothing
    <2> QED
      BY <2>1, <2>2 DEF AllOrNothing, Bulk
  <1>8. ClashOnlyByOverlap'
    BY <1>1, <1>2 DEF IndInv, ClashOnlyByOverlap, NamesOf, Bulk
  <1>9. ReferencesExist'
    BY <1>1, <1>2 DEF IndInv, ReferencesExist
  <1>10. ConflictOnlyByOverlap'
    <2>1. \A q \in Requests : request'[q].status = 409 =>
            Overlapped(request'[q], hashtags, category)
      BY <1>1, ConflictHasCause DEF IndInv
    <2> QED
      BY <2>1 DEF ConflictOnlyByOverlap, Overlapped, Bulk, Item
  <1> QED
    BY <1>3, <1>4, <1>6, <1>7, <1>8, <1>9, <1>10 DEF IndInv

(* A call that is refused, or fails: nothing is left of it.                  *)
LEMMA Refused ==
  ASSUME IndInv, NEW r \in Requests, NEW status \in Statuses \ {201},
         request[r].pc # "done",
         request' = [request EXCEPT ![r] = Answered(request[r], status)],
         UNCHANGED <<rows, hashtags, posted, category>>,
         status = 409 => Overlapped(request[r], hashtags, category)
  PROVE  IndInv'
  <1> DEFINE call == Answered(request[r], status)
  <1>1. Sound(call, hashtags, category)
    BY AnsweredSound, Stages DEF Sound, IndInv
  <1>2. call.status # 201
    BY AnsweredShape
  <1>3. call.status = 409 => Overlapped(call, hashtags, category)
    BY AnsweredShape DEF Overlapped, Item
  <1>4. call.seen \subseteq hashtags /\ call.taken \subseteq CommittedNames
    BY AnsweredShape DEF IndInv, Remembered
  <1> QED
    BY <1>1, <1>2, <1>3, <1>4, Moved

(* A call that stores its payload as a whole, and hashtags with it.          *)
LEMMA Stored ==
  ASSUME IndInv, NEW r \in Requests, request[r].pc \notin {"none", "done"},
         request' = [request EXCEPT ![r] = Answered(request[r], 201)],
         rows' = [rows EXCEPT ![r] = DOMAIN request[r].payload],
         hashtags \subseteq hashtags', hashtags' \subseteq Tags, UNCHANGED <<posted, category>>,
         \A t \in hashtags' \ hashtags : Bulk(r) /\ t \in TagsOf(r),
         \A i \in DOMAIN request[r].payload :
           /\ HashtagsOf(request[r].payload[i]) \subseteq hashtags'
           /\ category[request[r].payload[i].category] = "live",
         Bulk(r) =>
           \A i \in DOMAIN request[r].payload :
             /\ request[r].payload[i].name \notin request[r].taken
             /\ \A j \in DOMAIN request[r].payload :
                  i # j => request[r].payload[i].name # request[r].payload[j].name
  PROVE  IndInv'
  <1> DEFINE call == Answered(request[r], 201)
  <1>1. /\ DOMAIN request' = Requests /\ request'[r] = call
        /\ \A q \in Requests \ {r} : request'[q] = request[q]
        /\ DOMAIN rows' = Requests /\ rows'[r] = DOMAIN request[r].payload
        /\ \A q \in Requests \ {r} : rows'[q] = rows[q]
    BY DEF IndInv, TypeOK
  <1>2. /\ call.status = 201 /\ call.payload = request[r].payload /\ call.kind = request[r].kind
        /\ call.taken = request[r].taken /\ call.seen = request[r].seen
        /\ Ended(call)
    BY AnsweredShape, AnsweredSound, Stages DEF Statuses, IndInv
  <1> HIDE DEF call
  <1>3. \A q \in Requests : Sound(request'[q], hashtags', category')
    <2>1. Sound(request'[r], hashtags', category')
      BY <1>1, <1>2 DEF Sound
    <2>2. ASSUME NEW q \in Requests \ {r} PROVE Sound(request'[q], hashtags', category')
      BY <1>1 DEF IndInv, Sound, Opened, Connected
    <2> QED
      BY <2>1, <2>2
  <1>4. TypeOK'
    <2>1. \A q \in Requests : \/ request'[q] \in Open \cup {NoCall}
                              \/ /\ request'[q].status \in Statuses
                                 /\ request'[q] = Answered(request'[q], request'[q].status)
      BY <1>3 DEF Sound, Opened, Ended
    <2>2. \A q \in Requests : rows'[q] \subseteq DOMAIN request'[q].payload
      BY <1>1, <1>2 DEF IndInv, TypeOK
    <2> QED
      BY <1>1, <2>1, <2>2 DEF IndInv, TypeOK
  <1>5. rows[r] = {}
    BY OpenStoresNothing
  <1>6. CommittedNames \subseteq CommittedNames'
    <2> SUFFICES ASSUME NEW n \in CommittedNames PROVE n \in CommittedNames'
      OBVIOUS
    <2>1. PICK q \in Requests : \E i \in rows[q] : request[q].payload[i].name = n
      BY CommittedShape
    <2>2. \E i \in rows'[q] : request'[q].payload[i].name = n
      BY <2>1, <1>1, <1>5
    <2> QED
      BY <2>2 DEF CommittedNames, NamesOf
  <1>7. Remembered'
    BY <1>1, <1>2, <1>6 DEF IndInv, Remembered
  <1>8. AllOrNothing'
    <2>1. ASSUME NEW t \in hashtags' \ posted
          PROVE  \E q \in Requests : /\ request'[q].kind = "bulk" /\ request'[q].status = 201
                                     /\ t \in TagsOf(q)'
      <3>1. CASE t \in hashtags
        <4>1. PICK q \in Requests : Bulk(q) /\ request[q].status = 201 /\ t \in TagsOf(q)
          BY <3>1 DEF IndInv, AllOrNothing
        <4>2. request'[q] = request[q]
          BY <1>1, <4>1, OpenStoresNothing
        <4> QED
          BY <4>1, <4>2 DEF Bulk, TagsOf
      <3>2. CASE t \notin hashtags
        BY <1>1, <1>2, <3>2 DEF Bulk, TagsOf
      <3> QED
        BY <3>1, <3>2
    <2>2. ASSUME NEW q \in Requests
          PROVE  rows'[q] = IF request'[q].status = 201 THEN DOMAIN request'[q].payload ELSE {}
      <3>1. CASE q = r
        <4>1. request'[q].status = 201 /\ request'[q].payload = request[r].payload
          BY <1>1, <1>2, <3>1
        <4> QED
          BY <1>1, <3>1, <4>1
      <3>2. CASE q # r
        BY <1>1, <3>2 DEF IndInv, AllOrNothing
      <3> QED
        BY <3>1, <3>2
    <2> QED
      BY <2>1, <2>2 DEF AllOrNothing, Bulk
  <1>9. ClashOnlyByOverlap'
    BY <1>1, <1>2 DEF IndInv, ClashOnlyByOverlap, NamesOf, Bulk
  <1>10. ReferencesExist'
    BY <1>1, <1>2 DEF IndInv, ReferencesExist
  <1>11. ConflictOnlyByOverlap'
    <2>1. \A q \in Requests : request'[q].status = 409 =>
            Overlapped(request'[q], hashtags', category')
      BY <1>1, <1>2, ConflictHasCause DEF IndInv, Overlapped
    <2> QED
      BY <2>1 DEF ConflictOnlyByOverlap, Overlapped, Bulk, Item
  <1> QED
    BY <1>3, <1>4, <1>7, <1>8, <1>9, <1>10, <1>11 DEF IndInv

-----------------------------------------------------------------------------
(* The steps around the calls: hashtags and categories of other endpoints.   *)

(* More hashtags, and categories that are created or go while no wager       *)
(* refers to them, leave every call and every wager as sound as it was.      *)
LEMMA Surroundings ==
  ASSUME IndInv, UNCHANGED <<request, rows>>,
         hashtags \subseteq hashtags', hashtags' \subseteq Tags,
         posted \subseteq posted', posted' \subseteq hashtags',
         hashtags' \ hashtags \subseteq posted',
         category' \in [Categories -> {"none", "live", "gone"}],
         \A c \in Categories : /\ category[c] # "none" => category'[c] # "none"
                               /\ category[c] = "gone" => category'[c] = "gone",
         \A r \in Requests : \A i \in rows[r] \cup Inserted(request[r]) :
           category[request[r].payload[i].category] = "live" =>
             category'[request[r].payload[i].category] = "live"
  PROVE  IndInv'
  <1>1. TypeOK'
    BY DEF IndInv, TypeOK
  <1>2. ASSUME NEW r \in Requests PROVE Sound(request[r], hashtags', category')
    <2>1. CASE Opened(request[r], hashtags, category)
      <3>1. \A i \in DOMAIN request[r].payload : Item(request[r], i).category \in Categories
        BY <2>1, Payload DEF Opened, Wager
      <3>2. Connected(request[r], hashtags', category')
        BY <2>1 DEF Opened, Connected, Item
      <3>3. Vouched(request[r], category')
        BY <2>1, <3>1 DEF Opened, Vouched
      <3> QED
        BY <2>1, <3>2, <3>3 DEF Sound, Opened
    <2>2. CASE ~Opened(request[r], hashtags, category)
      BY <2>2 DEF IndInv, Sound
    <2> QED
      BY <2>1, <2>2
  <1>3. Remembered'
    BY DEF IndInv, Remembered, CommittedNames, NamesOf
  <1>4. AllOrNothing' /\ ClashOnlyByOverlap'
    BY DEF IndInv, AllOrNothing, ClashOnlyByOverlap, NamesOf, TagsOf, Bulk
  <1>5. ReferencesExist'
    BY DEF IndInv, ReferencesExist
  <1>6. ConflictOnlyByOverlap'
    <2> SUFFICES ASSUME NEW r \in Requests, request[r].status = 409
                 PROVE  Overlapped(request[r], hashtags', category')
      BY DEF ConflictOnlyByOverlap, Overlapped, Bulk, Item
    <2>1. Overlapped(request[r], hashtags, category)
      BY ConflictHasCause DEF IndInv
    <2>2. request[r].payload \in Seq(Wagers)
      BY Stages DEF IndInv
    <2>3. \A i \in DOMAIN request[r].payload : Item(request[r], i).category \in Categories
      BY <2>2, WagersAssumption DEF Item, Wager
    <2> QED
      BY <2>1, <2>3 DEF Overlapped
  <1> QED
    BY <1>1, <1>2, <1>3, <1>4, <1>5, <1>6 DEF IndInv

LEMMA WrittenIsInserted ==
  ASSUME NEW r \in Requests, Sound(request[r], hashtags, category)
  PROVE  Inserted(request[r]) = Written(r)
  BY Stages, NoCallShape DEF Inserted, Written, Bulk, Running, Opened, Open, Ended

LEMMA OthersStep ==
  ASSUME IndInv,
         \/ \E t \in Tags : createHashtag(t)
         \/ \E c \in Categories : createCategory(c) \/ removeCategory(c)
  PROVE  IndInv'
  <1>1. ASSUME NEW t \in Tags, createHashtag(t) PROVE IndInv'
    BY <1>1, Surroundings DEF createHashtag, IndInv, TypeOK
  <1>2. ASSUME NEW c \in Categories, createCategory(c) PROVE IndInv'
    <2>1. /\ category' = [category EXCEPT ![c] = "live"] /\ category[c] = "none"
          /\ UNCHANGED <<request, rows, hashtags, posted>>
          /\ category \in [Categories -> {"none", "live", "gone"}]
          /\ hashtags \subseteq Tags /\ posted \subseteq hashtags
      BY <1>2 DEF createCategory, IndInv, TypeOK
    <2>2. /\ category' \in [Categories -> {"none", "live", "gone"}]
          /\ \A d : category[d] = "live" => category'[d] = "live"
          /\ \A d \in Categories : /\ category[d] # "none" => category'[d] # "none"
                                  /\ category[d] = "gone" => category'[d] = "gone"
      BY <2>1
    <2> QED
      BY <2>1, <2>2, Surroundings
  <1>3. ASSUME NEW c \in Categories, removeCategory(c) PROVE IndInv'
    <2>1. /\ category' = [category EXCEPT ![c] = "gone"] /\ category[c] = "live"
          /\ UNCHANGED <<request, rows, hashtags, posted>>
          /\ category \in [Categories -> {"none", "live", "gone"}]
          /\ hashtags \subseteq Tags /\ posted \subseteq hashtags
      BY <1>3 DEF removeCategory, IndInv, TypeOK
    <2>2. \A r \in Requests : \A i \in rows[r] \cup Inserted(request[r]) :
            request[r].payload[i].category # c
      BY <1>3, WrittenIsInserted DEF removeCategory, IndInv
    <2>3. \A d \in Categories \ {c} : category'[d] = category[d]
      BY <2>1
    <2>4. \A r \in Requests : \A i \in rows[r] \cup Inserted(request[r]) :
            category'[request[r].payload[i].category] = category[request[r].payload[i].category]
      BY <2>1, <2>2
    <2>5. category' \in [Categories -> {"none", "live", "gone"}] /\ category'[c] = "gone"
      BY <2>1
    <2> QED
      BY <2>1, <2>3, <2>4, <2>5, Surroundings
  <1> QED
    BY <1>1, <1>2, <1>3

-----------------------------------------------------------------------------
(* A call that is made, and the guard.                                       *)

LEMMA InvalidStep ==
  ASSUME IndInv, NEW r \in Requests, NEW kind \in {"single", "bulk"}, NEW nested \in BOOLEAN,
         Invalid(r, kind, nested)
  PROVE  IndInv'
  <1> DEFINE status == IF nested THEN 500 ELSE 400
             call == Answered([NoCall EXCEPT !.kind = kind], status)
  <1>1. /\ request[r] = NoCall /\ request' = [request EXCEPT ![r] = call]
        /\ UNCHANGED <<rows, hashtags, posted, category>>
    BY DEF Invalid
  <1>2. status \in Statuses /\ status \notin {201, 409}
    BY DEF Statuses
  <1>3. call.status = status /\ call.seen = {} /\ call.taken = {}
    BY <1>2, AnsweredShape
  <1>4. Sound(call, hashtags, category)
    <2> DEFINE blank == [NoCall EXCEPT !.kind = kind]
    <2>1. blank.payload = <<>> /\ <<>> \in Seq(Wagers)
      BY DEF NoCall
    <2> HIDE DEF blank, status
    <2>2. Ended(Answered(blank, status))
      BY <1>2, <2>1, AnsweredSound
    <2> QED
      BY <2>2 DEF Sound, blank
  <1>5. request[r].pc # "done"
    BY <1>1, NoCallShape
  <1> HIDE DEF status, call
  <1> QED
    BY <1>1, <1>2, <1>3, <1>4, <1>5, Moved

LEMMA ArriveStep ==
  ASSUME IndInv, NEW r \in Requests, NEW kind \in {"single", "bulk"},
         NEW payload \in Payloads(kind), Arrive(r, kind, payload)
  PROVE  IndInv'
  <1> DEFINE call == [NoCall EXCEPT !.pc = "guard", !.kind = kind, !.payload = payload]
  <1>1. /\ request[r] = NoCall /\ request' = [request EXCEPT ![r] = call]
        /\ UNCHANGED <<rows, hashtags, posted, category>>
    BY DEF Arrive
  <1>2. /\ payload \in Seq(Wagers) /\ Len(payload) \in 1..MaxWagers
        /\ kind = "single" => Len(payload) = 1
    <2>1. CASE kind = "single"
      <3>1. PICK w \in Wagers : payload = <<w>>
        BY <2>1 DEF Payloads
      <3> QED
        BY <3>1, <2>1, MaxWagersAssumption
    <2>2. CASE kind # "single"
      <3>1. PICK n \in 0..MaxWagers : payload \in [1..n -> Wagers]
        BY <2>2 DEF Payloads, BoundedSeq, SeqOf
      <3>2. payload \in Seq(Wagers) /\ Len(payload) = n
        BY <3>1, MaxWagersAssumption
      <3>3. payload # <<>>
        BY <2>2 DEF Payloads
      <3>4. n # 0
        BY <3>2, <3>3, EmptySeq
      <3> QED
        BY <2>2, <3>2, <3>4, MaxWagersAssumption
    <2> QED
      BY <2>1, <2>2
  <1>3. call \in Open
    <2> DEFINE Blank == [pc : {"none", "guard"},
                         kind : {"single", "bulk"}, payload : Seq(Wagers),
                         next : {1}, refused : {FALSE}, status : {0},
                         todo : {{}}, missing : {{}}, inserted : {{}},
                         taken : {{}}, seen : {{}}]
    <2>1. NoCall \in Blank
      <3>1. <<>> \in Seq(Wagers)
        OBVIOUS
      <3> QED
        BY <3>1 DEF NoCall
    <2>2. call \in Blank
      BY <1>2, <2>1
    <2>3. call.pc = "guard"
      BY DEF NoCall
    <2>4. 1 \in 1..(MaxWagers + 1)
      BY MaxWagersAssumption
    <2> QED
      BY <2>2, <2>3, <2>4 DEF Open
  <1>4. /\ call.pc = "guard" /\ call.kind = kind /\ call.payload = payload /\ call.next = 1
        /\ call.refused = FALSE /\ call.status = 0 /\ call.todo = {} /\ call.missing = {}
        /\ call.inserted = {} /\ call.taken = {} /\ call.seen = {}
    BY DEF NoCall
  <1> HIDE DEF call
  <1>5. Opened(call, hashtags, category)
    <2>1. Placed(call) /\ Dealing(call)
      BY <1>2, <1>4 DEF Placed, Dealing, Inside
    <2>2. Unclashed(call) /\ Connected(call, hashtags, category)
      BY <1>4 DEF Unclashed, Connected, Looked, Inserted, Running
    <2>3. Vouched(call, category)
      BY <1>2, <1>4 DEF Vouched, Running
    <2> QED
      BY <1>3, <2>1, <2>2, <2>3 DEF Opened
  <1>6. request[r].pc # "done"
    BY <1>1, NoCallShape
  <1>7. Sound(call, hashtags, category)
    BY <1>5 DEF Sound
  <1>8. /\ call.status \notin {201, 409} /\ call.seen \subseteq hashtags
        /\ call.taken \subseteq CommittedNames
    BY <1>4
  <1> QED
    BY <1>1, <1>6, <1>7, <1>8, Moved

LEMMA GuardStep ==
  ASSUME IndInv, NEW r \in Requests, canActivate(r)
  PROVE  IndInv'
  <1> DEFINE c == request[r]
             refused == c.refused \/ category[Current(r).category] # "live"
  <1>1. /\ Opened(c, hashtags, category) /\ c.pc = "guard"
        /\ UNCHANGED <<rows, hashtags, posted, category>>
        /\ c.next \in DOMAIN c.payload /\ Len(c.payload) \in Nat
        /\ DOMAIN c.payload = 1..Len(c.payload) /\ c.next \in Nat
    <2>1. Opened(c, hashtags, category) /\ c.pc = "guard"
      BY Stages DEF canActivate, At, IndInv
    <2> QED
      BY <2>1, Payload DEF canActivate, Opened, Placed, Open
  <1>2. /\ Current(r) = Item(c, c.next)
        /\ \A i \in DOMAIN c.payload : i < c.next + 1 => i < c.next \/ i = c.next
    <2>1. \A i \in 1..Len(c.payload) : i < c.next + 1 => i < c.next \/ i = c.next
      BY <1>1
    <2> QED
      BY <1>1, <2>1 DEF Current, Item
  <1>3. CASE c.next < Len(c.payload)
    <2> DEFINE d == [c EXCEPT !.next = @ + 1, !.refused = refused]
    <2>1. request' = [request EXCEPT ![r] = d]
      BY <1>3, Zenon DEF canActivate
    <2>2. d \in Open
      <3>1. c.next + 1 \in 1..(MaxWagers + 1) /\ refused \in BOOLEAN
        BY <1>1, <1>3, MaxWagersAssumption DEF Opened, Open, Placed
      <3> QED
        BY <1>1, <3>1 DEF Opened, Open
    <2>3. /\ d.pc = "guard" /\ d.kind = c.kind /\ d.payload = c.payload /\ d.next = c.next + 1
          /\ d.refused = refused /\ d.status = 0 /\ d.todo = c.todo /\ d.missing = c.missing
          /\ d.inserted = c.inserted /\ d.taken = c.taken /\ d.seen = c.seen
      BY <1>1 DEF Opened, Open
    <2> HIDE DEF d
    <2>4. Placed(d) /\ Dealing(d)
      BY <1>1, <1>3, <2>3 DEF Opened, Placed, Dealing, Inside, Item
    <2>5. Unclashed(d) /\ Connected(d, hashtags, category)
      BY <2>3 DEF Unclashed, Connected, Looked, Inserted, Running
    <2>6. Vouched(d, category)
      BY <1>1, <1>2, <2>3 DEF Opened, Vouched, Running, Item
    <2>7. Sound(d, hashtags, category)
      BY <2>2, <2>4, <2>5, <2>6 DEF Sound, Opened
    <2>8. c.pc # "done" /\ d.status \notin {201, 409} /\ d.seen \subseteq hashtags /\ d.taken \subseteq CommittedNames
      BY <1>1, <2>3 DEF IndInv, Remembered
    <2> QED
      BY <1>1, <2>1, <2>7, <2>8, Moved
  <1>4. CASE ~(c.next < Len(c.payload)) /\ refused
    <2>1. request' = [request EXCEPT ![r] = Answered(c, 400)]
      BY <1>4 DEF canActivate, Answer
    <2>2. PICK status \in Statuses \ {201, 409} : status = 400
      BY <1>1 DEF Statuses
    <2>3. request' = [request EXCEPT ![r] = Answered(c, status)] /\ c.pc # "done"
          /\ status \in Statuses \ {201} /\ status # 409 /\ UNCHANGED <<rows, hashtags, posted, category>>
      BY <1>1, <2>1, <2>2
    <2> HIDE DEF refused
    <2> QED
      BY <2>3, Refused
  <1>5. CASE ~(c.next < Len(c.payload)) /\ ~refused
    <2> DEFINE taken == CommittedNames \cap NamesOf(r, DOMAIN c.payload)
               seen == hashtags \cap TagsOf(r)
               d == [c EXCEPT !.pc = IF Bulk(r) THEN "find" ELSE "create",
                              !.next = 1, !.taken = taken, !.seen = seen]
    <2>1. request' = [request EXCEPT ![r] = d]
      BY <1>5 DEF canActivate, Admit
    <2>2. d \in Open
      <3>1. taken \subseteq Names
        BY <1>1, Payload DEF NamesOf, Opened, Item, Wager
      <3>2. seen \subseteq Tags
        BY DEF IndInv, TypeOK
      <3> HIDE DEF taken, seen
      <3>3. 1 \in 1..(MaxWagers + 1)
        BY MaxWagersAssumption
      <3> QED
        BY <1>1, <3>1, <3>2, <3>3 DEF Opened, Open
    <2>3. /\ d.pc = (IF Bulk(r) THEN "find" ELSE "create") /\ d.kind = c.kind
          /\ d.payload = c.payload /\ d.next = 1
          /\ d.refused = c.refused /\ d.status = 0 /\ d.todo = c.todo /\ d.missing = c.missing
          /\ d.inserted = c.inserted /\ d.taken = taken /\ d.seen = seen
      BY <1>1 DEF Opened, Open
    <2>4. c.kind \in {"single", "bulk"} /\ (d.kind = "bulk" <=> d.pc = "find")
      BY <1>1, <2>3 DEF Opened, Open, Bulk
    <2> HIDE DEF d
    <2>5. Placed(d) /\ Dealing(d)
      BY <1>1, <2>3, <2>4 DEF Opened, Placed, Dealing, Inside, Item
    <2>6. c.todo = {} /\ ~\E i \in DOMAIN c.payload : i < 1
      BY <1>1 DEF Opened, Dealing, Inside
    <2>7. Unclashed(d) /\ Connected(d, hashtags, category)
      BY <2>3, <2>4, <2>6 DEF Unclashed, Connected, Looked, Inserted, Running
    <2>8. \A i \in DOMAIN c.payload : category[Item(c, i).category] # "none"
      <3>1. \A i \in DOMAIN c.payload : i < c.next \/ i = c.next
        BY <1>1, <1>5
      <3> QED
        BY <1>1, <1>2, <1>5, <3>1 DEF Opened, Vouched
    <2>9. Vouched(d, category)
      BY <2>3, <2>8 DEF Vouched, Item
    <2>10. Sound(d, hashtags, category)
      BY <2>2, <2>5, <2>7, <2>9 DEF Sound, Opened
    <2>11. c.pc # "done" /\ d.status \notin {201, 409} /\ d.seen \subseteq hashtags /\ d.taken \subseteq CommittedNames
      BY <1>1, <2>3
    <2> QED
      BY <1>1, <2>1, <2>10, <2>11, Moved
  <1> QED
    BY <1>3, <1>4, <1>5

(* A call that has passed the guard has seen the category of every wager.    *)
LEMMA SeenCategory ==
  ASSUME IndInv, NEW r \in Requests, Running(request[r]),
         NEW i \in DOMAIN request[r].payload,
         category[request[r].payload[i].category] # "live"
  PROVE  category[request[r].payload[i].category] = "gone"
  <1>1. Opened(request[r], hashtags, category)
    BY Stages DEF Running, IndInv
  <1>2. request[r].payload[i].category \in Categories
    BY <1>1, Payload DEF Opened, Item, Wager
  <1>3. category[request[r].payload[i].category] # "none"
    BY <1>1 DEF Opened, Vouched, Item
  <1> QED
    BY <1>2, <1>3 DEF IndInv, TypeOK

LEMMA SingleStep ==
  ASSUME IndInv, NEW r \in Requests, createWager(r)
  PROVE  IndInv'
  <1> DEFINE c == request[r]
             w == Current(r)
             gone == category[w.category] # "live"
             unknown == ~(HashtagsOf(w) \subseteq hashtags)
  <1>1. Opened(c, hashtags, category) /\ c.pc = "create" /\ c.kind = "single"
    BY Stages DEF createWager, At, IndInv, Bulk, Opened, Open
  <1>2. /\ c.next = 1 /\ Len(c.payload) = 1 /\ DOMAIN c.payload = {1} /\ w = c.payload[1]
        /\ Running(c)
    <2>1. c \in Open /\ Placed(c)
      BY <1>1 DEF Opened
    <2>2. Len(c.payload) = 1 /\ DOMAIN c.payload = 1..1
      BY <1>1, <2>1, Payload DEF Placed
    <2>3. c.next \in 1..(MaxWagers + 1) /\ c.next <= 1
      BY <1>1, <2>1, <2>2 DEF Placed, Open
    <2>4. c.next = 1
      BY <2>3, MaxWagersAssumption
    <2> QED
      BY <1>1, <2>2, <2>4 DEF Current, Running
  <1>3. UNCHANGED <<hashtags, posted, category>>
    BY DEF createWager
  <1>4. ASSUME NEW status \in Statuses \ {201}, Answer(r, status), UNCHANGED rows,
               status = 409 => gone
        PROVE  IndInv'
    <2>1. status = 409 => Overlapped(c, hashtags, category)
      BY <1>2, <1>4, SeenCategory DEF Overlapped, Item
    <2>2. request' = [request EXCEPT ![r] = Answered(request[r], status)] /\ c.pc # "done"
      BY <1>1, <1>4 DEF Answer
    <2> QED
      BY <1>3, <1>4, <2>1, <2>2, Refused
  <1>5. CASE Answer(r, 500) /\ UNCHANGED rows
    <2>1. PICK status \in Statuses \ {201} : status = 500
      BY DEF Statuses
    <2> QED
      BY <1>4, <1>5, <2>1
  <1>6. CASE gone /\ Answer(r, StatusOf("P2003")) /\ UNCHANGED rows
    <2>1. PICK status \in Statuses \ {201} : status = 409
      BY DEF Statuses
    <2> QED
      BY <1>4, <1>6, <2>1, Codes
  <1>7. CASE Answer(r, StatusOf("P2025")) /\ UNCHANGED rows
    <2>1. PICK status \in Statuses \ {201} : status = 404
      BY DEF Statuses
    <2> QED
      BY <1>4, <1>7, <2>1, Codes
  <1>8. CASE ~gone /\ ~unknown /\ Answer(r, 201) /\ rows' = [rows EXCEPT ![r] = {1}]
    <2>1. /\ HashtagsOf(c.payload[1]) \subseteq hashtags /\ category[c.payload[1].category] = "live"
      BY <1>2, <1>8
    <2>2. ~Bulk(r) /\ hashtags \subseteq Tags /\ hashtags' = hashtags
      BY <1>1, <1>3 DEF Bulk, IndInv, TypeOK
    <2> QED
      BY <1>1, <1>2, <1>3, <1>8, <2>1, <2>2, Stored DEF Answer
  <1> QED
    BY <1>5, <1>6, <1>7, <1>8 DEF createWager

-----------------------------------------------------------------------------
(* The steps of a transaction.                                               *)

LEMMA InTransaction ==
  ASSUME IndInv, NEW r \in Requests, Running(request[r]), NEW d \in Open,
         request' = [request EXCEPT ![r] = d],
         UNCHANGED <<rows, hashtags, posted, category>>,
         Running(d), d.payload = request[r].payload,
         d.taken = request[r].taken, d.seen = request[r].seen,
         Placed(d), Dealing(d), Unclashed(d), Connected(d, hashtags, category)
  PROVE  IndInv'
  <1>1. Opened(request[r], hashtags, category) /\ request[r].pc # "done"
    BY Stages DEF Running, IndInv
  <1>2. Vouched(d, category)
    BY <1>1 DEF Opened, Vouched, Item
  <1>3. Sound(d, hashtags, category) /\ d.status \notin {201, 409}
    BY <1>2 DEF Sound, Opened, Open
  <1>4. d.seen \subseteq hashtags /\ d.taken \subseteq CommittedNames
    BY DEF IndInv, Remembered
  <1> QED
    BY <1>1, <1>3, <1>4, Moved

(* Where a running transaction is in its payload.                            *)
LEMMA Position ==
  ASSUME IndInv, NEW r \in Requests, Running(request[r]), Bulk(r)
  PROVE  /\ Opened(request[r], hashtags, category)
         /\ request[r].pc # "done"
         /\ request[r].kind = "bulk"
         /\ Len(request[r].payload) \in Nat
         /\ DOMAIN request[r].payload = 1..Len(request[r].payload)
         /\ request[r].next \in Nat \ {0}
         /\ request[r].next <= Len(request[r].payload) + 1
         /\ request[r].pc # "find" => request[r].next \in DOMAIN request[r].payload
         /\ request[r].next \in DOMAIN request[r].payload => request[r].next + 1 \in 1..(MaxWagers + 1)
         /\ \A i \in DOMAIN request[r].payload :
              i < request[r].next + 1 <=> i < request[r].next \/ i = request[r].next
  <1> DEFINE c == request[r]
  <1>1. Opened(c, hashtags, category) /\ c.pc # "done" /\ c.kind = "bulk"
    BY Stages DEF Running, Bulk, IndInv
  <1>2. /\ Len(c.payload) \in Nat /\ DOMAIN c.payload = 1..Len(c.payload)
        /\ c.next \in 1..(MaxWagers + 1) /\ Len(c.payload) \in 1..MaxWagers
        /\ c.next <= Len(c.payload) + 1
        /\ c.pc # "find" => c.next <= Len(c.payload)
    BY <1>1, Payload DEF Opened, Placed, Open
  <1>3. \A i \in 1..Len(c.payload) : i < c.next + 1 <=> i < c.next \/ i = c.next
    BY <1>2, MaxWagersAssumption
  <1>4. c.next \in DOMAIN c.payload => c.next + 1 \in 1..(MaxWagers + 1)
    BY <1>2, MaxWagersAssumption
  <1>5. c.next \in Nat \ {0} /\ (c.pc # "find" => c.next \in DOMAIN c.payload)
    BY <1>2, MaxWagersAssumption
  <1> QED
    BY <1>1, <1>2, <1>3, <1>4, <1>5

LEMMA FindStep ==
  ASSUME IndInv, NEW r \in Requests, FindWager(r)
  PROVE  IndInv'
  <1> DEFINE c == request[r]
  <1>1. c.pc = "find" /\ Running(c) /\ Bulk(r) /\ UNCHANGED <<rows, hashtags, posted, category>>
    <2>1. c.pc = "find" /\ Running(c) /\ UNCHANGED <<rows, hashtags, posted, category>>
      BY DEF FindWager, At, Running
    <2>2. Opened(c, hashtags, category)
      BY <2>1, Stages DEF IndInv
    <2> QED
      BY <2>1, <2>2 DEF Opened, Placed, Open, Bulk
  <1>2. c.next \in DOMAIN c.payload
    BY <1>1, Position DEF FindWager
  <1>3. CASE Current(r).name \in CommittedNames \cup NamesOf(r, Written(r))
    <2>1. PICK status \in Statuses \ {201} : status = 400
      BY DEF Statuses
    <2>2. /\ request' = [request EXCEPT ![r] = Answered(request[r], status)]
          /\ c.pc # "done" /\ status # 409
      BY <1>1, <1>3, <2>1 DEF FindWager, Rollback, Answer
    <2> QED
      BY <1>1, <2>2, Refused
  <1>4. CASE Current(r).name \notin CommittedNames \cup NamesOf(r, Written(r))
    <2> DEFINE d == [c EXCEPT !.pc = "create"]
    <2>1. request' = [request EXCEPT ![r] = d]
      BY <1>4, Zenon DEF FindWager
    <2>2. /\ d \in Open /\ d.pc = "create" /\ d.kind = c.kind /\ d.payload = c.payload
          /\ d.next = c.next /\ d.refused = c.refused /\ d.todo = c.todo /\ d.missing = c.missing
          /\ d.inserted = c.inserted /\ d.taken = c.taken /\ d.seen = c.seen
      BY <1>1, Position DEF Opened, Open
    <2> HIDE DEF d
    <2>3. Placed(d) /\ Dealing(d)
      BY <1>1, <1>2, <2>2, Position DEF Opened, Placed, Dealing, Inside, Item
    <2>4. Connected(d, hashtags, category)
      BY <1>1, <2>2, Position DEF Opened, Connected, Inserted, Running, Item
    <2>5. Unclashed(d)
      <3>1. Written(r) = Looked(c) /\ Looked(d) = Looked(c) \cup {c.next}
        BY <1>1, <1>2, <2>2, Position DEF Written, Looked, Running, Opened, Dealing, Inside, Bulk
      <3>2. Item(c, c.next).name \notin c.taken
        BY <1>4 DEF IndInv, Remembered, Current, Item
      <3>3. \A i \in Looked(c) : Item(c, i).name # Item(c, c.next).name
        BY <1>4, <3>1 DEF NamesOf, Current, Item
      <3>4. \A i \in DOMAIN c.payload : Item(d, i) = Item(c, i)
        BY <2>2 DEF Item
      <3>5. Looked(c) \subseteq DOMAIN c.payload
        BY DEF Looked
      <3>6. Unclashed(c)
        BY <1>1, Position DEF Opened
      <3> QED
        BY <1>2, <2>2, <3>1, <3>2, <3>3, <3>4, <3>5, <3>6 DEF Unclashed
    <2>6. Running(d)
      BY <2>2 DEF Running
    <2> QED
      BY <1>1, <2>1, <2>2, <2>3, <2>4, <2>5, <2>6, InTransaction
  <1> QED
    BY <1>3, <1>4

LEMMA InsertWagerStep ==
  ASSUME IndInv, NEW r \in Requests, InsertWager(r)
  PROVE  IndInv'
  <1> DEFINE c == request[r]
             tags == HashtagsOf(Current(r))
  <1>1. c.pc = "create" /\ Running(c) /\ Bulk(r) /\ UNCHANGED <<rows, hashtags, posted, category>>
    BY DEF InsertWager, At, Running
  <1>2. c.next \in DOMAIN c.payload /\ Current(r) = Item(c, c.next)
    BY <1>1, Position DEF Current, Item
  <1>3. CASE category[Current(r).category] # "live"
    <2>1. PICK status \in Statuses \ {201} : status = 409
      BY DEF Statuses
    <2>2. Overlapped(c, hashtags, category)
      BY <1>1, <1>2, <1>3, SeenCategory DEF Overlapped, Item
    <2>3. request' = [request EXCEPT ![r] = Answered(request[r], status)] /\ c.pc # "done"
      BY <1>1, <1>3, <2>1, Codes DEF InsertWager, Rollback, Answer
    <2> QED
      BY <1>1, <2>2, <2>3, Refused
  <1>4. CASE category[Current(r).category] = "live" /\ tags = {}
    <2> DEFINE d == NextWager(c)
    <2>1. request' = [request EXCEPT ![r] = d]
      BY <1>4, Zenon DEF InsertWager
    <2>2. /\ d \in Open /\ d.pc = "find" /\ d.kind = c.kind /\ d.payload = c.payload
          /\ d.next = c.next + 1 /\ d.refused = c.refused /\ d.todo = c.todo /\ d.missing = c.missing
          /\ d.inserted = c.inserted /\ d.taken = c.taken /\ d.seen = c.seen
      BY <1>1, <1>2, Position DEF Opened, Open, NextWager
    <2> HIDE DEF d
    <2>3. Placed(d) /\ Dealing(d)
      BY <1>1, <1>2, <2>2, Position DEF Opened, Placed, Dealing, Inside, Item, Bulk
    <2>4. Looked(d) = Looked(c) /\ Inserted(d) \subseteq Inserted(c) \cup {c.next}
      BY <1>1, <1>2, <2>2, Position DEF Looked, Inserted, Running, Opened, Dealing, Inside
    <2>5. Unclashed(d)
      BY <1>1, <2>2, <2>4, Position DEF Opened, Unclashed, Item
    <2>6. Connected(d, hashtags, category)
      <3>1. Connected(c, hashtags, category) /\ c.todo = {}
        BY <1>1, Position DEF Opened, Dealing, Inside
      <3> QED
        BY <1>2, <1>4, <2>2, <2>4, <3>1 DEF Connected, Item
    <2>7. Running(d)
      BY <2>2 DEF Running
    <2> QED
      BY <1>1, <2>1, <2>2, <2>3, <2>5, <2>6, <2>7, InTransaction
  <1>5. CASE category[Current(r).category] = "live" /\ tags # {}
    <2> DEFINE d == [c EXCEPT !.pc = "connect", !.todo = tags]
    <2>1. request' = [request EXCEPT ![r] = d]
      BY <1>5, Zenon DEF InsertWager
    <2>2. /\ d \in Open /\ d.pc = "connect" /\ d.kind = c.kind /\ d.payload = c.payload
          /\ d.next = c.next /\ d.refused = c.refused /\ d.todo = tags /\ d.missing = c.missing
          /\ d.inserted = c.inserted /\ d.taken = c.taken /\ d.seen = c.seen
      <3>1. tags \subseteq Tags
        BY <1>1, <1>2, Position, Payload DEF Opened
      <3> HIDE DEF tags
      <3> QED
        BY <1>1, <3>1, Position DEF Opened, Open
    <2> HIDE DEF d
    <2>3. Placed(d) /\ Dealing(d)
      BY <1>1, <1>2, <1>5, <2>2, Position DEF Opened, Placed, Dealing, Inside, Item, Bulk
    <2>4. Looked(d) = Looked(c) /\ Inserted(d) \subseteq Inserted(c) \cup {c.next}
      BY <1>1, <1>2, <2>2, Position DEF Looked, Inserted, Running, Opened, Dealing, Inside
    <2>5. Unclashed(d)
      BY <1>1, <2>2, <2>4, Position DEF Opened, Unclashed, Item
    <2>6. Connected(d, hashtags, category)
      <3>1. Connected(c, hashtags, category) /\ c.todo = {}
        BY <1>1, Position DEF Opened, Dealing, Inside
      <3> QED
        BY <1>2, <1>5, <2>2, <2>4, <3>1 DEF Connected, Item
    <2>7. Running(d)
      BY <2>2 DEF Running
    <2> QED
      BY <1>1, <2>1, <2>2, <2>3, <2>5, <2>6, <2>7, InTransaction
  <1> QED
    BY <1>3, <1>4, <1>5

(* A hashtag that exists, or that the transaction has inserted itself, is    *)
(* connected.                                                                *)
LEMMA ConnectStep ==
  ASSUME IndInv, NEW r \in Requests, Running(request[r]), request[r].pc = "connect", Bulk(r),
         NEW t \in request[r].todo, t \in hashtags \cup request[r].inserted,
         Connect(r, t), UNCHANGED <<rows, hashtags, posted, category>>
  PROVE  IndInv'
  <1> DEFINE c == request[r]
  <1>1. c.next \in DOMAIN c.payload
    BY Position
  <1>2. /\ c.todo # {} /\ c.todo \subseteq HashtagsOf(Item(c, c.next)) /\ c.missing = {}
        /\ c.todo \subseteq Tags
    BY Position DEF Opened, Dealing, Inside, Open
  <1>3. CASE c.todo = {t}
    <2> DEFINE d == [NextWager(c) EXCEPT !.todo = {}]
    <2>1. request' = [request EXCEPT ![r] = d]
      BY <1>3, Zenon DEF Connect
    <2>2. /\ d \in Open /\ d.pc = "find" /\ d.kind = c.kind /\ d.payload = c.payload
          /\ d.next = c.next + 1 /\ d.refused = c.refused /\ d.todo = {} /\ d.missing = c.missing
          /\ d.inserted = c.inserted /\ d.taken = c.taken /\ d.seen = c.seen
      BY <1>1, Position DEF Opened, Open, NextWager
    <2> HIDE DEF d
    <2>3. Placed(d) /\ Dealing(d)
      BY <1>1, <1>2, <2>2, Position DEF Opened, Placed, Dealing, Inside, Item, Bulk
    <2>4. Looked(d) = Looked(c) /\ Inserted(d) = Inserted(c)
      BY <1>1, <1>2, <2>2, Position DEF Looked, Inserted, Running
    <2>5. Unclashed(d)
      BY <2>2, <2>4, Position DEF Opened, Unclashed, Item
    <2>6. Connected(d, hashtags, category)
      <3>1. Connected(c, hashtags, category)
        BY Position DEF Opened
      <3> QED
        BY <1>3, <2>2, <2>4, <3>1 DEF Connected, Item
    <2>7. Running(d)
      BY <2>2 DEF Running
    <2> QED
      BY <2>1, <2>2, <2>3, <2>5, <2>6, <2>7, InTransaction
  <1>4. CASE c.todo # {t}
    <2> DEFINE d == [c EXCEPT !.pc = "connect", !.todo = c.todo \ {t}]
    <2>1. request' = [request EXCEPT ![r] = d]
      BY <1>4, Zenon DEF Connect
    <2>2. /\ d \in Open /\ d.pc = "connect" /\ d.kind = c.kind /\ d.payload = c.payload
          /\ d.next = c.next /\ d.refused = c.refused /\ d.todo = c.todo \ {t}
          /\ d.missing = c.missing
          /\ d.inserted = c.inserted /\ d.taken = c.taken /\ d.seen = c.seen
      BY <1>2, Position DEF Opened, Open
    <2> HIDE DEF d
    <2>3. d.todo # {}
      BY <1>4, <2>2
    <2>4. Placed(d) /\ Dealing(d)
      BY <1>1, <1>2, <2>2, <2>3, Position DEF Opened, Placed, Dealing, Inside, Item, Bulk
    <2>5. Looked(d) = Looked(c) /\ Inserted(d) = Inserted(c)
      BY <1>2, <2>2, <2>3, Position DEF Looked, Inserted, Running
    <2>6. Unclashed(d)
      BY <2>2, <2>5, Position DEF Opened, Unclashed, Item
    <2>7. Connected(d, hashtags, category)
      <3>1. Connected(c, hashtags, category)
        BY Position DEF Opened
      <3> QED
        BY <2>2, <2>5, <3>1 DEF Connected, Item
    <2>8. Running(d)
      BY <2>2 DEF Running
    <2> QED
      BY <2>1, <2>2, <2>4, <2>6, <2>7, <2>8, InTransaction
  <1> QED
    BY <1>3, <1>4

LEMMA LookUpStep ==
  ASSUME IndInv, NEW r \in Requests, LookUpHashtag(r)
  PROVE  IndInv'
  <1> DEFINE c == request[r]
  <1>1. /\ c.pc = "connect" /\ Running(c) /\ Bulk(r) /\ UNCHANGED <<rows, hashtags, posted, category>>
        /\ Opened(c, hashtags, category)
    <2>1. c.pc = "connect" /\ Running(c) /\ UNCHANGED <<rows, hashtags, posted, category>>
      BY DEF LookUpHashtag, At, Running
    <2>2. Opened(c, hashtags, category)
      BY <2>1, Stages DEF IndInv
    <2> QED
      BY <2>1, <2>2 DEF Opened, Placed, Open, Bulk
  <1>2. PICK t \in c.todo : IF t \in hashtags \cup c.inserted THEN Connect(r, t)
                            ELSE request' = [request EXCEPT ![r] = [@ EXCEPT !.pc = "insert", !.missing = {t}]]
    BY Zenon DEF LookUpHashtag
  <1>3. CASE t \in hashtags \cup c.inserted
    BY <1>1, <1>2, <1>3, ConnectStep
  <1>4. CASE t \notin hashtags \cup c.inserted
    <2> DEFINE d == [c EXCEPT !.pc = "insert", !.missing = {t}]
    <2>1. request' = [request EXCEPT ![r] = d]
      BY <1>2, <1>4, Zenon
    <2>2. t \in Tags /\ t \notin c.seen
      BY <1>1, <1>4 DEF IndInv, Remembered, Opened, Open
    <2>3. /\ d \in Open /\ d.pc = "insert" /\ d.kind = c.kind /\ d.payload = c.payload
          /\ d.next = c.next /\ d.refused = c.refused /\ d.todo = c.todo /\ d.missing = {t}
          /\ d.inserted = c.inserted /\ d.taken = c.taken /\ d.seen = c.seen
      BY <1>1, <2>2 DEF Opened, Open
    <2> HIDE DEF d
    <2>4. Placed(d)
      BY <1>1, <2>3, Position DEF Opened, Placed, Bulk
    <2>5. Dealing(d)
      BY <1>1, <1>4, <2>2, <2>3 DEF Opened, Dealing, Inside, Item
    <2>6. Looked(d) = Looked(c) /\ Inserted(d) = Inserted(c)
      BY <1>1, <2>3 DEF Looked, Inserted, Running
    <2>7. Unclashed(d) /\ Connected(d, hashtags, category)
      BY <1>1, <2>3, <2>6 DEF Opened, Unclashed, Connected, Item
    <2>8. Running(d)
      BY <2>3 DEF Running
    <2> QED
      BY <1>1, <2>1, <2>3, <2>4, <2>5, <2>7, <2>8, InTransaction
  <1> QED
    BY <1>3, <1>4

LEMMA InsertHashtagStep ==
  ASSUME IndInv, NEW r \in Requests, InsertHashtag(r)
  PROVE  IndInv'
  <1> DEFINE c == request[r]
  <1>1. /\ c.pc = "insert" /\ Running(c) /\ Bulk(r) /\ UNCHANGED <<rows, hashtags, posted, category>>
        /\ Opened(c, hashtags, category)
    <2>1. c.pc = "insert" /\ Running(c) /\ UNCHANGED <<rows, hashtags, posted, category>>
      BY DEF InsertHashtag, At, Running
    <2>2. Opened(c, hashtags, category)
      BY <2>1, Stages DEF IndInv
    <2> QED
      BY <2>1, <2>2 DEF Opened, Placed, Open, Bulk
  <1>2. /\ c.next \in DOMAIN c.payload
        /\ c.missing # {} /\ c.missing \subseteq c.todo /\ c.todo # {}
        /\ c.todo \subseteq HashtagsOf(Item(c, c.next))
        /\ c.missing \cap c.seen = {}
    BY <1>1, Position DEF Opened, Dealing, Inside
  <1>3. CASE c.missing \subseteq hashtags
    <2>1. PICK status \in Statuses \ {201} : status = 409
      BY DEF Statuses
    <2>2. Overlapped(c, hashtags, category)
      <3>1. c.kind = "bulk" /\ HashtagsOf(Item(c, c.next)) \cap (hashtags \ c.seen) # {}
        BY <1>1, <1>2, <1>3 DEF Bulk
      <3> QED
        BY <1>2, <3>1 DEF Overlapped
    <2>3. request' = [request EXCEPT ![r] = Answered(request[r], status)] /\ c.pc # "done"
      BY <1>1, <1>3, <2>1, Codes DEF InsertHashtag, Rollback, Answer
    <2> QED
      BY <1>1, <2>2, <2>3, Refused
  <1>4. CASE ~(c.missing \subseteq hashtags)
    <2> DEFINE inserted == c.inserted \cup c.missing
               d == [c EXCEPT !.pc = "connect", !.missing = {}, !.inserted = inserted]
    <2>1. request' = [request EXCEPT ![r] = d]
      BY <1>4, Zenon DEF InsertHashtag
    <2>2. inserted \subseteq Tags
      BY <1>1 DEF Opened, Open
    <2>3. /\ d \in Open /\ d.pc = "connect" /\ d.kind = c.kind /\ d.payload = c.payload
          /\ d.next = c.next /\ d.refused = c.refused /\ d.todo = c.todo /\ d.missing = {}
          /\ d.inserted = inserted /\ d.taken = c.taken /\ d.seen = c.seen
      <3> HIDE DEF inserted
      <3> QED
        BY <1>1, <2>2 DEF Opened, Open
    <2> HIDE DEF d
    <2>4. Placed(d)
      BY <1>1, <2>3, Position DEF Opened, Placed, Bulk
    <2>5. Dealing(d)
      <3>1. \A t \in inserted : \E i \in DOMAIN c.payload : t \in HashtagsOf(Item(c, i))
        BY <1>1, <1>2 DEF Opened, Dealing
      <3> QED
        BY <1>1, <1>2, <2>3, <3>1 DEF Dealing, Inside, Item
    <2>6. Looked(d) = Looked(c) /\ Inserted(d) = Inserted(c)
      BY <1>1, <2>3 DEF Looked, Inserted, Running
    <2>7. Unclashed(d) /\ Connected(d, hashtags, category)
      BY <1>1, <2>3, <2>6 DEF Opened, Unclashed, Connected, Item
    <2>8. Running(d)
      BY <2>3 DEF Running
    <2> QED
      BY <1>1, <2>1, <2>3, <2>4, <2>5, <2>7, <2>8, InTransaction
  <1> QED
    BY <1>3, <1>4

LEMMA CommitStep ==
  ASSUME IndInv, NEW r \in Requests, Commit(r)
  PROVE  IndInv'
  <1> DEFINE c == request[r]
  <1>1. /\ c.pc = "find" /\ Running(c) /\ Bulk(r) /\ UNCHANGED <<posted, category>>
        /\ Opened(c, hashtags, category)
    <2>1. c.pc = "find" /\ Running(c) /\ UNCHANGED <<posted, category>>
      BY DEF Commit, At, Running
    <2>2. Opened(c, hashtags, category)
      BY <2>1, Stages DEF IndInv
    <2> QED
      BY <2>1, <2>2 DEF Opened, Placed, Open, Bulk
  <1>2. Looked(c) = DOMAIN c.payload /\ Inserted(c) = DOMAIN c.payload
    <2>1. \A i \in DOMAIN c.payload : i < c.next
      BY <1>1, Position DEF Commit
    <2> QED
      BY <1>1, <2>1 DEF Looked, Inserted, Bulk
  <1>3. /\ request' = [request EXCEPT ![r] = Answered(request[r], 201)]
        /\ rows' = [rows EXCEPT ![r] = DOMAIN request[r].payload]
        /\ hashtags' = hashtags \cup c.inserted
    BY <1>2, WrittenIsInserted DEF Commit, Answer, IndInv
  <1>4. hashtags \subseteq hashtags' /\ hashtags' \subseteq Tags
    BY <1>1, <1>3 DEF Opened, Open, IndInv, TypeOK
  <1>5. \A i \in DOMAIN c.payload : /\ HashtagsOf(c.payload[i]) \subseteq hashtags'
                                    /\ category[c.payload[i].category] = "live"
    BY <1>1, <1>2, <1>3 DEF Opened, Dealing, Inside, Connected, Item
  <1>6. \A i \in DOMAIN c.payload :
          /\ c.payload[i].name \notin c.taken
          /\ \A j \in DOMAIN c.payload : i # j => c.payload[i].name # c.payload[j].name
    BY <1>1, <1>2 DEF Opened, Unclashed, Item
  <1>7. c.pc \notin {"none", "done"}
    BY <1>1
  <1>8. \A t \in hashtags' \ hashtags : Bulk(r) /\ t \in TagsOf(r)
    BY <1>1, <1>3 DEF Opened, Dealing, TagsOf, Item
  <1> QED
    BY <1>1, <1>3, <1>4, <1>5, <1>6, <1>7, <1>8, Stored

LEMMA AbortStep ==
  ASSUME IndInv, NEW r \in Requests, Abort(r)
  PROVE  IndInv'
  <1>1. PICK status \in Statuses \ {201} : status = 500
    BY DEF Statuses
  <1>2. request' = [request EXCEPT ![r] = Answered(request[r], status)]
    <2>1. request' = [request EXCEPT ![r] = Answered(request[r], StatusOf("P2028"))]
      BY Zenon DEF Abort, Rollback, Answer
    <2>2. StatusOf("P2028") = status
      BY <1>1, Codes
    <2> QED
      BY <2>1, <2>2
  <1>3. UNCHANGED <<rows, hashtags, posted, category>> /\ request[r].pc # "done" /\ status # 409
    BY <1>1 DEF Abort
  <1> QED
    BY <1>2, <1>3, Refused

-----------------------------------------------------------------------------
(* The invariant of the specification.                                       *)

LEMMA InitEstablishes == Init => IndInv
  <1> SUFFICES ASSUME Init PROVE IndInv
    OBVIOUS
  <1>1. \A r \in Requests : request[r] = NoCall /\ rows[r] = {}
    BY DEF Init
  <1>2. TypeOK
    <2>1. DOMAIN request = Requests /\ DOMAIN rows = Requests
      BY DEF Init
    <2>2. /\ hashtags \subseteq Tags /\ posted \subseteq hashtags
          /\ category \in [Categories -> {"none", "live", "gone"}]
      BY DEF Init
    <2> QED
      BY <1>1, <2>1, <2>2 DEF TypeOK
  <1>3. \A r \in Requests : Sound(request[r], hashtags, category)
    BY <1>1 DEF Sound
  <1>4. Remembered
    BY <1>1, NoCallShape DEF Remembered
  <1>5. AllOrNothing /\ ConflictOnlyByOverlap
    <2>1. /\ \A r \in Requests : request[r].status = 0
          /\ hashtags = {}
      BY <1>1, NoCallShape DEF Init
    <2> QED
      BY <1>1, <2>1 DEF AllOrNothing, ConflictOnlyByOverlap
  <1>6. ClashOnlyByOverlap
    BY <1>1 DEF ClashOnlyByOverlap, NamesOf
  <1>7. ReferencesExist
    BY <1>1 DEF ReferencesExist
  <1> QED
    BY <1>2, <1>3, <1>4, <1>5, <1>6, <1>7 DEF IndInv

LEMMA NextKeeps == IndInv /\ [Next]_vars => IndInv'
  <1> SUFFICES ASSUME IndInv, [Next]_vars PROVE IndInv'
    OBVIOUS
  <1>1. ASSUME NEW t \in Tags, createHashtag(t) PROVE IndInv'
    BY <1>1, OthersStep
  <1>2. ASSUME NEW c \in Categories, createCategory(c) \/ removeCategory(c) PROVE IndInv'
    BY <1>2, OthersStep
  <1>3. ASSUME NEW r \in Requests, NEW kind \in {"single", "bulk"}, NEW nested \in BOOLEAN,
               Invalid(r, kind, nested)
        PROVE  IndInv'
    BY <1>3, InvalidStep
  <1>4. ASSUME NEW r \in Requests, NEW kind \in {"single", "bulk"}, NEW payload \in Payloads(kind),
               Arrive(r, kind, payload)
        PROVE  IndInv'
    BY <1>4, ArriveStep
  <1>5. ASSUME NEW r \in Requests, canActivate(r) PROVE IndInv'
    BY <1>5, GuardStep
  <1>6. ASSUME NEW r \in Requests, createWager(r) PROVE IndInv'
    BY <1>6, SingleStep
  <1>7. ASSUME NEW r \in Requests, bulkCreateWagers(r) PROVE IndInv'
    BY <1>7, FindStep, InsertWagerStep, LookUpStep, InsertHashtagStep, CommitStep
       DEF bulkCreateWagers
  <1>8. ASSUME NEW r \in Requests, Abort(r) PROVE IndInv'
    BY <1>8, AbortStep
  <1>9. CASE UNCHANGED vars
    BY <1>9 DEF vars, IndInv, TypeOK, Remembered, AllOrNothing, ClashOnlyByOverlap,
       ReferencesExist, ConflictOnlyByOverlap, CommittedNames, NamesOf, TagsOf, Bulk
  <1> QED
    BY <1>1, <1>2, <1>3, <1>4, <1>5, <1>6, <1>7, <1>8, <1>9 DEF Next

LEMMA Always == Spec => []IndInv
  BY InitEstablishes, NextKeeps, PTL DEF Spec

(* What a transaction inserts is in its payload, and is not what it waits to *)
(* insert next.                                                              *)
LEMMA OwnTags ==
  ASSUME IndInv, NEW r \in Requests
  PROVE  /\ request[r].inserted \cup request[r].missing \subseteq TagsOf(r)
         /\ request[r].inserted \cap request[r].missing = {}
  <1> DEFINE c == request[r]
  <1>1. CASE Opened(c, hashtags, category)
    <2>1. Dealing(c) /\ (c.pc = "insert" => c.next \in DOMAIN c.payload)
      <3>1. c \in Open /\ Placed(c) /\ Dealing(c)
        BY <1>1 DEF Opened
      <3>2. Len(c.payload) \in Nat /\ DOMAIN c.payload = 1..Len(c.payload)
        BY <3>1, Payload
      <3>3. c.next \in Nat \ {0}
        BY <3>1, MaxWagersAssumption DEF Open
      <3> QED
        BY <3>1, <3>2, <3>3 DEF Placed
    <2>2. \A t \in c.inserted \cup c.missing :
            \E i \in DOMAIN c.payload : t \in HashtagsOf(Item(c, i))
      BY <2>1 DEF Dealing, Inside
    <2> QED
      BY <2>1, <2>2 DEF TagsOf, Dealing, Item
  <1>2. CASE Ended(c)
    <2>1. c.inserted = {} /\ c.missing = {}
      BY <1>2, AnsweredShape DEF Ended
    <2> QED
      BY <2>1
  <1>3. CASE c = NoCall
    BY <1>3, NoCallShape
  <1> QED
    BY <1>1, <1>2, <1>3 DEF IndInv, Sound

-----------------------------------------------------------------------------
(* Calls, their transactions and what they commit stay in their sets.        *)
THEOREM WagersTypeCorrect == Spec => []TypeOK
  BY Always, PTL DEF IndInv

(* A bulk creation stores its whole payload when it is answered 201, and     *)
(* nothing otherwise: every hashtag was posted by itself or belongs to a     *)
(* payload that was created, however many transactions run at once.          *)
THEOREM PayloadsAreAtomic == Spec => []AllOrNothing
  BY Always, PTL DEF IndInv

(* The check of a name fails only calls that overlap: within a payload, and  *)
(* against what was there before, names stay distinct.                       *)
THEOREM NamesClashOnlyByOverlap == Spec => []ClashOnlyByOverlap
  BY Always, PTL DEF IndInv

(* A stored wager's hashtags and category exist, and go on existing.         *)
THEOREM NothingDangles == Spec => []ReferencesExist
  BY Always, PTL DEF IndInv

(* A 409 always has a cause outside the call that got it.                    *)
THEOREM ConflictsHaveACause == Spec => []ConflictOnlyByOverlap
  BY Always, PTL DEF IndInv

(* Two transactions that wait for each other have two hashtags in common.    *)
THEOREM DeadlocksNeedTwoTags == Spec => []DeadlockTakesTwoTags
  <1>1. IndInv => DeadlockTakesTwoTags
    <2> SUFFICES ASSUME IndInv, NEW r \in Requests, NEW q \in Requests,
                        WaitsFor(r, q), WaitsFor(q, r)
                 PROVE  \E s, t \in TagsOf(r) \cap TagsOf(q) : s # t
      BY DEF DeadlockTakesTwoTags
    <2>1. PICK s \in request[q].inserted : s \in request[r].missing
      BY DEF WaitsFor
    <2>2. PICK t \in request[r].inserted : t \in request[q].missing
      BY DEF WaitsFor
    <2> QED
      BY <2>1, <2>2, OwnTags
  <1> QED
    BY <1>1, Always, PTL
=============================================================================
