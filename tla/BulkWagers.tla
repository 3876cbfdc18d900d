----------------------------- MODULE BulkWagers -----------------------------
(* Creating wagers in the backend.  A guard validates the request and looks  *)
(* up the category of each wager; then createWager inserts one, or           *)
(* bulkCreateWagers a payload of them in one interactive transaction,        *)
(* refusing a name that exists and creating the hashtags that do not.        *)
(*                                                                           *)
(* The transaction runs at PostgreSQL's default isolation, READ COMMITTED:   *)
(* a read sees what is committed and what its own transaction wrote.         *)
(* hashtags.name is unique: inserting a name that another open transaction   *)
(* has inserted waits for that transaction to end, and throws if it commits. *)
(* A wager's category is a foreign key: the insert throws if the category is *)
(* gone, and locks it until the transaction ends if it is not.               *)
(* An open transaction may be aborted at any time, by an error, by Prisma's  *)
(* timeout, or as the victim of a deadlock of two such waits.                *)
(*                                                                           *)
(* No endpoint removes a category: CategoryService.remove is for an operator.*)
EXTENDS Naturals, Sequences, SequencesExt, Http

CONSTANTS Names, Tags, Categories, NoTags,
          Wagers,        \* the wagers a payload is made of
          Requests,      \* POST /wager/create and /wager/bulk-create, each made once
          MaxWagers      \* bound on the length of a bulk payload

Wager == [name : Names, category : Categories, tags : (SUBSET Tags) \cup {NoTags}]

ASSUME MaxWagersAssumption == MaxWagers \in Nat \ {0}
ASSUME WagersAssumption == Wagers \subseteq Wager

VARIABLES request,   \* the calls and their transactions
          rows,      \* the committed wagers of a call, as indexes of its payload
          hashtags,  \* the committed hashtags
          posted,    \* those made by POST /hashtags; no step reads it
          category   \* whether a category is still to be created, live or gone

vars == <<request, rows, hashtags, posted, category>>

Payloads(kind) == IF kind = "single" THEN {<<w>> : w \in Wagers}
                  ELSE BoundedSeq(Wagers, MaxWagers) \ {<<>>}

(* todo: the hashtags of the current wager still to be connected; missing:   *)
(* the one being inserted; inserted: those the transaction has inserted.     *)
(* taken and seen: the payload's names and hashtags that existed when the    *)
(* guard let the call through; no step reads them.                           *)
Open == [pc : {"guard", "find", "create", "connect", "insert"},
         kind : {"single", "bulk"}, payload : Seq(Wagers),
         next : 1..(MaxWagers + 1), refused : BOOLEAN, status : {0},
         todo : SUBSET Tags, missing : SUBSET Tags, inserted : SUBSET Tags,
         taken : SUBSET Names, seen : SUBSET Tags]
NoCall == [pc |-> "none", kind |-> "bulk", payload |-> <<>>,
           next |-> 1, refused |-> FALSE, status |-> 0,
           todo |-> {}, missing |-> {}, inserted |-> {}, taken |-> {}, seen |-> {}]

(* The handler has returned or thrown, and its transaction is over.  Only of *)
(* a payload that was created or met a conflict is there more to say.        *)
Answered(call, status) ==
  LET answer == [NoCall EXCEPT !.pc = "done", !.kind = call.kind, !.status = status]
  IN  IF status \notin {201, 409} THEN answer
      ELSE [answer EXCEPT !.payload = call.payload, !.taken = call.taken, !.seen = call.seen]
Statuses == {201, 400, 404, 409, 500}

TypeOK == /\ DOMAIN request = Requests /\ DOMAIN rows = Requests
          /\ \A r \in Requests :
               \/ request[r] \in Open \cup {NoCall}
               \/ /\ request[r].status \in Statuses
                  /\ request[r] = Answered(request[r], request[r].status)
          /\ \A r \in Requests : rows[r] \subseteq DOMAIN request[r].payload
          /\ hashtags \subseteq Tags /\ posted \subseteq hashtags
          /\ category \in [Categories -> {"none", "live", "gone"}]

Init == /\ request = [r \in Requests |-> NoCall]
        /\ rows = [r \in Requests |-> {}]
        /\ hashtags = {} /\ posted = {}
        /\ category = [c \in Categories |-> "none"]

At(r, pc) == request[r].pc = pc
Bulk(r) == request[r].kind = "bulk"
Current(r) == request[r].payload[request[r].next]
HashtagsOf(w) == IF w.tags = NoTags THEN {} ELSE w.tags

NamesOf(r, indexes) == {request[r].payload[i].name : i \in indexes}
TagsOf(r) == UNION {HashtagsOf(request[r].payload[i]) : i \in DOMAIN request[r].payload}
CommittedNames == UNION {NamesOf(r, rows[r]) : r \in Requests}

(* The wagers an open transaction has inserted.                              *)
Written(r) == IF ~Bulk(r) \/ request[r].pc \notin {"find", "create", "connect", "insert"} THEN {}
              ELSE {i \in DOMAIN request[r].payload :
                      i < request[r].next \/ (i = request[r].next /\ request[r].todo # {})}

-----------------------------------------------------------------------------
(* POST /hashtags, which waits for a transaction that inserts the name.      *)
createHashtag(t) ==
  /\ t \notin hashtags
  /\ \A r \in Requests : t \notin request[r].inserted
  /\ hashtags' = hashtags \cup {t}
  /\ posted' = posted \cup {t}
  /\ UNCHANGED <<request, rows, category>>

(* POST /categories/create: the database draws an id that was never used.    *)
createCategory(c) == /\ category[c] = "none"
                     /\ category' = [category EXCEPT ![c] = "live"]
                     /\ UNCHANGED <<request, rows, hashtags, posted>>

(* MUTANT: wagers have no foreign key to their category.                     *)
removeAnyCategory(c) == /\ category[c] = "live"
                        /\ category' = [category EXCEPT ![c] = "gone"]
                        /\ UNCHANGED <<request, rows, hashtags, posted>>

(* A category that a wager refers to stays; one that an open transaction has *)
(* locked waits for it.                                                      *)
removeCategory(c) ==
  /\ category[c] = "live"
  /\ \A r \in Requests : \A i \in rows[r] \cup Written(r) :
       request[r].payload[i].category # c
  /\ category' = [category EXCEPT ![c] = "gone"]
  /\ UNCHANGED <<request, rows, hashtags, posted>>

-----------------------------------------------------------------------------
(* A body that does not validate is refused; but the message about a wager   *)
(* nested in a bulk payload is made from constraints it does not have.       *)
Invalid(r, kind, nested) ==
  /\ request[r] = NoCall
  /\ nested => kind = "bulk"
  /\ request' = [request EXCEPT ![r] = Answered([NoCall EXCEPT !.kind = kind],
                                                IF nested THEN 500 ELSE 400)]
  /\ UNCHANGED <<rows, hashtags, posted, category>>

Arrive(r, kind, payload) ==
  /\ request[r] = NoCall
  /\ request' = [request EXCEPT ![r] = [NoCall EXCEPT !.pc = "guard", !.kind = kind,
                                                      !.payload = payload]]
  /\ UNCHANGED <<rows, hashtags, posted, category>>

Answer(r, status) == request' = [request EXCEPT ![r] = Answered(@, status)]

(* The guard has finished, and the handler starts.                           *)
Admit(r) ==
  request' = [request EXCEPT ![r] =
                [@ EXCEPT !.pc = IF Bulk(r) THEN "find" ELSE "create",
                          !.next = 1,
                          !.taken = CommittedNames \cap NamesOf(r, DOMAIN request[r].payload),
                          !.seen = hashtags \cap TagsOf(r)]]

(* MUTANT: the guard looks at the category of the last wager only.           *)
canActivateLast(r) ==
  /\ At(r, "guard")
  /\ LET refused == category[Current(r).category] # "live"
     IN  IF request[r].next < Len(request[r].payload)
         THEN request' = [request EXCEPT ![r].next = @ + 1]
         ELSE IF refused THEN Answer(r, 400) ELSE Admit(r)
  /\ UNCHANGED <<rows, hashtags, posted, category>>

(* CreateWagerGuard and BulkCreateWagerGuard look the categories up one by   *)
(* one, and collect what is wrong.                                           *)
canActivate(r) ==
  /\ At(r, "guard")
  /\ LET refused == request[r].refused \/ category[Current(r).category] # "live"
     IN  IF request[r].next < Len(request[r].payload)
         THEN request' = [request EXCEPT ![r] =
                            [@ EXCEPT !.next = request[r].next + 1, !.refused = refused]]
         ELSE IF refused THEN Answer(r, 400) ELSE Admit(r)
  /\ UNCHANGED <<rows, hashtags, posted, category>>

(* createWager connects hashtags that must exist, and looks at no name; a    *)
(* payload without hashtags, which the DTO allows, makes it throw.           *)
createWager(r) ==
  /\ At(r, "create") /\ ~Bulk(r)
  /\ LET w == Current(r)
         gone == category[w.category] # "live"
         unknown == ~(HashtagsOf(w) \subseteq hashtags)
     IN  \/ w.tags = NoTags /\ Answer(r, 500) /\ UNCHANGED rows
         \/ w.tags # NoTags /\ gone /\ Answer(r, StatusOf("P2003")) /\ UNCHANGED rows
         \/ w.tags # NoTags /\ unknown /\ Answer(r, StatusOf("P2025")) /\ UNCHANGED rows
         \/ /\ w.tags # NoTags /\ ~gone /\ ~unknown
            /\ Answer(r, 201)
            /\ rows' = [rows EXCEPT ![r] = {1}]
  /\ UNCHANGED <<hashtags, posted, category>>

-----------------------------------------------------------------------------
(* MUTANT: what the transaction has inserted is not undone.                  *)
RollbackNothing(r, status) ==
  request' = [request EXCEPT ![r] = [Answered(@, status) EXCEPT !.inserted = request[r].inserted]]

Rollback(r, status) == Answer(r, status)

(* MUTANT: the name is looked up outside the transaction.                    *)
FindWagerOutside(r) ==
  /\ At(r, "find") /\ request[r].next <= Len(request[r].payload)
  /\ IF Current(r).name \in CommittedNames
     THEN Rollback(r, 400)
     ELSE request' = [request EXCEPT ![r].pc = "create"]
  /\ UNCHANGED <<rows, hashtags, posted, category>>

(* tx.wager.findFirst by name                                                *)
FindWager(r) ==
  /\ At(r, "find") /\ request[r].next <= Len(request[r].payload)
  /\ IF Current(r).name \in CommittedNames \cup NamesOf(r, Written(r))
     THEN Rollback(r, 400)
     ELSE request' = [request EXCEPT ![r] = [@ EXCEPT !.pc = "create"]]
  /\ UNCHANGED <<rows, hashtags, posted, category>>

(* The wager is complete, and the loop goes on.                              *)
NextWager(call) == [call EXCEPT !.pc = "find", !.next = @ + 1]

(* tx.wager.create inserts the row ...                                       *)
InsertWager(r) ==
  /\ At(r, "create") /\ Bulk(r)
  /\ IF category[Current(r).category] # "live"
     THEN Rollback(r, StatusOf("P2003"))
     ELSE request' = [request EXCEPT ![r] =
                        IF HashtagsOf(Current(r)) = {} THEN NextWager(@)
                        ELSE [@ EXCEPT !.pc = "connect", !.todo = HashtagsOf(Current(r))]]
  /\ UNCHANGED <<rows, hashtags, posted, category>>

(* A hashtag that exists is connected.                                       *)
Connect(r, t) ==
  request' = [request EXCEPT ![r] = IF @.todo = {t} THEN [NextWager(@) EXCEPT !.todo = {}]
                                    ELSE [@ EXCEPT !.pc = "connect", !.todo = request[r].todo \ {t}]]

(* MUTANT: a missing hashtag is reserved before it is known to be free.      *)
LookUpHashtagReserving(r) ==
  /\ At(r, "connect")
  /\ \E t \in request[r].todo :
       IF t \in hashtags \cup request[r].inserted
       THEN Connect(r, t)
       ELSE request' = [request EXCEPT ![r].pc = "insert", ![r].missing = {t},
                                       ![r].inserted = @ \cup {t}]
  /\ UNCHANGED <<rows, hashtags, posted, category>>

(* ... and looks its hashtags up, one by one ...                             *)
LookUpHashtag(r) ==
  /\ At(r, "connect")
  /\ \E t \in request[r].todo :
       IF t \in hashtags \cup request[r].inserted
       THEN Connect(r, t)
       ELSE request' = [request EXCEPT ![r] = [@ EXCEPT !.pc = "insert", !.missing = {t}]]
  /\ UNCHANGED <<rows, hashtags, posted, category>>

(* ... inserting one that is missing, after whoever else is inserting it.    *)
WaitsFor(r, q) == q # r /\ request[q].inserted \cap request[r].missing # {}

(* MUTANT: a missing hashtag is inserted outside of the transaction.         *)
InsertHashtagOutside(r) ==
  /\ At(r, "insert")
  /\ \A q \in Requests : ~WaitsFor(r, q)
  /\ IF request[r].missing \subseteq hashtags
     THEN Rollback(r, StatusOf("P2002")) /\ UNCHANGED hashtags
     ELSE /\ request' = [request EXCEPT ![r] = [@ EXCEPT !.pc = "connect", !.missing = {}]]
          /\ hashtags' = hashtags \cup request[r].missing
  /\ UNCHANGED <<rows, posted, category>>

InsertHashtag(r) ==
  /\ At(r, "insert")
  /\ \A q \in Requests : ~WaitsFor(r, q)
  /\ IF request[r].missing \subseteq hashtags
     THEN Rollback(r, StatusOf("P2002"))
     ELSE request' = [request EXCEPT ![r] =
                        [@ EXCEPT !.pc = "connect", !.missing = {},
                                  !.inserted = request[r].inserted \cup request[r].missing]]
  /\ UNCHANGED <<rows, hashtags, posted, category>>

(* MUTANT: the loop over the payload ends one wager early.                   *)
CommitEarly(r) ==
  /\ At(r, "find") /\ request[r].next >= Len(request[r].payload)
  /\ Answer(r, 201)
  /\ rows' = [rows EXCEPT ![r] = Written(r)]
  /\ hashtags' = hashtags \cup request[r].inserted
  /\ UNCHANGED <<posted, category>>

Commit(r) ==
  /\ At(r, "find") /\ request[r].next > Len(request[r].payload)
  /\ Answer(r, 201)
  /\ rows' = [rows EXCEPT ![r] = Written(r)]
  /\ hashtags' = hashtags \cup request[r].inserted
  /\ UNCHANGED <<posted, category>>

(* Neither a timeout (P2028) nor a deadlock (P2034) has a status of its own. *)
Abort(r) == /\ Bulk(r) /\ request[r].pc \in {"find", "create", "connect", "insert"}
            /\ Rollback(r, StatusOf("P2028"))
            /\ UNCHANGED <<rows, hashtags, posted, category>>

bulkCreateWagers(r) == \/ FindWager(r) \/ InsertWager(r) \/ LookUpHashtag(r)
                       \/ InsertHashtag(r) \/ Commit(r)

Next ==
  \/ \E t \in Tags : createHashtag(t)
  \/ \E c \in Categories : createCategory(c) \/ removeCategory(c)
  \/ \E r \in Requests, kind \in {"single", "bulk"} :
       \/ \E nested \in BOOLEAN : Invalid(r, kind, nested)
       \/ \E payload \in Payloads(kind) : Arrive(r, kind, payload)
  \/ \E r \in Requests :
       canActivate(r) \/ createWager(r) \/ bulkCreateWagers(r) \/ Abort(r)

Spec == Init /\ [][Next]_vars

-----------------------------------------------------------------------------
(* A call that is answered 201 has created its payload as a whole; one that  *)
(* is answered anything else, or still runs, has created nothing: no wager,  *)
(* and no hashtag either, though it may have inserted several and somebody   *)
(* may have waited for them.                                                 *)
AllOrNothing ==
  /\ \A r \in Requests :
       rows[r] = IF request[r].status = 201 THEN DOMAIN request[r].payload ELSE {}
  /\ \A t \in hashtags \ posted :
       \E r \in Requests : Bulk(r) /\ request[r].status = 201 /\ t \in TagsOf(r)

(* The check of a name sees the wagers its own transaction has just created  *)
(* and those committed before it began: only calls that overlap can create a *)
(* name twice.                                                               *)
ClashOnlyByOverlap ==
  \A r \in Requests :
    Bulk(r) =>
      /\ \A i, j \in rows[r] :
           i # j => request[r].payload[i].name # request[r].payload[j].name
      /\ NamesOf(r, rows[r]) \cap request[r].taken = {}

(* A created wager has its hashtags and its category: though another call    *)
(* was inserting the hashtag at the same time and was rolled back, or the    *)
(* category was being removed since the guard had seen it.                   *)
ReferencesExist ==
  \A r \in Requests : \A i \in rows[r] :
    /\ HashtagsOf(request[r].payload[i]) \subseteq hashtags
    /\ category[request[r].payload[i].category] = "live"

(* A conflict is never the payload's own: a category that the guard had seen *)
(* is gone, or a hashtag that was missing has been inserted meanwhile.       *)
ConflictOnlyByOverlap ==
  \A r \in Requests : request[r].status = 409 =>
    \E i \in DOMAIN request[r].payload :
      LET w == request[r].payload[i]
      IN  \/ category[w.category] = "gone"
          \/ Bulk(r) /\ HashtagsOf(w) \cap (hashtags \ request[r].seen) # {}

(* Two calls wait for each other only when each has inserted a hashtag that  *)
(* the other's payload has too: payloads with one hashtag in common, and a   *)
(* call that has inserted nothing, never deadlock.                           *)
DeadlockTakesTwoTags ==
  \A r, q \in Requests :
    WaitsFor(r, q) /\ WaitsFor(q, r) =>
      \E s, t \in TagsOf(r) \cap TagsOf(q) : s # t
=============================================================================
