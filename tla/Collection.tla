----------------------------- MODULE Collection -----------------------------
(***************************************************************************)
(* OCF resource collections (src/api/oc_collection.c).  The application   *)
(* allocates collections from a pool, registers them in the global list    *)
(* oc_collections, creates links to resources from a link pool and adds    *)
(* them to a collection's link list, which oc_collection_add_link keeps    *)
(* ordered by href length and then by strcmp.  Every resource counts the   *)
(* links that point to it (num_links).  Adding or removing a link arms the *)
(* links-list notification, which then arms the baseline notification.    *)
(* A request on a collection is answered through the baseline, links-list *)
(* or batch interface; the batch interface calls the handler of every      *)
(* linked resource and recurses into a linked collection through its       *)
(* default interface.                                                      *)
(*                                                                         *)
(* Everything runs on the single event-loop thread, so each API call and   *)
(* each delayed callback is one atomic step.  An href is abstracted to its *)
(* length and its rank in strcmp order among the hrefs of the model.       *)
(***************************************************************************)
EXTENDS Integers, Sequences, FiniteSets, SequencesExt

CONSTANTS
    AppRes,      \* registered application resources (never deleted here)
    CollSlots,   \* the oc_collections_s pool (OC_MAX_NUM_COLLECTIONS)
    LinkSlots,   \* the oc_links_s pool (OC_MAX_APP_RESOURCES)
    Href,        \* Href[r]: [len |-> uri length, rank |-> strcmp rank]
    DefaultIf,   \* DefaultIf[c]: default interface of collection c
    MaxNumLinks  \* bound on num_links, so that a leaking count stays finite

Res == AppRes \cup CollSlots
NoRes == "NoRes"     \* target of a free link slot

(* CoAP response codes as oc_status_code returns them. *)
CONTENT == 69
CHANGED == 68
DELETED == 66
BAD_REQUEST == 128
FORBIDDEN == 131
METHOD_NOT_ALLOWED == 133
NoHandler == -1      \* the member has no handler for the method

Methods == {"GET", "PUT", "POST", "DELETE"}
Ifaces == {"baseline", "ll", "b"}
(* What a member's handler answers: a success, an error, or no response,  *)
(* which leaves response_buffer.code at 0.                                *)
HandlerCodes == {0, CHANGED, BAD_REQUEST}
EmptyHref == [len |-> 0, rank |-> 0]

VARIABLES
    collections,  \* the oc_collections list, in order of oc_collection_add
    alloc,        \* collection slots allocated from oc_collections_s
    links,        \* links[c]: the link list of collection c
    target,       \* target[l]: link->resource, NoRes when the slot is free
    numLinks,     \* numLinks[r]: r->num_links
    pending       \* armed delayed callbacks <<collection, kind>>

vars == <<collections, alloc, links, target, numLinks, pending>>

InAnyList(l) == \E c \in CollSlots : Contains(links[c], l)
(* A link the application holds: allocated and in no collection. *)
Held(l) == target[l] # NoRes /\ ~InAnyList(l)
Registered(r) == Contains(collections, r)

(* oc_check_if_collection *)
IsCollection(r) == Registered(r)

Init ==
    /\ collections = <<>>
    /\ alloc = {}
    /\ links = [c \in CollSlots |-> <<>>]
    /\ target = [l \in LinkSlots |-> NoRes]
    /\ numLinks = [r \in Res |-> 0]
    /\ pending = {}

(* oc_collection_alloc: a free slot, its lists empty. *)
CollectionAlloc(c) ==
    /\ c \notin alloc
    /\ alloc' = alloc \cup {c}
    /\ links' = [links EXCEPT ![c] = <<>>]
    /\ numLinks' = [numLinks EXCEPT ![c] = 0]
    /\ UNCHANGED <<collections, target, pending>>

(* oc_collection_add: append to oc_collections. *)
CollectionAdd(c) ==
    /\ c \in alloc /\ ~Registered(c)
    /\ collections' = Append(collections, c)
    /\ UNCHANGED <<alloc, links, target, numLinks, pending>>

(* oc_new_link: take a link from the pool and count it at the resource.   *)
(* With the pool exhausted it returns NULL and nothing changes.           *)
NewLinkNoCount(r) ==
    /\ r \in AppRes \cup alloc
    /\ numLinks[r] < MaxNumLinks
    /\ \E l \in LinkSlots :
          /\ target[l] = NoRes
          /\ target' = [target EXCEPT ![l] = r]
          /\ UNCHANGED numLinks
    /\ UNCHANGED <<collections, alloc, links, pending>>
NewLink(r) ==
    /\ r \in AppRes \cup alloc
    /\ numLinks[r] < MaxNumLinks
    /\ \E l \in LinkSlots :
          /\ target[l] = NoRes
          /\ target' = [target EXCEPT ![l] = r]
          /\ numLinks' = [numLinks EXCEPT ![r] = @ + 1]
    /\ UNCHANGED <<collections, alloc, links, pending>>

(* The primary order is by href length, the secondary by strcmp. *)
Precedes(a, b) == a.len < b.len \/ (a.len = b.len /\ a.rank < b.rank)

(* The position oc_collection_add_link inserts a link with href h at:      *)
(* before the first link with an href that h precedes, skipping links      *)
(* without one; at the end when there is none.                             *)
InsertPosLexOnly(ls, h) ==
    LET i == SelectInSeq(ls, LAMBDA k : Href[target[k]].len > 0
                                         /\ h.rank < Href[target[k]].rank)
    IN IF i = 0 THEN Len(ls) + 1 ELSE i
InsertPos(ls, h) ==
    LET i == SelectInSeq(ls, LAMBDA k : Href[target[k]].len > 0
                                         /\ Precedes(h, Href[target[k]]))
    IN IF i = 0 THEN Len(ls) + 1 ELSE i

(* A link whose resource has an href is inserted in order, any other is   *)
(* pushed at the head.                                                     *)
SortedInsert(ls, l) ==
    LET h == Href[target[l]] IN
    IF h.len > 0 THEN InsertAt(ls, InsertPos(ls, h), l) ELSE <<l>> \o ls

(* oc_collection_add_link, then links_list_notify_collection is armed.    *)
AddLink(c, l) ==
    /\ c \in alloc /\ Held(l)
    /\ links' = [links EXCEPT ![c] = SortedInsert(@, l)]
    /\ pending' = pending \cup {<<c, "ll">>}
    /\ UNCHANGED <<collections, alloc, target, numLinks>>

(* oc_collection_remove_link: oc_list_remove leaves the link allocated.   *)
RemoveLink(c, l) ==
    /\ c \in alloc /\ target[l] # NoRes
    /\ links' = [links EXCEPT ![c] = Remove(@, l)]
    /\ pending' = pending \cup {<<c, "ll">>}
    /\ UNCHANGED <<collections, alloc, target, numLinks>>

(* The num_links decrement of oc_delete_link for the links ls, taken when *)
(* oc_collections is regs: only a valid application resource or a         *)
(* registered collection is decremented.                                  *)
UncountCollectionsOnly(nl, ls, regs) ==
    [r \in Res |-> nl[r] - Cardinality({i \in DOMAIN ls :
                       target[ls[i]] = r /\ Contains(regs, r)})]
Uncount(nl, ls, regs) ==
    [r \in Res |-> nl[r] - Cardinality({i \in DOMAIN ls :
                       target[ls[i]] = r /\ (r \in AppRes \/ Contains(regs, r))})]
Free(t, ls) == [l \in LinkSlots |-> IF Contains(ls, l) THEN NoRes ELSE t[l]]

(* oc_delete_link on a link the application holds. *)
DeleteLink(l) ==
    /\ Held(l)
    /\ numLinks' = Uncount(numLinks, <<l>>, collections)
    /\ target' = Free(target, <<l>>)
    /\ UNCHANGED <<collections, alloc, links, pending>>

(* oc_collection_free: unregister, then delete every link of the list.    *)
(* Armed notifications of c are left as they are.  The application frees *)
(* a collection only once no link outside it points to it (the removal   *)
(* of those links is not in oc_collection.c).                             *)
CollectionFree(c) ==
    /\ c \in alloc
    /\ \A l \in LinkSlots : target[l] = c => Contains(links[c], l)
    /\ collections' = Remove(collections, c)
    /\ numLinks' = Uncount(numLinks, links[c], collections')
    /\ target' = Free(target, links[c])
    /\ links' = [links EXCEPT ![c] = <<>>]
    /\ alloc' = alloc \ {c}
    /\ UNCHANGED pending

(* The delayed notification callbacks; links_list_notify_collection arms *)
(* baseline_notify_collection.                                           *)
LinksListNotify(c) ==
    /\ <<c, "ll">> \in pending
    /\ pending' = (pending \ {<<c, "ll">>}) \cup {<<c, "baseline">>}
    /\ UNCHANGED <<collections, alloc, links, target, numLinks>>
Notify(c, kind) ==
    /\ kind \in {"baseline", "batch"} /\ <<c, kind>> \in pending
    /\ pending' = pending \ {<<c, kind>>}
    /\ UNCHANGED <<collections, alloc, links, target, numLinks>>

(***************************************************************************)
(* Requests.  A batch walk carries [st, e, p, err, deep, notify]: st is    *)
(* "ok" until a nested request fails, e and p are the ecode and pcode of   *)
(* oc_handle_collection_batch_request, err records that a member linked    *)
(* directly answered an error, deep that any member at any depth did, and *)
(* notify the collections whose batch notification a nested request arms. *)
(* Every handler outcome is a choice, so an operator yields a set.        *)
(***************************************************************************)

(* pcode keeps the last success, ecode the last error. *)
RecordLastWins(s, code) ==
    IF code = NoHandler THEN [s EXCEPT !.e = METHOD_NOT_ALLOWED, !.err = TRUE, !.deep = TRUE]
    ELSE IF code < BAD_REQUEST THEN [s EXCEPT !.p = code, !.e = CONTENT]
    ELSE [s EXCEPT !.e = code, !.err = TRUE, !.deep = TRUE]
Record(s, code) ==
    IF code = NoHandler THEN [s EXCEPT !.e = METHOD_NOT_ALLOWED, !.err = TRUE, !.deep = TRUE]
    ELSE IF code < BAD_REQUEST THEN [s EXCEPT !.p = code]
    ELSE [s EXCEPT !.e = code, !.err = TRUE, !.deep = TRUE]

(* The tail of oc_handle_collection_request: the encoded payload may not  *)
(* fit (size -1, return false); otherwise the response code, and a batch *)
(* notification armed after a successful batch update.                    *)
Finish(m, c, iface, x) ==
    IF x.st # "ok" THEN {[st |-> x.st, code |-> 0, err |-> x.err, deep |-> x.deep,
                          notify |-> x.notify]}
    ELSE LET code == IF x.e < BAD_REQUEST /\ x.p < BAD_REQUEST
                     THEN CASE m = "GET" -> CONTENT
                            [] m \in {"PUT", "POST"} -> CHANGED
                            [] m = "DELETE" -> DELETED
                     ELSE BAD_REQUEST
         IN {[st |-> "fail", code |-> 0, err |-> x.err, deep |-> x.deep, notify |-> x.notify],
             [st |-> "ok", code |-> code, err |-> x.err, deep |-> x.deep,
              notify |-> IF m \in {"PUT", "POST"} /\ code < BAD_REQUEST /\ iface = "b"
                         THEN x.notify \cup {c} ELSE x.notify]}

Codes(e, p) == {[st |-> "ok", e |-> e, p |-> p, err |-> FALSE, deep |-> FALSE,
                 notify |-> {}]}

(* oc_handle_collection_baseline_request: a GET is answered; an update   *)
(* only calls set_properties and leaves pcode at BAD_REQUEST, as does a   *)
(* DELETE.                                                                 *)
Baseline(m) == Codes(CONTENT, IF m = "GET" THEN CONTENT ELSE BAD_REQUEST)

(* oc_handle_collection_linked_list_request encodes the links and the     *)
(* request always succeeds.                                                *)
LinksList == Codes(CONTENT, CONTENT)

RECURSIVE Handle(_, _, _, _, _), Batch(_, _, _, _),
          BatchItems(_, _, _, _, _, _), BatchLinks(_, _, _, _, _, _, _, _)

(* One linked resource r of c: the ACL may refuse it; a registered        *)
(* collection other than c is handled by a nested request through its    *)
(* default interface, whose answer goes to the outer response, so the    *)
(* local response_buffer.code stays 0 and counts as pcode; any other     *)
(* resource's handler answers a code or is missing.                      *)
Member(m, c, r, s, items, stack) ==
    IF r # c /\ IsCollection(r)
    THEN {Record(s, FORBIDDEN)} \cup
         {IF x.st = "ok"
          THEN [s EXCEPT !.p = 0, !.deep = @ \/ x.deep, !.notify = @ \cup x.notify]
          ELSE [s EXCEPT !.st = x.st, !.deep = @ \/ x.deep, !.notify = @ \cup x.notify]
            : x \in Handle(m, r, DefaultIf[r], items, stack)}
    ELSE {Record(s, code) : code \in HandlerCodes \cup {NoHandler, FORBIDDEN}}

(* The walk over the link list ls for one payload item with href h (every *)
(* link when all).  It stops at a failed nested request.                  *)
BatchLinks(m, c, all, h, ls, s, items, stack) ==
    IF ls = <<>> \/ s.st # "ok" THEN {s}
    ELSE LET r == target[Head(ls)] IN
         IF ~all /\ Href[r] # h
         THEN BatchLinks(m, c, all, h, Tail(ls), s, items, stack)
         ELSE UNION {BatchLinks(m, c, all, h, Tail(ls), t, items, stack)
                       : t \in Member(m, c, r, s, items, stack)}

(* The payload items of an update; an item without an href ends the walk *)
(* with BAD_REQUEST.                                                       *)
BatchItems(m, c, rest, s, items, stack) ==
    IF rest = <<>> \/ s.st # "ok" THEN {s}
    ELSE IF Head(rest).len = 0
    THEN {[s EXCEPT !.e = BAD_REQUEST, !.err = TRUE, !.deep = TRUE]}
    ELSE UNION {BatchItems(m, c, Tail(rest), t, items, stack)
                  : t \in BatchLinks(m, c, FALSE, Head(rest), links[c], s, items, stack)}

(* oc_handle_collection_batch_request.  Re-entering a collection that is *)
(* already being walked repeats the same walk without end, which the     *)
(* program ends by exhausting its stack.                                 *)
Batch(m, c, items, stack) ==
    LET s0 == [st |-> "ok", e |-> CONTENT, p |-> BAD_REQUEST, err |-> FALSE,
               deep |-> FALSE, notify |-> {}]
    IN IF Contains(stack, c) THEN {[s0 EXCEPT !.st = "overflow"]}
       ELSE IF m \in {"GET", "DELETE"}
       THEN BatchLinks(m, c, TRUE, EmptyHref, links[c], s0, items, Append(stack, c))
       ELSE BatchItems(m, c, items, s0, items, Append(stack, c))

(* oc_handle_collection_request with the interface iface. *)
Handle(m, c, iface, items, stack) ==
    LET res == CASE iface = "baseline" -> Baseline(m)
                 [] iface = "ll" -> LinksList
                 [] iface = "b" -> Batch(m, c, items, stack)
    IN UNION {Finish(m, c, iface, x) : x \in res}

(* A request for the collection oc_get_collection_by_uri finds in         *)
(* oc_collections, with the payload items of an update.  What the request *)
(* answers is not kept: the properties below quantify over every request  *)
(* that may arrive in a state.                                             *)
Request(c, m, iface, items) ==
    /\ Registered(c)
    /\ \E x \in Handle(m, c, iface, items, <<>>) :
          pending' = pending \cup {<<n, "batch">> : n \in x.notify}
    /\ UNCHANGED <<collections, alloc, links, target, numLinks>>

ItemHrefs == {Href[r] : r \in Res} \cup {EmptyHref}
Items == {<<h>> : h \in ItemHrefs} \cup {<<h, EmptyHref>> : h \in ItemHrefs}
(* A request: its method and the items of its payload, which only the     *)
(* batch interface reads, so other interfaces get updates without items.  *)
Requests == ({"GET", "DELETE", "PUT", "POST"} \X {<<>>}) \cup ({"PUT", "POST"} \X Items)

Next ==
    \/ \E c \in CollSlots :
          \/ CollectionAlloc(c) \/ CollectionAdd(c) \/ CollectionFree(c)
          \/ LinksListNotify(c)
          \/ \E kind \in {"baseline", "batch"} : Notify(c, kind)
    \/ \E r \in Res : NewLink(r)
    \/ \E c \in CollSlots, l \in LinkSlots : AddLink(c, l) \/ RemoveLink(c, l)
    \/ \E l \in LinkSlots : DeleteLink(l)
    \/ \E c \in CollSlots, i \in Ifaces, q \in Requests :
          (i = "b" \/ q[2] = <<>>) /\ Request(c, q[1], i, q[2])

Spec == Init /\ [][Next]_vars

-----------------------------------------------------------------------------
TypeOK ==
    /\ collections \in Seq(CollSlots) /\ alloc \subseteq CollSlots
    /\ \A c \in CollSlots : links[c] \in Seq(LinkSlots)
    /\ target \in [LinkSlots -> Res \cup {NoRes}]
    /\ numLinks \in [Res -> 0..MaxNumLinks]
    /\ pending \subseteq CollSlots \X {"ll", "baseline", "batch"}

(* oc_collection_add_link keeps every link list ordered by href length    *)
(* and then strcmp, links without an href first (the comment at line 175 *)
(* relies on it to find a unique index in one pass), through any sequence *)
(* of adds, removes, deletions and frees.                                 *)
LinksOrdered ==
    \A c \in alloc :
        LET hs == [i \in DOMAIN links[c] |-> Href[target[links[c][i]]]]
        IN IsSorted(hs, LAMBDA a, b : ~Precedes(b, a))

(* num_links of an application resource is the number of allocated links *)
(* to it: oc_new_link counts one, and oc_delete_link, called directly or *)
(* by oc_collection_free, uncounts it.                                    *)
NumLinksAccounted ==
    \A r \in AppRes : numLinks[r] = Cardinality({l \in LinkSlots : target[l] = r})

(* The answers a batch request on a registered collection may get. *)
Answers(m, items) ==
    UNION {Handle(m, c, "b", items, <<>>) : c \in {collections[i] : i \in DOMAIN collections}}

(* A batch request in which a member linked directly answered an error,  *)
(* had no handler for the method or was refused by the ACL, or whose     *)
(* payload had an item without an href, is not answered with success,    *)
(* whatever the members visited after it answered.                       *)
BatchErrorReported ==
    \A q \in Requests : \A x \in Answers(q[1], q[2]) :
        x.st = "ok" /\ x.err => x.code = BAD_REQUEST

(* The same for a member at any depth of nested collections. *)
NestedErrorReported ==
    \A q \in Requests : \A x \in Answers(q[1], q[2]) :
        x.st = "ok" /\ x.deep => x.code = BAD_REQUEST
=============================================================================
