------------------------------ MODULE CertStore ------------------------------
(***************************************************************************)
(* The certificate store of the TLS engine (src/security/oc_tls.c, OC_PKI).*)
(* Three containers hold the same trust anchors: the credential lists of  *)
(* the devices, the list g_ca_certs of per-credential handles, and the     *)
(* parsed mbedtls chain g_trust_anchors, into which every handle points.   *)
(* Identity and manufacturer certificates are tracked in g_identity_certs, *)
(* one entry per leaf credential holding the parsed chain of that leaf     *)
(* and of the credentials linked behind it (cred->chain).                  *)
(*                                                                         *)
(* The credential resource (oc_cred.c, not in this repository) adds and   *)
(* deletes credentials and calls the resolve and remove operations; those *)
(* calls are the environment actions.  Everything runs on the event-loop  *)
(* thread, so each operation is one step.  A certificate is a model value; *)
(* the PEM of a credential is the sequence of certificates it holds.  A    *)
(* pointer into g_trust_anchors is the position of its node; Dangling is a *)
(* pointer to a node that was freed.                                       *)
(***************************************************************************)
EXTENDS Integers, Sequences, FiniteSets, SequencesExt

CONSTANTS
    NumDevices,   \* devices 1..NumDevices, iterated in this order
    CaCreds,      \* credentials of usage TRUSTCA or MFG_TRUSTCA
    IdCreds,      \* credentials of usage IDENTITY_CERT or MFG_CERT
    DevOf,        \* DevOf[c]: the device whose credential list holds c
    Data,         \* Data[c]: the certificates of c's publicdata, in order
    MaxCaCerts,   \* size of g_ca_certs_s (OC_MAX_NUM_DEVICES)
    MaxIdCerts,   \* size of g_identity_certs_s (2 * OC_MAX_NUM_DEVICES)
    MaxChain,     \* bound on the length of g_trust_anchors
    ParseMayFail  \* whether an mbedtls parse may fail for lack of memory

Creds == CaCreds \cup IdCreds
NoCred == "NoCred"
Dangling == 0

(* The outcomes of an mbedtls parse of data that is well formed. *)
ParseFails == IF ParseMayFail THEN {TRUE, FALSE} ELSE {FALSE}

VARIABLES
    creds,     \* the credentials present, in the order they were added
    chainOf,   \* chainOf[c]: cred->chain, the next credential of c's chain
    anchors,   \* g_trust_anchors: the certificates of the parsed chain
    caCerts,   \* g_ca_certs: handles [cred, node]
    idCerts    \* g_identity_certs: entries [cred, chain]

vars == <<creds, chainOf, anchors, caCerts, idCerts>>

Present(c) == Contains(creds, c)
(* cred->child: c is linked behind another credential. *)
IsChild(c) == \E p \in IdCreds : Present(p) /\ chainOf[p] = c
IsLeaf(c) == Present(c) /\ ~IsChild(c)

(* The credentials of the chain that starts at c, following cred->chain. *)
RECURSIVE ChainCreds(_)
ChainCreds(c) == IF c = NoCred THEN <<>> ELSE <<c>> \o ChainCreds(chainOf[c])

ChainCerts(c) == FlattenSeq([i \in DOMAIN ChainCreds(c) |-> Data[ChainCreds(c)[i]]])

(* oc_tls_add_new_certs: the leaf credentials of usage S, device by device *)
(* and in list order within a device.                                      *)
LeavesInOrder(S) ==
    FoldLeft(LAMBDA acc, d : acc \o SelectSeq(creds, LAMBDA c : c \in S /\ DevOf[c] = d
                                                            /\ IsLeaf(c)),
             <<>>, [i \in 1..NumDevices |-> i])

Handles(es, c) == {i \in DOMAIN es : es[i].cred = c}

-----------------------------------------------------------------------------
(* Trust anchors.  A state of the store is [anchors, caCerts].           *)

(* A handle pointed at the head of the chain instead of its last node. *)
AddNewTrustAnchorHead(st, c) ==
    LET a == st.anchors \o Data[c] IN
    (IF ParseMayFail THEN {st} ELSE {})
    \cup {IF Len(st.caCerts) < MaxCaCerts
            THEN [anchors |-> a, caCerts |-> Append(st.caCerts, [cred |-> c, node |-> 1])]
            ELSE [st EXCEPT !.anchors = a]}
(* add_new_trust_anchor: the certificate is parsed onto the chain before  *)
(* the handle is allocated, so a full pool leaves it on the chain.        *)
AddNewTrustAnchor(st, c) ==
    LET a == st.anchors \o Data[c] IN
    (IF ParseMayFail THEN {st} ELSE {})
    \cup {IF Len(st.caCerts) < MaxCaCerts
            THEN [anchors |-> a,
                  caCerts |-> Append(st.caCerts, [cred |-> c, node |-> Len(a)])]
            ELSE [st EXCEPT !.anchors = a]}

(* oc_tls_resolve_new_trust_anchors over the leaves todo; is_known_trust_anchor *)
(* looks for a handle of the credential.                                   *)
RECURSIVE ResolveTa(_, _)
ResolveTa(st, todo) ==
    IF todo = <<>> THEN {st}
    ELSE IF Handles(st.caCerts, Head(todo)) # {} THEN ResolveTa(st, Tail(todo))
    ELSE UNION {ResolveTa(s, Tail(todo)) : s \in AddNewTrustAnchor(st, Head(todo))}

(* oc_tls_reload_trust_anchors from handle i on: each credential is parsed *)
(* onto the chain and its handle pointed at the last node; the first      *)
(* failure returns, leaving the later handles as they were.              *)
RECURSIVE Reload(_, _, _)
Reload(a, es, i) ==
    IF i > Len(es) THEN {[anchors |-> a, caCerts |-> es]}
    ELSE (IF ParseMayFail THEN {[anchors |-> a, caCerts |-> es]} ELSE {})
         \cup LET a2 == a \o Data[es[i].cred] IN
              Reload(a2, [es EXCEPT ![i].node = Len(a2)], i + 1)

(* mbedtls_x509_crt_free frees every node but the head, which is the      *)
(* static g_trust_anchors itself.                                          *)
FreeChain(es) ==
    [i \in DOMAIN es |-> [es[i] EXCEPT !.node = IF @ = 1 THEN 1 ELSE Dangling]]

(* The survivors reloaded onto the chain without freeing it first. *)
RemoveTrustAnchorNoFree(c) ==
    IF Handles(caCerts, c) = {} THEN {[anchors |-> anchors, caCerts |-> caCerts]}
    ELSE Reload(anchors, RemoveFirstMatch(caCerts, LAMBDA e : e.cred = c), 1)
(* Only the handle dropped; the chain kept as it is. *)
RemoveTrustAnchorHandleOnly(c) ==
    {[anchors |-> anchors, caCerts |-> RemoveFirstMatch(caCerts, LAMBDA e : e.cred = c)]}
(* oc_tls_remove_trust_anchor: nothing when c has no handle; otherwise    *)
(* drop the handle, free the whole chain and reload the survivors.        *)
RemoveTrustAnchor(c) ==
    IF Handles(caCerts, c) = {} THEN {[anchors |-> anchors, caCerts |-> caCerts]}
    ELSE Reload(<<>>, FreeChain(RemoveFirstMatch(caCerts, LAMBDA e : e.cred = c)), 1)

-----------------------------------------------------------------------------
(* Identity certificates. *)

(* The walk of is_known_identity_cert over the certificates cs of one     *)
(* credential: t is the tracked chain and i the node id_cert is at.  A    *)
(* certificate equal to node i moves on to the next certificate; one that *)
(* is not is compared with the next node, and appended at the end.       *)
RECURSIVE Match(_, _, _)
Match(t, i, cs) ==
    IF cs = <<>> THEN [t |-> t, i |-> i]
    ELSE IF t[i] = Head(cs) THEN Match(t, i, Tail(cs))
    ELSE IF i = Len(t) THEN Match(Append(t, Head(cs)), i, Tail(cs))
    ELSE Match(t, i + 1, cs)

(* The walk stopping after the leaf's own certificates. *)
WalkLeafOnly(t, i, cl) == IF cl = <<>> THEN {t} ELSE {Match(t, i, Data[Head(cl)]).t}
(* The walk over the credentials cl of the chain; a parse failure returns *)
(* true, keeping what was appended.                                       *)
RECURSIVE Walk(_, _, _)
Walk(t, i, cl) ==
    IF cl = <<>> THEN {t}
    ELSE (IF ParseMayFail THEN {t} ELSE {})
         \cup LET r == Match(t, i, Data[Head(cl)]) IN Walk(r.t, r.i, Tail(cl))

(* add_new_identity_cert: allocate an entry and parse the whole chain; on *)
(* any failure the entry is freed.                                        *)
AddNewIdentityCert(es, c) ==
    IF Len(es) >= MaxIdCerts THEN {es}
    ELSE {IF f THEN es ELSE Append(es, [cred |-> c, chain |-> ChainCerts(c)]) : f \in ParseFails}

RECURSIVE ResolveId(_, _)
ResolveId(es, todo) ==
    IF todo = <<>> THEN {es}
    ELSE LET c == Head(todo) IN
         IF Handles(es, c) = {}
           THEN UNION {ResolveId(s, Tail(todo)) : s \in AddNewIdentityCert(es, c)}
           ELSE LET k == CHOOSE k \in Handles(es, c) : TRUE IN
                UNION {ResolveId([es EXCEPT ![k].chain = t], Tail(todo)) :
                         t \in Walk(es[k].chain, 1, ChainCreds(c))}

(* oc_tls_remove_identity_cert *)
RemoveIdentityCert(c) == RemoveFirstMatch(idCerts, LAMBDA e : e.cred = c)

-----------------------------------------------------------------------------
Init ==
    /\ creds = <<>>
    /\ chainOf = [c \in IdCreds |-> NoCred]
    /\ anchors = <<>>
    /\ caCerts = <<>>
    /\ idCerts = <<>>

(* oc_tls_resolve_new_trust_anchors, taken while the chain stays within   *)
(* MaxChain.                                                              *)
ResolveNewTrustAnchors ==
    /\ \E st \in ResolveTa([anchors |-> anchors, caCerts |-> caCerts], LeavesInOrder(CaCreds)) :
          /\ Len(st.anchors) <= MaxChain
          /\ anchors' = st.anchors
          /\ caCerts' = st.caCerts
    /\ UNCHANGED <<creds, chainOf, idCerts>>

(* oc_tls_resolve_new_identity_certs *)
ResolveNewIdentityCerts ==
    /\ \E es \in ResolveId(idCerts, LeavesInOrder(IdCreds)) : idCerts' = es
    /\ UNCHANGED <<creds, chainOf, anchors, caCerts>>

(* The credential resource adds a trust anchor. *)
AddCaCred(c) ==
    /\ ~Present(c)
    /\ creds' = Append(creds, c)
    /\ UNCHANGED <<chainOf, anchors, caCerts, idCerts>>

(* The credential resource deletes a trust anchor: oc_tls_remove_trust_anchor, *)
(* then the credential leaves the list.                                    *)
DeleteCaCred(c) ==
    /\ Present(c)
    /\ \E st \in RemoveTrustAnchor(c) : anchors' = st.anchors /\ caCerts' = st.caCerts
    /\ creds' = Remove(creds, c)
    /\ UNCHANGED <<chainOf, idCerts>>

(* The credential resource adds a leaf certificate, or a certificate      *)
(* linked at the end of the chain of the leaf p.                          *)
AddIdCred(c) ==
    /\ ~Present(c)
    /\ creds' = Append(creds, c)
    /\ \/ UNCHANGED chainOf
       \/ \E p \in IdCreds :
            /\ IsLeaf(p) /\ DevOf[p] = DevOf[c]
            /\ chainOf' = [chainOf EXCEPT ![Last(ChainCreds(p))] = c]
    /\ UNCHANGED <<anchors, caCerts, idCerts>>

(* The credential resource deletes a leaf and the credentials of its      *)
(* chain, calling oc_tls_remove_identity_cert for the leaf.               *)
DeleteIdCred(c) ==
    /\ IsLeaf(c)
    /\ idCerts' = RemoveIdentityCert(c)
    /\ creds' = SelectSeq(creds, LAMBDA x : ~Contains(ChainCreds(c), x))
    /\ chainOf' = [x \in IdCreds |-> IF Contains(ChainCreds(c), x) THEN NoCred ELSE chainOf[x]]
    /\ UNCHANGED <<anchors, caCerts>>

Next ==
    \/ ResolveNewTrustAnchors
    \/ ResolveNewIdentityCerts
    \/ \E c \in CaCreds : AddCaCred(c) \/ DeleteCaCred(c)
    \/ \E c \in IdCreds : AddIdCred(c) \/ DeleteIdCred(c)

Spec == Init /\ [][Next]_vars

-----------------------------------------------------------------------------
TypeOK ==
    /\ creds \in Seq(Creds) /\ \A i, j \in DOMAIN creds : i # j => creds[i] # creds[j]
    /\ chainOf \in [IdCreds -> IdCreds \cup {NoCred}]
    /\ Len(anchors) <= MaxChain
    /\ caCerts \in Seq([cred : CaCreds, node : 0..MaxChain]) /\ Len(caCerts) <= MaxCaCerts
    /\ idCerts \in Seq([cred : IdCreds, chain : Seq(UNION {Range(Data[c]) : c \in IdCreds})])
    /\ Len(idCerts) <= MaxIdCerts

(* oc_tls_validate_trust_anchors_consistency_for_device, over all devices: *)
(* every leaf trust anchor has a handle, every handle a credential, every *)
(* node of a non-empty chain a handle pointing at it, and every handle a  *)
(* node (oc_tls_find_trust_anchor starts at the static head, so a handle  *)
(* pointing at the head always finds it).                                 *)
TrustAnchorsConsistent ==
    /\ \A c \in CaCreds : IsLeaf(c) => Handles(caCerts, c) # {}
    /\ \A e \in Range(caCerts) : Present(e.cred)
    /\ \A k \in 1..Len(anchors) : \E e \in Range(caCerts) : e.node = k
    /\ \A e \in Range(caCerts) : e.node # Dangling

(* oc_tls_validate_identity_certs_consistency_for_device, over all devices. *)
IdentityCertsConsistent ==
    /\ \A c \in IdCreds : IsLeaf(c) => Handles(idCerts, c) # {}
    /\ \A e \in Range(idCerts) : Present(e.cred)


(* Every leaf credential of the usages S has an entry in es. *)
AllResolved(S, es) == \A c \in S : IsLeaf(c) => Handles(es, c) # {}

(* A certificate on g_trust_anchors is trusted by every handshake.  After *)
(* any sequence of additions, deletions and resolves, the chain holds     *)
(* only certificates of trust-anchor credentials that are still present: *)
(* deleting a credential (oc_tls_remove_trust_anchor) revokes its trust.  *)
TrustedOnlyProvisioned ==
    \A k \in 1..Len(anchors) : \E c \in CaCreds : Present(c) /\ anchors[k] \in Range(Data[c])

(* Once every trust-anchor credential has a handle, the three containers *)
(* agree as oc_tls_validate_trust_anchors_consistency checks: in         *)
(* particular, after oc_tls_remove_trust_anchor freed and reloaded the   *)
(* chain, every handle points at the node of its own certificate.        *)
TrustAnchorsInSync ==
    AllResolved(CaCreds, caCerts) =>
        /\ TrustAnchorsConsistent
        /\ \A e \in Range(caCerts) : anchors[e.node] \in Range(Data[e.cred])

(* A step of oc_tls_resolve_new_identity_certs leaves every leaf identity *)
(* credential with an entry, every entry with its credential, and every  *)
(* entry's chain holding every certificate of the credentials linked     *)
(* behind its leaf, extended by is_known_identity_cert as they arrive.   *)
IdentityChainsResolved ==
    [][ResolveNewIdentityCerts =>
         (/\ IdentityCertsConsistent
          /\ \A e \in Range(idCerts) : Range(ChainCerts(e.cred)) \subseteq Range(e.chain))']_vars

=============================================================================
