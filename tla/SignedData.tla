------------------------------ MODULE SignedData ------------------------------
(***************************************************************************)
(* CMS SignedData: the builder of lib/confium/pki/cms/                     *)
(* signed_data_builder.rb and SignedData of ext/confium_native/src/pki.rs. *)
(* A builder is filled and used again; the documents it built, and others  *)
(* that arrive as JSON, are verified against payloads.                     *)
(*                                                                         *)
(* Private keys are 32 bytes of either algorithm; a signature is the term  *)
(* of the algorithm, key and content it was made with.  A certificate is   *)
(* whatever DER the caller passes, and only its last bytes are ever looked *)
(* at: for each algorithm, the private key whose public half they spell,   *)
(* or NoKey (a real X.509 certificate ends in its issuer's signature).     *)
(***************************************************************************)
EXTENDS Naturals, Sequences

CONSTANTS SigningKeys,   \* private keys of 32 bytes
          BadKey,        \* a private key of another length
          NoKey,         \* what bytes that are no public key stand for
          Contents,      \* contents and payloads
          SignerInputs,  \* what add_signer is called with
          ForeignDocs,   \* documents that arrive as JSON
          MaxSigners,    \* bound: signers of the builder
          MaxDocs        \* bound: documents held

VARIABLES builder,       \* content and signers of the builder
          docs,          \* SignedData objects, with the builder's first signer and
                         \* content when they were built
          cmsCheck       \* the last verify_signatures: document, payload, result

cmsVars == <<builder, docs, cmsCheck>>

NoContent == "nil"
NoCheck == [doc |-> 0]

\* SIGNATURE_ALGORITHM_OID and the two OIDs verify_signatures knows.
Oid == [ed25519 |-> "1.3.101.112", ecdsa_p256 |-> "1.2.840.10045.4.3.2"]
CmsAlgorithms == DOMAIN Oid

ASSUME CmsAssumption == \A g \in SignerInputs : g.algorithm \in CmsAlgorithms

SignatureBy(alg, k, c) == <<"signed", alg, k, c>>

\* build_detached: one signer, its algorithm as given, all certificates in order.
BuildDetached(signature, oid, certs) ==
  [signer_infos |-> <<[oid |-> oid, signature |-> signature]>>, certificates |-> certs]
-------------------------------------------------------------------------------
(* Verification.                                                              *)

\* The last 32 or 65 bytes of the DER, as the raw key of the algorithm.
RawKey(der, alg) == der[alg]

\* The closure verify_signatures gives to the crate: the algorithm is that of the FIRST
\* signer info, the key the tail of the DER it is handed; the verifiers are external.
CheckSignature(infos, der, payload, signature) ==
  \E alg \in CmsAlgorithms :
     /\ infos[1].oid = Oid[alg]
     /\ signature = SignatureBy(alg, RawKey(der, alg), payload)

\* verify_signed_data (external) hands the first certificate to the closure for every
\* signer; a document without certificates has no signer it can verify.
PerSigner(d, payload) ==
  [i \in DOMAIN d.signer_infos |->
     /\ d.certificates # <<>>
     /\ CheckSignature(d.signer_infos, d.certificates[1], payload, d.signer_infos[i].signature)]
-------------------------------------------------------------------------------
CmsInit ==
  /\ builder = [content |-> NoContent, signers |-> <<>>]
  /\ docs = <<>>
  /\ cmsCheck = NoCheck

SetContent(c) ==
  /\ builder' = [builder EXCEPT !.content = c]
  /\ UNCHANGED <<docs, cmsCheck>>

\* add_signer: an algorithm that has no OID is refused, key and certificate are not
\* looked at, so they may belong to different parties.
AddSigner(cert, k, alg) ==
  /\ Len(builder.signers) < MaxSigners
  /\ builder' = [builder EXCEPT !.signers =
                   Append(@, [cert_der |-> cert, private_key |-> k, algorithm |-> alg])]
  /\ UNCHANGED <<docs, cmsCheck>>

\* The document of signer p, under the certificates of all, and the history: the
\* builder's first signer and content.
Documented(p) ==
  [sd |-> BuildDetached(SignatureBy(p.algorithm, p.private_key, builder.content),
                        Oid[p.algorithm],
                        [i \in DOMAIN builder.signers |-> builder.signers[i].cert_der]),
   made |-> <<builder.signers[1], builder.content>>]

CanBuild(p) ==
  /\ builder.content # NoContent
  /\ p.private_key # BadKey
  /\ Len(docs) < MaxDocs

\* Mutant: the last signer signs.
BuildByLast ==
  /\ builder.signers # <<>>
  /\ LET primary == builder.signers[Len(builder.signers)]
     IN CanBuild(primary) /\ docs' = Append(docs, Documented(primary))
  /\ UNCHANGED <<builder, cmsCheck>>

\* build: refused without signers, without content, or when the first key cannot sign;
\* otherwise signed by the first signer only, under the certificates of all.
Build ==
  /\ builder.signers # <<>>
  /\ LET primary == builder.signers[1]
     IN CanBuild(primary) /\ docs' = Append(docs, Documented(primary))
  /\ UNCHANGED <<builder, cmsCheck>>

\* SignedData.from_json of a document from elsewhere, with any number of signers.
ReceiveJson(d) ==
  /\ Len(docs) < MaxDocs
  /\ docs' = Append(docs, [sd |-> d, made |-> <<>>])
  /\ UNCHANGED <<builder, cmsCheck>>

\* verify_signatures: a detached document is checked against the payload handed in.
VerifySignatures(i, payload) ==
  LET per == PerSigner(docs[i].sd, payload)
  IN /\ cmsCheck' = [doc |-> i, payload |-> payload, per |-> per,
                     all |-> \A s \in DOMAIN per : per[s]]
     /\ UNCHANGED <<builder, docs>>

CmsNext ==
  \/ \E c \in Contents : SetContent(c)
  \/ \E g \in SignerInputs : AddSigner(g.cert_der, g.private_key, g.algorithm)
  \/ Build
  \/ \E d \in ForeignDocs : ReceiveJson(d)
  \/ \E i \in DOMAIN docs, p \in Contents : VerifySignatures(i, p)

CmsSpec == CmsInit /\ [][CmsNext]_cmsVars
-------------------------------------------------------------------------------
\* A signer reported as verified signed exactly the payload handed in, with the key the
\* first certificate ends in.  A document built here is verified if and only if the payload
\* is the content the builder had when it was built and the certificate of its first signer
\* then ends in that signer's own public key, whatever the builder was used for since.
CmsVerdictIsSound ==
  cmsCheck # NoCheck =>
    LET d == docs[cmsCheck.doc]
    IN /\ \A i \in DOMAIN cmsCheck.per : cmsCheck.per[i] =>
            \E alg \in CmsAlgorithms :
               d.sd.signer_infos[i].signature
                 = SignatureBy(alg, RawKey(d.sd.certificates[1], alg), cmsCheck.payload)
       /\ d.made # <<>> =>
            LET signer == d.made[1]
            IN cmsCheck.all <=>
                 /\ cmsCheck.payload = d.made[2]
                 /\ RawKey(signer.cert_der, signer.algorithm) = signer.private_key

\* "Dispatches by signature algorithm OID found in each signer_info" (verify_signatures):
\* a signer reported as verified has a signature of the algorithm its own info names.
SignersByTheirOwnAlgorithm ==
  cmsCheck # NoCheck =>
    LET infos == docs[cmsCheck.doc].sd.signer_infos
    IN \A i \in DOMAIN cmsCheck.per : cmsCheck.per[i] =>
         \E alg \in CmsAlgorithms, k \in SigningKeys :
            /\ infos[i].oid = Oid[alg]
            /\ infos[i].signature = SignatureBy(alg, k, cmsCheck.payload)
================================================================================
