---------------------------- MODULE MCVerification ----------------------------
(***************************************************************************)
(* The five places where an answer is trusted (composite signatures, CMS   *)
(* documents, OpenPGP armor, transparency proofs and the policy's check!), *)
(* side by side: they share no state, so a behaviour uses one of them and  *)
(* the other variables keep their initial values.                          *)
(***************************************************************************)
EXTENDS Composite, SignedData, Armor, MerkleLog, Policy

VARIABLE api

mcVars == <<api, compositeVars, cmsVars, armorVars, logVars, vars>>

MCOriginals == {<<>>, <<0>>, <<255, 1>>, <<1, 2, 3>>, <<7, 0, 0, 9>>}

\* A component of either algorithm, one under the other name of ECDSA-P256, one with
\* the public key of another pair, one the library does not know.
MCComponents ==
  LET k == CHOOSE x \in Keys : TRUE
      m == CHOOSE x \in Payloads : TRUE
  IN {SignComponent("Ed25519", k, m), SignComponent("ECDSA-P256", k, m),
      [SignComponent("ECDSA-P256", k, m) EXCEPT !.algorithm = "ECDSA"], CustomComponent}
     \cup {[SignComponent("Ed25519", k, m) EXCEPT !.public_key = Binary(<<"Ed25519", x>>)] :
             x \in Keys}

\* A public key as DER, and a certificate, which ends in something else.
Spki(alg, k) == [a \in CmsAlgorithms |-> IF a = alg THEN k ELSE NoKey]
X509 == [a \in CmsAlgorithms |-> NoKey]

\* A matching pair of either algorithm, the key of another party, a whole certificate, a
\* key that cannot sign.
MCSignerInputs ==
  LET k == CHOOSE x \in SigningKeys : TRUE
      Signer(alg, der, p) == [cert_der |-> der, private_key |-> p, algorithm |-> alg]
  IN {Signer(a, Spki(a, k), k) : a \in CmsAlgorithms}
     \cup {Signer("ed25519", Spki("ed25519", x), k) : x \in SigningKeys}
     \cup {Signer("ecdsa_p256", X509, k), Signer("ed25519", Spki("ed25519", k), BadKey)}

\* Documents with no, one or two signers of any algorithms, under one certificate or none.
MCForeignDocs ==
  LET k == CHOOSE x \in SigningKeys : TRUE
      infos == [oid : {Oid[a] : a \in CmsAlgorithms} \cup {"other"},
                signature : {SignatureBy(a, k, c) : a \in CmsAlgorithms, c \in Contents}]
      certs == {X509} \cup {Spki(a, x) : a \in CmsAlgorithms, x \in SigningKeys}
  IN [signer_infos : {<<>>} \cup {<<i>> : i \in infos} \cup (infos \X infos),
      certificates : {<<>>} \cup {<<c>> : c \in certs}]

MCInit ==
  /\ api \in {"composite", "cms", "armor", "log", "policy"}
  /\ CompositeInit /\ CmsInit /\ ArmorInit /\ LogInit /\ Init

MCNext ==
  \/ api = "composite" /\ CompositeNext /\ UNCHANGED <<api, cmsVars, armorVars, logVars, vars>>
  \/ api = "cms" /\ CmsNext /\ UNCHANGED <<api, compositeVars, armorVars, logVars, vars>>
  \/ api = "armor" /\ ArmorNext /\ UNCHANGED <<api, compositeVars, cmsVars, logVars, vars>>
  \/ api = "log" /\ LogNext /\ UNCHANGED <<api, compositeVars, cmsVars, armorVars, vars>>
  \/ api = "policy" /\ Next /\ UNCHANGED <<api, compositeVars, cmsVars, armorVars, logVars>>

MCSpec == MCInit /\ [][MCNext]_mcVars
================================================================================
