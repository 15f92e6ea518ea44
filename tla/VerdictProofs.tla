------------------------------ MODULE VerdictProofs ------------------------------
(***************************************************************************)
(* What an answer means, proved for composite signatures, CMS documents,   *)
(* Policy.check! and the transparency log's inclusion proofs; and that the *)
(* Winsock probe closes its sockets.                                       *)
(***************************************************************************)
EXTENDS Composite, SignedData, Policy, WinsockProbe, MerkleLog, Integers, TLAPS

\* Zenon first, the SMT solver where it is not named alone.
USE ZenonT(30), SMTT(60)

IsSequence(s) == \E S : s \in Seq(S)

LEMMA Appended ==
  ASSUME NEW s, IsSequence(s), NEW e
  PROVE  /\ IsSequence(Append(s, e))
         /\ \A i \in DOMAIN s : i \in DOMAIN Append(s, e) /\ Append(s, e)[i] = s[i]
         /\ \A i \in DOMAIN Append(s, e) : i \in DOMAIN s \/ Append(s, e)[i] = e
<1>1. PICK S : s \in Seq(S)
  BY DEF IsSequence
<1>2. s \in Seq(S \cup {e}) /\ e \in S \cup {e}
  BY SMTT(60), <1>1
<1>3. Append(s, e) \in Seq(S \cup {e})
  BY SMTT(60), <1>2
<1>4. /\ \A i \in DOMAIN s : i \in DOMAIN Append(s, e) /\ Append(s, e)[i] = s[i]
      /\ \A i \in DOMAIN Append(s, e) : i \in DOMAIN s \/ Append(s, e)[i] = e
  BY SMTT(60), <1>2
<1> QED BY <1>3, <1>4 DEF IsSequence

LEMMA Empty == IsSequence(<<>>) /\ DOMAIN <<>> = {}
BY SMTT(60) DEF IsSequence
-------------------------------------------------------------------------------
(* Composite signatures.                                                       *)

\* Components whose algorithm is one the verification tells apart.
Named(cs) ==
  \A i \in DOMAIN cs : "algorithm" \in DOMAIN cs[i] /\ cs[i].algorithm \in AlgorithmNames

\* A Signature object; one revived from JSON still has the document it came from.
SoundSig(s) ==
  /\ Named(s.native) /\ Named(s.json.components)
  /\ s.json # NoJson => DecodeFields(s.json.components) = s.native

\* A document sent; one of a revived object is that object's own document.
SoundDoc(d) ==
  /\ d.of \in DOMAIN sigs
  /\ Named(d.doc.components)
  /\ sigs[d.of].json # NoJson => d.doc = sigs[d.of].json

\* What a verdict says is still true of the object it was about.
SoundVerdict ==
  verdict # NoVerdict =>
    /\ verdict.sig \in DOMAIN sigs
    /\ verdict.all => \A i \in DOMAIN sigs[verdict.sig].native :
         VerifyComponent(sigs[verdict.sig].native[i], verdict.message, verdict.verifiers)

\* The inductive invariant behind both properties of composite signatures.
CompositeInv ==
  /\ IsSequence(array) /\ \A i \in DOMAIN array : array[i].algorithm \in AlgorithmNames
  /\ IsSequence(sigs) /\ \A s \in DOMAIN sigs : SoundSig(sigs[s])
  /\ IsSequence(wire) /\ \A i \in DOMAIN wire : SoundDoc(wire[i])
  /\ SoundVerdict

LEMMA ParsedIsNamed ==
  ASSUME NEW cs, \A i \in DOMAIN cs : cs[i].algorithm \in AlgorithmNames
  PROVE  Named(ParseComponents(cs)) /\ Named(ComponentsToJson(cs))
BY DEF Named, ParseComponents, ParseComponent, ComponentsToJson

LEMMA DecodedIsNamed ==
  ASSUME NEW js, Named(js)
  PROVE  Named(DecodeFields(js))
<1> SUFFICES ASSUME NEW i \in DOMAIN js
             PROVE  LET c == [js[i] EXCEPT !.public_key = Unhex(@), !.signature = Unhex(@)]
                    IN "algorithm" \in DOMAIN c /\ c.algorithm \in AlgorithmNames
  BY DEF Named, DecodeFields
<1>1. "algorithm" \in DOMAIN js[i] /\ js[i].algorithm \in AlgorithmNames
  BY DEF Named
<1> DEFINE half == [js[i] EXCEPT !.public_key = Unhex(@)]
<1>2. "algorithm" \in DOMAIN half /\ half.algorithm = js[i].algorithm
  BY <1>1
<1>3. ASSUME NEW r, "algorithm" \in DOMAIN r, NEW v
      PROVE  LET c == [r EXCEPT !.signature = v]
             IN "algorithm" \in DOMAIN c /\ c.algorithm = r.algorithm
  BY <1>3
<1> QED BY <1>1, <1>2, <1>3

LEMMA NothingIsNamed == Named(NoJson.components)
BY Empty DEF Named, NoJson

LEMMA CompositeStarts == CompositeInit => CompositeInv
BY Empty DEF CompositeInit, CompositeInv, SoundVerdict

\* Objects already built keep what is known of documents and of the verdict.
LEMMA NewSignature ==
  ASSUME CompositeInv, NEW s, SoundSig(s), sigs' = Append(sigs, s),
         UNCHANGED <<array, wire, verdict>>
  PROVE  CompositeInv'
<1>1. /\ IsSequence(sigs')
      /\ \A i \in DOMAIN sigs : i \in DOMAIN sigs' /\ sigs'[i] = sigs[i]
      /\ \A i \in DOMAIN sigs' : i \in DOMAIN sigs \/ sigs'[i] = s
  BY Appended DEF CompositeInv
<1>2. \A i \in DOMAIN sigs' : SoundSig(sigs'[i])
  BY <1>1 DEF CompositeInv
<1>3. \A i \in DOMAIN wire : SoundDoc(wire[i])'
  BY <1>1 DEF CompositeInv, SoundDoc
<1>4. SoundVerdict'
  BY <1>1 DEF CompositeInv, SoundVerdict
<1> QED BY <1>1, <1>2, <1>3, <1>4 DEF CompositeInv

LEMMA CompositeSteps == CompositeInv /\ [CompositeNext]_compositeVars => CompositeInv'
<1> SUFFICES ASSUME CompositeInv, [CompositeNext]_compositeVars PROVE CompositeInv'
  OBVIOUS
<1>1. CASE UNCHANGED compositeVars
  BY <1>1 DEF compositeVars, CompositeInv, SoundDoc, SoundVerdict
<1>2. ASSUME NEW c \in Components, Push(c) PROVE CompositeInv'
  <2>1. /\ IsSequence(array')
        /\ \A i \in DOMAIN array : i \in DOMAIN array' /\ array'[i] = array[i]
        /\ \A i \in DOMAIN array' : i \in DOMAIN array \/ array'[i] = c
    BY <1>2, Appended DEF CompositeInv, Push
  <2>2. c.algorithm \in AlgorithmNames
    BY CompositeAssumption
  <2> QED BY <1>2, <2>1, <2>2 DEF CompositeInv, Push, SoundDoc, SoundVerdict
<1>3. CASE New
  <2> DEFINE s == [native |-> ParseComponents(array), json |-> NoJson]
  <2>1. s.native = ParseComponents(array) /\ s.json = NoJson
    OBVIOUS
  <2>2. SoundSig(s)
    BY <2>1, ParsedIsNamed, NothingIsNamed DEF SoundSig, CompositeInv
  <2> QED BY <1>3, <2>2, NewSignature DEF New
<1>4. ASSUME NEW s \in DOMAIN sigs, ToJson(s) PROVE CompositeInv'
  <2> DEFINE doc == IF sigs[s].json # NoJson THEN sigs[s].json
                    ELSE Document(ComponentsToJson(array), FALSE)
             d == [of |-> s, doc |-> doc]
  <2>1. d.of = s /\ d.doc = doc
    OBVIOUS
  <2>2. Named(doc.components)
    <3>1. CASE sigs[s].json # NoJson
      BY <3>1 DEF CompositeInv, SoundSig
    <3>2. CASE sigs[s].json = NoJson
      BY <3>2, ParsedIsNamed DEF CompositeInv, Document
    <3> QED BY <3>1, <3>2
  <2>3. SoundDoc(d)
    BY <2>1, <2>2 DEF SoundDoc
  <2>4. wire' = Append(wire, d)
    BY <1>4 DEF ToJson
  <2> HIDE DEF d
  <2>5. /\ IsSequence(wire')
        /\ \A i \in DOMAIN wire : i \in DOMAIN wire' /\ wire'[i] = wire[i]
        /\ \A i \in DOMAIN wire' : i \in DOMAIN wire \/ wire'[i] = d
    BY <2>4, Appended DEF CompositeInv
  <2>6. \A i \in DOMAIN wire' : SoundDoc(wire'[i])
    BY <2>3, <2>5 DEF CompositeInv
  <2> QED BY <1>4, <2>5, <2>6 DEF CompositeInv, ToJson, SoundDoc, SoundVerdict
<1>5. ASSUME NEW i \in DOMAIN wire, NEW enveloped \in BOOLEAN, NEW parsed \in BOOLEAN,
             FromJson(wire[i], enveloped, parsed)
      PROVE  CompositeInv'
  <2> DEFINE doc == IF enveloped THEN Document(wire[i].doc.components, TRUE) ELSE wire[i].doc
             s == [native |-> DecodeFields(doc.components), json |-> CanonicalJson(doc, parsed)]
  <2>1. Named(doc.components)
    BY DEF CompositeInv, SoundDoc, Document
  <2>2. CanonicalJson(doc, parsed).components = doc.components
    BY DEF CanonicalJson, Document
  <2>3. SoundSig(s)
    BY <2>1, <2>2, DecodedIsNamed DEF SoundSig
  <2> QED BY <1>5, <2>3, NewSignature DEF FromJson
<1>6. ASSUME NEW s \in DOMAIN sigs, NEW m, NEW verifiers, Verify(s, m, verifiers)
      PROVE  CompositeInv'
  <2> DEFINE per == [i \in DOMAIN sigs[s].native |->
                       VerifyComponent(sigs[s].native[i], m, verifiers)]
  <2>1. /\ verdict'.sig = s /\ verdict'.message = m /\ verdict'.verifiers = verifiers
        /\ verdict'.all = (\A i \in DOMAIN per : per[i])
        /\ UNCHANGED <<array, sigs, wire>>
    BY <1>6 DEF Verify
  <2>2. SoundVerdict'
    BY <2>1 DEF SoundVerdict
  <2> QED BY <2>1, <2>2 DEF CompositeInv, SoundDoc
<1> QED BY <1>1, <1>2, <1>3, <1>4, <1>5, <1>6 DEF CompositeNext

\* all_verified? is true only if every component was signed over this message by the key
\* it names, or is of the caller's own algorithm and the caller's callback answered true:
\* for any keys, components, messages and number of objects built and revived before.
THEOREM CompositeVerdicts == CompositeSpec => []CompositeVerdictIsSound
<1>1. CompositeInv => CompositeVerdictIsSound
  <2> SUFFICES ASSUME CompositeInv, verdict # NoVerdict, verdict.all,
                      NEW i \in DOMAIN sigs[verdict.sig].native
               PROVE  LET c == sigs[verdict.sig].native[i]
                      IN \/ \E alg \in {"Ed25519", "ECDSA-P256"}, k \in Keys :
                               /\ c.public_key = <<alg, k>>
                               /\ c.signature = <<"signed", alg, k, verdict.message>>
                         \/ c.algorithm = "Custom" /\ verdict.verifiers["Custom"] = "true"
    BY DEF CompositeVerdictIsSound
  <2> DEFINE c == sigs[verdict.sig].native[i]
  <2>1. VerifyComponent(c, verdict.message, verdict.verifiers)
    BY DEF CompositeInv, SoundVerdict
  <2>2. c.algorithm \in AlgorithmNames
    BY DEF CompositeInv, SoundVerdict, SoundSig, Named
  <2> HIDE DEF c
  <2>3. CASE c.algorithm = "Ed25519"
    BY <2>1, <2>3 DEF VerifyComponent, GoodSignature, c
  <2>4. CASE c.algorithm \in {"ECDSA-P256", "ECDSA"}
    BY <2>1, <2>4 DEF VerifyComponent, GoodSignature, c
  <2>5. CASE c.algorithm = "Custom"
    BY <2>1, <2>5 DEF VerifyComponent, InvokeCallerVerifier, c
  <2> QED BY <2>2, <2>3, <2>4, <2>5 DEF AlgorithmNames
<1> QED BY <1>1, CompositeStarts, CompositeSteps, PTL DEF CompositeSpec

\* A signature revived from JSON survives any number of further trips through JSON
\* unchanged, for any components and whatever happens to the Array of its first owner.
THEOREM RevivedSignatures == CompositeSpec => []RevivedIsStable
<1>1. CompositeInv => RevivedIsStable
  BY DEF CompositeInv, RevivedIsStable, SoundDoc, SoundSig
<1> QED BY <1>1, CompositeStarts, CompositeSteps, PTL DEF CompositeSpec
-------------------------------------------------------------------------------
(* CMS.                                                                        *)

\* A document built here has one signer, the builder's first at that time, its signature is
\* over the content of that time, and its first certificate is that signer's.
SoundBuilt(d) ==
  d.made # <<>> =>
    \E p, c :
       /\ d.made = <<p, c>> /\ p.algorithm \in CmsAlgorithms
       /\ DOMAIN d.sd.signer_infos = {1}
       /\ d.sd.signer_infos[1].oid = Oid[p.algorithm]
       /\ d.sd.signer_infos[1].signature = SignatureBy(p.algorithm, p.private_key, c)
       /\ d.sd.certificates # <<>> /\ d.sd.certificates[1] = p.cert_der

\* The inductive invariant: the last check is still what the document yields.
CmsInv ==
  /\ builder = [content |-> builder.content, signers |-> builder.signers]
  /\ IsSequence(builder.signers)
  /\ \A i \in DOMAIN builder.signers : builder.signers[i].algorithm \in CmsAlgorithms
  /\ IsSequence(docs) /\ \A i \in DOMAIN docs : SoundBuilt(docs[i])
  /\ cmsCheck # NoCheck =>
       /\ cmsCheck.doc \in DOMAIN docs
       /\ cmsCheck.per = PerSigner(docs[cmsCheck.doc].sd, cmsCheck.payload)
       /\ cmsCheck.all <=> \A i \in DOMAIN cmsCheck.per : cmsCheck.per[i]

LEMMA CmsStarts == CmsInit => CmsInv
<1> SUFFICES ASSUME CmsInit PROVE CmsInv
  OBVIOUS
<1>1. /\ builder.signers = <<>> /\ docs = <<>> /\ cmsCheck = NoCheck
      /\ builder = [content |-> builder.content, signers |-> builder.signers]
  BY DEF CmsInit
<1> QED BY <1>1, Empty DEF CmsInv

LEMMA NewDocument ==
  ASSUME CmsInv, NEW d, SoundBuilt(d), docs' = Append(docs, d), UNCHANGED <<builder, cmsCheck>>
  PROVE  CmsInv'
<1>1. /\ IsSequence(docs')
      /\ \A i \in DOMAIN docs : i \in DOMAIN docs' /\ docs'[i] = docs[i]
      /\ \A i \in DOMAIN docs' : i \in DOMAIN docs \/ docs'[i] = d
  BY Appended DEF CmsInv
<1>2. \A i \in DOMAIN docs' : SoundBuilt(docs'[i])
  BY <1>1 DEF CmsInv
<1> QED BY <1>1, <1>2 DEF CmsInv

\* What build returns is sound.
LEMMA BuiltIsSound ==
  ASSUME CmsInv, builder.signers # <<>>
  PROVE  SoundBuilt(Documented(builder.signers[1]))
<1> DEFINE p == builder.signers[1]
           c == builder.content
           certs == [i \in DOMAIN builder.signers |-> builder.signers[i].cert_der]
           sd == BuildDetached(SignatureBy(p.algorithm, p.private_key, c), Oid[p.algorithm], certs)
<1>1. 1 \in DOMAIN builder.signers
  BY SMTT(60) DEF CmsInv, IsSequence
<1>2. p.algorithm \in CmsAlgorithms
  BY <1>1 DEF CmsInv
<1>3. certs # <<>> /\ certs[1] = p.cert_der
  <2>1. DOMAIN certs # {} /\ certs[1] = p.cert_der
    BY <1>1
  <2> HIDE DEF certs
  <2> QED BY <2>1, Empty
<1>4. Documented(p).sd = sd /\ Documented(p).made = <<p, c>>
  BY DEF Documented
<1> HIDE DEF p, c, certs
<1>5. /\ DOMAIN sd.signer_infos = {1}
      /\ sd.signer_infos[1].oid = Oid[p.algorithm]
      /\ sd.signer_infos[1].signature = SignatureBy(p.algorithm, p.private_key, c)
      /\ sd.certificates = certs
  BY DEF BuildDetached
<1> HIDE DEF sd
<1>6. SoundBuilt(Documented(p))
  BY <1>2, <1>3, <1>4, <1>5 DEF SoundBuilt
<1> QED BY <1>6 DEF p

LEMMA CmsSteps == CmsInv /\ [CmsNext]_cmsVars => CmsInv'
<1> SUFFICES ASSUME CmsInv, [CmsNext]_cmsVars PROVE CmsInv'
  OBVIOUS
<1>1. CASE UNCHANGED cmsVars
  BY <1>1 DEF CmsInv, cmsVars
<1>2. CASE Build
  BY <1>2, BuiltIsSound, NewDocument DEF Build
<1>3. ASSUME NEW sd, ReceiveJson(sd) PROVE CmsInv'
  <2> DEFINE d == [sd |-> sd, made |-> <<>>]
  <2>1. SoundBuilt(d)
    BY DEF SoundBuilt
  <2> QED BY <1>3, <2>1, NewDocument DEF ReceiveJson
<1>4. ASSUME NEW i \in DOMAIN docs, NEW payload, VerifySignatures(i, payload) PROVE CmsInv'
  <2>1. /\ cmsCheck'.doc = i /\ cmsCheck'.payload = payload
        /\ cmsCheck'.per = PerSigner(docs[i].sd, payload)
        /\ cmsCheck'.all <=> \A s \in DOMAIN cmsCheck'.per : cmsCheck'.per[s]
        /\ docs' = docs /\ builder' = builder
    BY <1>4 DEF VerifySignatures
  <2> QED BY <2>1 DEF CmsInv
<1>5. ASSUME NEW c, SetContent(c) PROVE CmsInv'
  <2>1. /\ builder' = [content |-> c, signers |-> builder.signers]
        /\ UNCHANGED <<docs, cmsCheck>>
    BY <1>5 DEF CmsInv, SetContent
  <2>2. /\ builder'.signers = builder.signers
        /\ builder' = [content |-> builder'.content, signers |-> builder'.signers]
    BY <2>1
  <2> QED BY <2>1, <2>2 DEF CmsInv
<1>6. ASSUME NEW g \in SignerInputs, AddSigner(g.cert_der, g.private_key, g.algorithm)
      PROVE  CmsInv'
  <2> DEFINE e == [cert_der |-> g.cert_der, private_key |-> g.private_key,
                   algorithm |-> g.algorithm]
  <2>1. /\ builder' = [content |-> builder.content, signers |-> Append(builder.signers, e)]
        /\ UNCHANGED <<docs, cmsCheck>>
    BY <1>6 DEF CmsInv, AddSigner
  <2>2. e.algorithm \in CmsAlgorithms
    BY CmsAssumption
  <2> HIDE DEF e
  <2>3. /\ builder'.signers = Append(builder.signers, e)
        /\ builder' = [content |-> builder'.content, signers |-> builder'.signers]
    BY <2>1
  <2>4. /\ IsSequence(builder'.signers)
        /\ \A i \in DOMAIN builder'.signers : builder'.signers[i].algorithm \in CmsAlgorithms
    BY <2>2, <2>3, Appended DEF CmsInv
  <2> QED BY <2>1, <2>3, <2>4 DEF CmsInv
<1> QED BY <1>1, <1>2, <1>3, <1>4, <1>5, <1>6 DEF CmsNext

\* A signer reported as verified signed the payload handed in with the key the first
\* certificate ends in, and a document built here is verified for exactly the content the
\* builder had then, if its first signer's certificate ends in that signer's own key: for any
\* keys, contents, certificates, foreign documents and further use of the builder
\* (SignedDataBuilder#build and SignedData#verify_signatures).
THEOREM CmsVerdicts == CmsSpec => []CmsVerdictIsSound
<1>1. ASSUME CmsInv, cmsCheck # NoCheck, NEW i \in DOMAIN cmsCheck.per, cmsCheck.per[i]
      PROVE  \E alg \in CmsAlgorithms :
               docs[cmsCheck.doc].sd.signer_infos[i].signature
                 = SignatureBy(alg, RawKey(docs[cmsCheck.doc].sd.certificates[1], alg),
                               cmsCheck.payload)
  BY <1>1 DEF CmsInv, PerSigner, CheckSignature
<1>2. ASSUME CmsInv, cmsCheck # NoCheck, docs[cmsCheck.doc].made # <<>>
      PROVE  LET d == docs[cmsCheck.doc]
                 signer == d.made[1]
             IN cmsCheck.all <=>
                  /\ cmsCheck.payload = d.made[2]
                  /\ RawKey(signer.cert_der, signer.algorithm) = signer.private_key
  <2> DEFINE d == docs[cmsCheck.doc]
  <2>1. SoundBuilt(d)
    BY <1>2 DEF CmsInv
  <2>2. /\ cmsCheck.per = PerSigner(d.sd, cmsCheck.payload)
        /\ cmsCheck.all <=> \A i \in DOMAIN cmsCheck.per : cmsCheck.per[i]
    BY <1>2 DEF CmsInv
  <2> HIDE DEF d
  <2>3. PICK p, c :
          /\ d.made = <<p, c>> /\ p.algorithm \in CmsAlgorithms
          /\ DOMAIN d.sd.signer_infos = {1}
          /\ d.sd.signer_infos[1].oid = Oid[p.algorithm]
          /\ d.sd.signer_infos[1].signature = SignatureBy(p.algorithm, p.private_key, c)
          /\ d.sd.certificates # <<>> /\ d.sd.certificates[1] = p.cert_der
    BY <1>2, <2>1 DEF SoundBuilt, d
  <2> DEFINE checked == CheckSignature(d.sd.signer_infos, p.cert_der, cmsCheck.payload,
                                       SignatureBy(p.algorithm, p.private_key, c))
  <2>4. DOMAIN cmsCheck.per = {1} /\ (cmsCheck.per[1] <=> checked)
    BY <2>2, <2>3 DEF PerSigner
  <2>5. cmsCheck.all <=> checked
    <3> HIDE DEF checked
    <3> QED BY <2>2, <2>4
  <2>6. \A alg \in CmsAlgorithms : Oid[alg] = Oid[p.algorithm] => alg = p.algorithm
    BY <2>3 DEF CmsAlgorithms, Oid
  <2>7. checked <=> SignatureBy(p.algorithm, p.private_key, c)
                      = SignatureBy(p.algorithm, RawKey(p.cert_der, p.algorithm), cmsCheck.payload)
    BY <2>3, <2>6 DEF CheckSignature
  <2>8. checked <=> c = cmsCheck.payload /\ RawKey(p.cert_der, p.algorithm) = p.private_key
    BY <2>7 DEF SignatureBy
  <2>9. d.made[1] = p /\ d.made[2] = c
    BY <2>3
  <2> QED BY <2>5, <2>8, <2>9 DEF d
<1>3. CmsInv => CmsVerdictIsSound
  BY <1>1, <1>2 DEF CmsVerdictIsSound
<1> QED BY <1>3, CmsStarts, CmsSteps, PTL DEF CmsSpec
-------------------------------------------------------------------------------
(* The policy.                                                                 *)

Checks == [at: {"none", "fips", "active", "lookup", "true", "raised"}, alg: Algorithms,
           bits: Nat, seen: SUBSET Policies, sets: 0..2]

PolicyTyped ==
  /\ jurisdiction \in Jurisdictions \cup {Nil} /\ fips_mode \in BOOLEAN
  /\ setter \in {"idle", "default", "fips"}
  /\ check \in Checks

Passes(p) == p.fips => check.alg \in FipsApproved

\* What holds once check! is past its look at the FIPS switch: a policy it saw let the
\* algorithm pass there, and if no jurisdiction is read from now on, one such policy had
\* none: it was seen, or is in force, or the one setter call that overlaps the check can
\* no longer take the jurisdiction away.
PastFips ==
  /\ \E p \in check.seen : Passes(p)
  /\ \/ \E p \in check.seen : p.jurisdiction = Nil /\ Passes(p)
     \/ Passes(InForce)
     \/ jurisdiction # Nil /\ check.sets >= 1

\* The inductive invariant: a running check! has seen the policy in force, and a setter
\* that is half way through has been counted.
PolicyInv ==
  /\ PolicyTyped
  /\ Checking /\ check.sets < 2 => InForce \in check.seen /\ (check.sets = 0 => setter = "idle")
  /\ check.at \in {"active", "lookup"} /\ check.sets < 2 => PastFips
  /\ VerdictOfOnePolicy

LEMMA PolicyStarts == Init => PolicyInv
<1> SUFFICES ASSUME Init PROVE PolicyInv
  OBVIOUS
<1>1. "rsa" \in Algorithms
  BY DEF Algorithms, MinBits
<1>2. check \in Checks
  BY SMTT(60), <1>1 DEF Init, Checks
<1>3. PolicyTyped
  BY <1>2 DEF Init, PolicyTyped
<1>4. check.at = "none"
  BY DEF Init
<1> QED BY <1>3, <1>4 DEF PolicyInv, Checking, VerdictOfOnePolicy

LEMMA InForceTyped ==
  ASSUME jurisdiction \in Jurisdictions \cup {Nil}, fips_mode \in BOOLEAN
  PROVE  /\ InForce \in Policies
         /\ InForce.jurisdiction = jurisdiction /\ InForce.fips = fips_mode
BY DEF InForce, Policies

\* What Observe does to the check: nothing once it is over, and while at most one setter
\* call overlaps it, it adds the policy now in force.
LEMMA Observed ==
  ASSUME check \in Checks, NEW begins \in BOOLEAN, Observe(begins), InForce' \in Policies
  PROVE  /\ check' \in Checks
         /\ check'.at = check.at /\ check'.alg = check.alg /\ check'.bits = check.bits
         /\ ~Checking => check' = check
         /\ Checking /\ check'.sets < 2 =>
              /\ check.sets < 2
              /\ check'.sets = (IF begins THEN check.sets + 1 ELSE check.sets)
              /\ check'.seen = check.seen \cup {InForce'}
<1>1. CASE ~Checking \/ check.sets = 2
  <2>1. check' = check
    BY <1>1 DEF Observe
  <2> QED BY SMTT(60), <1>1, <2>1 DEF Checks
<1>2. CASE ~(~Checking \/ check.sets = 2)
  <2> DEFINE sets == IF begins THEN check.sets + 1 ELSE check.sets
             seen == IF sets < 2 THEN check.seen \cup {InForce'} ELSE {}
  <2>1. check' = [check EXCEPT !.sets = sets, !.seen = seen]
    BY <1>2 DEF Observe, InForce
  <2>2. sets \in 0..2 /\ seen \in SUBSET Policies /\ check.sets < 2
    BY SMTT(60), <1>2 DEF Checks
  <2> HIDE DEF sets, seen
  <2>3. /\ check' \in Checks
        /\ check'.at = check.at /\ check'.alg = check.alg /\ check'.bits = check.bits
        /\ check'.sets = sets /\ check'.seen = seen
    <3> DEFINE half == [check EXCEPT !.sets = sets]
    <3>1. half \in Checks /\ half.at = check.at /\ half.alg = check.alg
          /\ half.bits = check.bits /\ half.sets = sets
      BY SMTT(60), <2>2 DEF Checks
    <3>2. check' = [half EXCEPT !.seen = seen]
      BY <2>1
    <3> HIDE DEF half
    <3> QED BY SMTT(60), <2>2, <3>1, <3>2 DEF Checks
  <2> QED BY SMTT(60), <1>2, <2>2, <2>3 DEF sets, seen
<1> QED BY <1>1, <1>2

\* A statement of a setter: it opens the call or ends it, and it either switches FIPS
\* mode on without touching the jurisdiction, as the call's first statement, or switches
\* nothing on and leaves the jurisdiction in place unless it is the first statement.
LEMMA SetterSteps ==
  ASSUME PolicyInv, NEW begins \in BOOLEAN, Observe(begins),
         jurisdiction' \in Jurisdictions \cup {Nil}, fips_mode' \in BOOLEAN,
         setter' \in {"idle", "default", "fips"},
         ~begins => setter' = "idle",
         \/ begins /\ jurisdiction' = jurisdiction
         \/ (fips_mode' => fips_mode) /\ (begins \/ (jurisdiction # Nil => jurisdiction' # Nil))
  PROVE  PolicyInv'
<1>1. /\ InForce' \in Policies
      /\ InForce'.jurisdiction = jurisdiction' /\ InForce'.fips = fips_mode'
  BY DEF InForce, Policies
<1>2. /\ InForce \in Policies
      /\ InForce.jurisdiction = jurisdiction /\ InForce.fips = fips_mode
  BY InForceTyped DEF PolicyInv, PolicyTyped
<1>3. /\ check' \in Checks
      /\ check'.at = check.at /\ check'.alg = check.alg /\ check'.bits = check.bits
      /\ ~Checking => check' = check
      /\ Checking /\ check'.sets < 2 =>
           /\ check.sets < 2
           /\ check'.sets = (IF begins THEN check.sets + 1 ELSE check.sets)
           /\ check'.seen = check.seen \cup {InForce'}
  BY <1>1, Observed DEF PolicyInv, PolicyTyped
<1>4. check.sets \in 0..2
  BY SMTT(60) DEF PolicyInv, PolicyTyped, Checks
<1>5. PolicyTyped'
  BY <1>3 DEF PolicyTyped
<1>6. ASSUME Checking', check'.sets < 2
      PROVE  InForce' \in check'.seen /\ (check'.sets = 0 => setter' = "idle")
  <2>1. Checking
    BY <1>3, <1>6 DEF Checking
  <2> QED BY SMTT(60), <1>3, <1>4, <1>6, <2>1
<1>7. ASSUME check'.at \in {"active", "lookup"}, check'.sets < 2
      PROVE  PastFips'
  <2>1. /\ Checking /\ PastFips /\ check.sets < 2 /\ InForce \in check.seen
        /\ check'.sets = (IF begins THEN check.sets + 1 ELSE check.sets)
        /\ check'.seen = check.seen \cup {InForce'}
    BY <1>3, <1>7 DEF Checking, PolicyInv
  <2>3. ASSUME NEW p, Passes(p) PROVE Passes(p)'
    BY <1>3, <2>3 DEF Passes
  <2>4. \E p \in check'.seen : Passes(p)'
    BY <2>1, <2>3 DEF PastFips
  <2>5. CASE \E p \in check.seen : p.jurisdiction = Nil /\ Passes(p)
    BY <2>1, <2>3, <2>4, <2>5 DEF PastFips
  <2>6. CASE Passes(InForce) /\ begins /\ jurisdiction' = jurisdiction
    <3>1. CASE jurisdiction = Nil
      BY <1>2, <2>1, <2>5, <2>6, <3>1
    <3>2. CASE jurisdiction # Nil
      <4>1. jurisdiction' # Nil /\ check'.sets >= 1
        BY SMTT(60), <1>4, <2>1, <2>6, <3>2
      <4> QED BY <2>4, <4>1 DEF PastFips
    <3> QED BY <3>1, <3>2
  <2>7. CASE Passes(InForce) /\ (fips_mode' => fips_mode)
    <3>1. Passes(InForce)'
      BY <1>1, <1>2, <1>3, <2>7 DEF Passes
    <3> QED BY <2>4, <3>1 DEF PastFips
  <2>8. CASE jurisdiction # Nil /\ check.sets >= 1
    <3>1. ~begins
      BY SMTT(60), <1>4, <1>7, <2>1, <2>8
    <3>2. jurisdiction' # Nil /\ check'.sets >= 1
      BY <2>1, <2>8, <3>1
    <3> QED BY <2>4, <3>2 DEF PastFips
  <2> QED BY <2>1, <2>5, <2>6, <2>7, <2>8 DEF PastFips
<1>8. VerdictOfOnePolicy'
  <2> SUFFICES ASSUME check'.at \in {"true", "raised"} PROVE VerdictOfOnePolicy'
    BY DEF VerdictOfOnePolicy
  <2>1. check' = check
    BY <1>3 DEF Checking
  <2> QED BY <2>1 DEF PolicyInv, VerdictOfOnePolicy
<1> QED BY <1>5, <1>6, <1>7, <1>8 DEF PolicyInv

\* A statement of check! that goes on or answers, under the policy in force.
LEMMA CheckerSteps ==
  ASSUME PolicyInv, Checking, UNCHANGED policy,
         NEW where \in {"active", "lookup", "true", "raised"}, Goto(where),
         check.sets < 2 =>
           /\ where \in {"active", "lookup"} => PastFips
           /\ where \in {"true", "raised"} =>
                \E p \in check.seen : Allows(p, check.alg, check.bits) = (where = "true")
  PROVE  PolicyInv'
<1>1. check \in Checks
  BY DEF PolicyInv, PolicyTyped
<1>2. /\ check' \in Checks /\ check'.at = where
      /\ check'.alg = check.alg /\ check'.bits = check.bits
      /\ check'.seen = check.seen /\ check'.sets = check.sets
  BY SMTT(60), <1>1 DEF Goto, Checks
<1>3. jurisdiction' = jurisdiction /\ fips_mode' = fips_mode /\ setter' = setter
  BY DEF policy
<1>4. PolicyTyped'
  BY <1>2, <1>3 DEF PolicyInv, PolicyTyped
<1>5. InForce' = InForce /\ (PastFips => PastFips')
  BY <1>2, <1>3 DEF InForce, PastFips, Passes
<1>6. VerdictOfOnePolicy'
  BY <1>2 DEF VerdictOfOnePolicy
<1> QED BY <1>2, <1>3, <1>4, <1>5, <1>6 DEF PolicyInv

LEMMA PolicySteps == PolicyInv /\ [Next]_vars => PolicyInv'
<1> SUFFICES ASSUME PolicyInv, [Next]_vars PROVE PolicyInv'
  OBVIOUS
<1> USE DEF PolicyTyped
<1>0. PolicyTyped
  BY DEF PolicyInv
<1>1. CASE UNCHANGED vars
  BY <1>1 DEF vars, PolicyInv, Checking, InForce, PastFips, Passes, VerdictOfOnePolicy
<1>2. ASSUME NEW value, SetJurisdiction(value) PROVE PolicyInv'
  <2>1. /\ jurisdiction' \in Jurisdictions \cup {Nil} /\ fips_mode' = fips_mode
        /\ setter' = setter /\ Observe(TRUE)
    BY <1>0, <1>2 DEF SetJurisdiction
  <2> QED BY <1>0, <2>1, SetterSteps
<1>3. ASSUME NEW value, SetFipsMode(value) PROVE PolicyInv'
  <2>1. /\ jurisdiction' = jurisdiction /\ fips_mode' \in BOOLEAN
        /\ setter' = "default" /\ Observe(TRUE)
    BY <1>0, <1>3 DEF SetFipsMode
  <2> QED BY <1>0, <2>1, SetterSteps
<1>4. CASE DefaultJurisdiction
  <2>1. /\ jurisdiction' \in Jurisdictions \cup {Nil} /\ fips_mode' = fips_mode
        /\ jurisdiction # Nil => jurisdiction' # Nil
        /\ setter' = "idle" /\ Observe(FALSE)
    BY <1>0, <1>4 DEF DefaultJurisdiction, Jurisdictions
  <2> QED BY <1>0, <2>1, SetterSteps
<1>5. CASE ResetJurisdiction
  <2>1. /\ jurisdiction' = Nil /\ fips_mode' = fips_mode
        /\ setter' = "fips" /\ Observe(TRUE)
    BY <1>5 DEF ResetJurisdiction
  <2> QED BY <1>0, <2>1, SetterSteps
<1>6. CASE ResetFips
  <2>1. /\ jurisdiction' = jurisdiction /\ fips_mode' = FALSE
        /\ setter' = "idle" /\ Observe(FALSE)
    BY <1>6 DEF ResetFips
  <2> QED BY <1>0, <2>1, SetterSteps
<1>7. ASSUME NEW alg \in Algorithms, NEW bits \in Bits, Check(alg, bits) PROVE PolicyInv'
  <2>1. /\ jurisdiction' = jurisdiction /\ fips_mode' = fips_mode /\ setter' = setter
        /\ check' = [at |-> "fips", alg |-> alg, bits |-> bits, seen |-> {InForce},
                     sets |-> IF setter = "idle" THEN 0 ELSE 1]
    BY <1>7 DEF Check, policy
  <2>2. InForce \in Policies /\ bits \in Nat
    BY <1>0, InForceTyped, PolicyAssumption
  <2>3. /\ check' \in Checks /\ check'.at = "fips" /\ check'.seen = {InForce}
        /\ check'.sets = (IF setter = "idle" THEN 0 ELSE 1)
    BY SMTT(60), <2>1, <2>2 DEF Checks
  <2>4. InForce' = InForce
    BY <2>1 DEF InForce
  <2>5. check'.sets = 0 => setter' = "idle"
    BY SMTT(60), <2>1, <2>3
  <2> QED BY <1>0, <2>1, <2>3, <2>4, <2>5 DEF PolicyInv, VerdictOfOnePolicy
<1>8. /\ InForce.jurisdiction = jurisdiction /\ InForce.fips = fips_mode
      /\ Checking /\ check.sets < 2 => InForce \in check.seen
  BY <1>0, InForceTyped DEF PolicyInv
<1>9. CASE ReadFips
  <2>1. Checking /\ UNCHANGED policy
    BY <1>9 DEF ReadFips, Checking
  <2>2. CASE fips_mode /\ check.alg \notin FipsApproved
    <3>1. Goto("raised")
      BY <1>9, <2>2 DEF ReadFips
    <3>2. ~Allows(InForce, check.alg, check.bits)
      BY <1>8, <2>2 DEF Allows
    <3>3. Allows(InForce, check.alg, check.bits) = ("raised" = "true")
      BY <3>2 DEF Allows
    <3> QED BY <1>8, <2>1, <3>1, <3>3, CheckerSteps
  <2>3. CASE ~(fips_mode /\ check.alg \notin FipsApproved)
    <3>1. Goto("active")
      BY <1>9, <2>3 DEF ReadFips
    <3>2. Passes(InForce)
      BY <1>8, <2>3 DEF Passes
    <3>3. check.sets < 2 => PastFips
      BY <1>8, <2>1, <3>2 DEF PastFips
    <3> QED BY <2>1, <3>1, <3>3, CheckerSteps
  <2> QED BY <2>2, <2>3
\* With no jurisdiction now, one of the policies seen allows what the FIPS switch let pass.
<1>10. ASSUME check.at \in {"active", "lookup"}, jurisdiction = Nil, check.sets < 2
       PROVE  \E p \in check.seen : Allows(p, check.alg, check.bits)
  <2>1. PastFips /\ Checking
    BY <1>10 DEF PolicyInv, Checking
  <2>2. PICK p \in check.seen : p.jurisdiction = Nil /\ Passes(p)
    BY <1>8, <1>10, <2>1 DEF PastFips
  <2> QED BY <2>2 DEF Passes, Allows
<1>11. CASE ReadActive
  <2>1. Checking /\ UNCHANGED policy /\ check.at = "active"
    BY <1>11 DEF ReadActive, Checking
  <2>2. CASE jurisdiction = Nil
    <3>1. Goto("true")
      BY <1>11, <2>2 DEF ReadActive
    <3>2. check.sets < 2 =>
            \E p \in check.seen : Allows(p, check.alg, check.bits) = ("true" = "true")
      BY <1>10, <2>1, <2>2 DEF Allows
    <3> QED BY <2>1, <3>1, <3>2, CheckerSteps
  <2>3. CASE jurisdiction # Nil
    <3>1. Goto("lookup")
      BY <1>11, <2>3 DEF ReadActive
    <3>2. check.sets < 2 => PastFips
      BY <2>1 DEF PolicyInv
    <3> QED BY <2>1, <3>1, <3>2, CheckerSteps
  <2> QED BY <2>2, <2>3
<1>12. CASE Lookup
  <2>1. Checking /\ UNCHANGED policy /\ check.at = "lookup"
    BY <1>12 DEF Lookup, Checking
  <2>2. CASE jurisdiction # Nil /\ ~LargeEnough(check.alg, check.bits)
    <3>1. Goto("raised")
      BY <1>12, <2>2 DEF Lookup
    <3>2. ~Allows(InForce, check.alg, check.bits)
      BY <1>8, <2>2 DEF Allows
    <3>3. Allows(InForce, check.alg, check.bits) = ("raised" = "true")
      BY <3>2 DEF Allows
    <3> QED BY <1>8, <2>1, <3>1, <3>3, CheckerSteps
  <2>3. CASE ~(jurisdiction # Nil /\ ~LargeEnough(check.alg, check.bits))
    <3>1. Goto("true")
      BY <1>12, <2>3 DEF Lookup
    <3>2. ASSUME check.sets < 2
          PROVE  \E p \in check.seen : Allows(p, check.alg, check.bits)
      <4>1. CASE jurisdiction = Nil
        BY <1>10, <2>1, <3>2, <4>1
      <4>2. CASE LargeEnough(check.alg, check.bits)
        <5>1. PICK p \in check.seen : Passes(p)
          BY <2>1, <3>2 DEF PolicyInv, PastFips
        <5> QED BY <4>2, <5>1 DEF Passes, Allows
      <4> QED BY <2>3, <4>1, <4>2
    <3>3. check.sets < 2 =>
            \E p \in check.seen : Allows(p, check.alg, check.bits) = ("true" = "true")
      BY <3>2 DEF Allows
    <3> QED BY <2>1, <3>1, <3>3, CheckerSteps
  <2> QED BY <2>2, <2>3
<1> QED BY <1>1, <1>2, <1>3, <1>4, <1>5, <1>6, <1>7, <1>9, <1>11, <1>12 DEF Next

\* check! answers as if it ran at one moment of its call whenever at most one setter call
\* overlaps it, although it reads @fips_mode once and @jurisdiction twice and the setters
\* write them one by one: for any key sizes and any history of settings.
THEOREM VerdictsOfOnePolicy == Spec => []VerdictOfOnePolicy
<1>1. PolicyInv => VerdictOfOnePolicy
  BY DEF PolicyInv
<1> QED BY <1>1, PolicyStarts, PolicySteps, PTL DEF Spec
-------------------------------------------------------------------------------
(* The sockets of the probe.                                                   *)

LEMMA Rest ==
  ASSUME NEW s, IsSequence(s), s # <<>>
  PROVE  /\ Head(s) = s[1] /\ 1 \in DOMAIN s
         /\ IsSequence(Tail(s)) /\ (Len(s) > 1 => Tail(s) # <<>>)
         /\ \A i \in DOMAIN Tail(s) : /\ i \in Nat \ {0} /\ i + 1 \in DOMAIN s
                                      /\ Tail(s)[i] = s[i + 1]
<1>1. PICK S : s \in Seq(S)
  BY DEF IsSequence
<1>2. Tail(s) \in Seq(S)
  BY SMTT(60), <1>1
<1>3. Head(s) = s[1] /\ 1 \in DOMAIN s
  BY SMTT(60), <1>1
<1>4. Len(Tail(s)) = Len(s) - 1 /\ Len(s) \in Nat
  BY SMTT(60), <1>1
<1>5. Len(s) > 1 => Tail(s) # <<>>
  <2>1. Len(<<>>) = 0
    BY SMTT(60)
  <2> DEFINE m == Len(Tail(s))
             n == Len(s)
  <2>2. Tail(s) = <<>> => m = 0
    BY Zenon, <2>1
  <2>3. m = n - 1 /\ n \in Nat
    BY <1>4
  <2> HIDE DEF m, n
  <2>4. n > 1 => m # 0
    BY SMTT(60), <2>3
  <2> QED BY <2>2, <2>4 DEF n
<1>6. ASSUME NEW i \in DOMAIN Tail(s)
      PROVE  i \in Nat \ {0} /\ i + 1 \in DOMAIN s /\ Tail(s)[i] = s[i + 1]
  BY SMTT(60), <1>1, <1>2, <1>4
<1> QED BY <1>2, <1>3, <1>5, <1>6 DEF IsSequence

\* At most one cell has the server that drops what it accepted.
OneMute(cs) ==
  \A i, j \in DOMAIN cs : cs[i].server = "mute" /\ cs[j].server = "mute" => i = j

\* The mute server of this call has yet to drop its handle.
ToDrop ==
  \E i \in DOMAIN cells : cells[i].server = "mute" /\ (i # 1 \/ at = "listen" \/ server # "ended")

\* What is open within a cell: a cell with a server thread leaves it to that thread.
InCell ==
  IF Current.server = "drain" THEN server = "none" /\ accepted = 0
  ELSE /\ server \in {"accept", "serve", "ended"}
       /\ server = "accept" => accepted = 0
       /\ server = "ended" => ~listening /\ accepted = 0

\* The inductive invariant of the probe.
ProbeInv ==
  /\ runs \in Nat /\ dropped \in Nat /\ accepted \in Nat /\ dropped <= runs
  /\ at \in {"idle", "listen"} => ~listening /\ accepted = 0 /\ server \in {"none", "ended"}
  /\ at # "idle" => /\ IsSequence(cells) /\ cells # <<>> /\ OneMute(cells)
                    /\ ToDrop => dropped < runs
  /\ at \notin {"idle", "listen"} => InCell

LEMMA ProbeCells ==
  /\ IsSequence(LoadCells) /\ LoadCells # <<>> /\ IsSequence(DemandCells) /\ DemandCells # <<>>
  /\ \A i \in DOMAIN LoadCells : LoadCells[i].server # "mute"
  /\ OneMute(DemandCells)
<1>1. ASSUME NEW c
      PROVE  <<c>> \in Seq({c}) /\ <<c>> # <<>> /\ DOMAIN <<c>> = {1} /\ <<c>>[1] = c
  BY SMTT(60)
<1>2. ASSUME NEW a, NEW b, NEW c, NEW d, NEW e, NEW f
      PROVE  LET s == <<a, b, b, c, b, d, d, d, d, d, e, f>>
             IN /\ s \in Seq({a, b, c, d, e, f}) /\ s # <<>> /\ DOMAIN s = 1 .. 12
                /\ \A i \in 1 .. 12 : i = 11 \/ s[i] \in {a, b, c, d, f}
  BY SMTT(60)
<1> DEFINE a == Cell(4, "drain", "nothing")
           b == Cell(1, "drain", "write")
           c == Cell(1, "drain", "timed read")
           d == Cell(1, "push", "read")
           e == Cell(1, "mute", "std poll")
           f == Cell(1, "silent", "poll")
           g == Cell(1, "drain", "nothing")
<1>3. \A x \in {a, b, c, d, f, g} : x.server # "mute"
  <2>1. /\ a.server = "drain" /\ b.server = "drain" /\ c.server = "drain"
        /\ d.server = "push" /\ f.server = "silent" /\ g.server = "drain"
    BY DEF Cell
  <2> HIDE DEF a, b, c, d, f, g
  <2> QED BY <2>1
<1>4. LoadCells = <<g>> /\ DemandCells = <<a, b, b, c, b, d, d, d, d, d, e, f>>
  BY DEF LoadCells, DemandCells
<1> HIDE DEF a, b, c, d, e, f, g
<1>5. /\ LoadCells \in Seq({g}) /\ LoadCells # <<>>
      /\ \A i \in DOMAIN LoadCells : LoadCells[i].server # "mute"
  <2>1. g.server # "mute" /\ LoadCells = <<g>>
    BY <1>3, <1>4
  <2>2. <<g>> \in Seq({g}) /\ <<g>> # <<>> /\ DOMAIN <<g>> = {1} /\ <<g>>[1] = g
    BY <1>1
  <2> QED BY <2>1, <2>2
<1>6. /\ DemandCells \in Seq({a, b, c, d, e, f}) /\ DemandCells # <<>>
      /\ DOMAIN DemandCells = 1 .. 12
      /\ \A i \in 1 .. 12 : i = 11 \/ DemandCells[i] \in {a, b, c, d, f}
  BY <1>2, <1>4
<1>7. OneMute(DemandCells)
  BY <1>3, <1>6 DEF OneMute
<1> QED BY <1>5, <1>6, <1>7 DEF IsSequence

\* A cell ends with its handles closed, and leaves no more mute cells than there were.
LEMMA CellEnds ==
  ASSUME ProbeInv, at # "idle", NextCell, ~listening', accepted' = 0,
         server' = server, server \in {"none", "ended"}, UNCHANGED <<runs, dropped>>
  PROVE  ProbeInv'
<1>1. IsSequence(cells) /\ cells # <<>> /\ OneMute(cells) /\ (ToDrop => dropped < runs)
  BY DEF ProbeInv
<1>2. /\ IsSequence(cells') /\ (Len(cells) > 1 => cells' # <<>>)
      /\ \A i \in DOMAIN cells' : /\ i \in Nat \ {0} /\ i + 1 \in DOMAIN cells
                                  /\ cells'[i] = cells[i + 1]
  BY <1>1, Rest DEF NextCell
<1>3. OneMute(cells')
  BY SMTT(60), <1>1, <1>2 DEF OneMute
<1>4. ASSUME ToDrop' PROVE dropped' < runs'
  <2>1. PICK i \in DOMAIN cells' : cells'[i].server = "mute"
    BY <1>4 DEF ToDrop
  <2>2. i + 1 \in DOMAIN cells /\ cells[i + 1].server = "mute" /\ i + 1 # 1
    BY SMTT(60), <1>2, <2>1
  <2>3. ToDrop
    BY <2>2 DEF ToDrop
  <2> QED BY <1>1, <2>3
<1>5. at' \in {"idle", "listen"} /\ (at' # "idle" => cells' # <<>>)
  BY <1>2 DEF NextCell
<1> QED BY <1>2, <1>3, <1>4, <1>5 DEF ProbeInv

\* A step of the probing thread within a cell.
LEMMA CellGoesOn ==
  ASSUME ProbeInv, at \notin {"idle", "listen"}, at' \notin {"idle", "listen"},
         UNCHANGED <<runs, cells, server, handles>>
  PROVE  ProbeInv'
BY DEF ProbeInv, InCell, Current, ToDrop, handles

LEMMA ProbeSteps == ProbeInv /\ [ProbeNext]_probeVars => ProbeInv'
<1> SUFFICES ASSUME ProbeInv, [ProbeNext]_probeVars PROVE ProbeInv'
  OBVIOUS
<1>1. CASE UNCHANGED probeVars
  BY <1>1 DEF probeVars, ProbeInv, InCell, Current, ToDrop
<1>2. CASE Load
  <2>1. ~ToDrop'
    BY <1>2, ProbeCells DEF Load, ToDrop
  <2>2. OneMute(cells')
    BY <1>2, ProbeCells DEF Load, OneMute
  <2> QED BY <1>2, <2>1, <2>2, ProbeCells DEF Load, ProbeInv, handles
<1>3. CASE Demand
  <2>1. runs' \in Nat /\ dropped' < runs' /\ dropped' <= runs'
    BY SMTT(60), <1>3 DEF Demand, ProbeInv, handles
  <2> QED BY <1>3, <2>1, ProbeCells DEF Demand, ProbeInv, handles
<1>4. CASE ListenFails
  <2>1. CASE Current.connects = 4
    BY <1>4, <2>1 DEF ListenFails, ProbeInv, handles
  <2>2. CASE Current.connects # 4
    BY <1>4, <2>2, CellEnds DEF ListenFails, ProbeInv, handles
  <2> QED BY <2>1, <2>2
<1>5. CASE NoPort
  BY <1>5, CellEnds DEF NoPort, ProbeInv, handles
<1>6. CASE Listen
  <2>1. InCell'
    BY <1>6 DEF Listen, InCell, Current, ProbeInv
  <2>2. ToDrop' => ToDrop
    BY <1>6 DEF Listen, ToDrop
  <2> QED BY <1>6, <2>1, <2>2 DEF Listen, ProbeInv
<1>7. CASE Connect \/ ConnectFails \/ Talk \/ ModeNotSet \/ Read \/ ReadFails
  BY <1>7, CellGoesOn DEF Connect, ConnectFails, Talk, ModeNotSet, Read, ReadFails, Reading,
                             After
<1>8. CASE Drain \/ DrainFails
  BY <1>8, CellEnds DEF Drain, DrainFails, ProbeInv, InCell
<1>9. CASE Join
  BY <1>9, CellEnds DEF Join, ProbeInv, InCell, handles
<1>10. CASE Accept
  <2>1. accepted' \in Nat
    BY SMTT(60), <1>10 DEF Accept, ProbeInv
  <2>2. at \notin {"idle", "listen"}
    BY <1>10 DEF Accept, ProbeInv
  <2>3. InCell'
    BY <1>10, <2>2 DEF Accept, ProbeInv, InCell, Current
  <2>4. ToDrop' => ToDrop
    BY <1>10 DEF Accept, ToDrop
  <2> QED BY <1>10, <2>1, <2>2, <2>3, <2>4 DEF Accept, ProbeInv
<1>11. CASE AcceptFails
  <2>1. at \notin {"idle", "listen"}
    BY <1>11 DEF AcceptFails, ProbeInv
  <2>2. InCell'
    BY <1>11, <2>1 DEF AcceptFails, ProbeInv, InCell, Current
  <2>3. ToDrop' => ToDrop
    BY <1>11 DEF AcceptFails, ToDrop
  <2> QED BY <1>11, <2>1, <2>2, <2>3 DEF AcceptFails, ProbeInv
<1>12. CASE Serve
  <2>1. at \notin {"idle", "listen"}
    BY <1>12 DEF Serve, ProbeInv
  <2>2. InCell'
    BY <1>12, <2>1 DEF Serve, ProbeInv, InCell, Current
  <2>3. Current = cells[1] /\ 1 \in DOMAIN cells
    BY <2>1, Rest DEF ProbeInv, Current
  <2>4. CASE Current.server = "mute"
    <3>1. ToDrop
      BY <1>12, <2>3, <2>4 DEF Serve, ToDrop
    <3>2. dropped' \in Nat /\ dropped' <= runs'
      BY SMTT(60), <1>12, <2>1, <2>4, <3>1 DEF Serve, ProbeInv
    <3>3. ~ToDrop'
      BY <1>12, <2>1, <2>3, <2>4 DEF Serve, ToDrop, ProbeInv, OneMute
    <3> QED BY <1>12, <2>1, <2>2, <3>2, <3>3 DEF Serve, ProbeInv
  <2>5. CASE Current.server # "mute"
    <3>1. ToDrop' => ToDrop
      BY <1>12, <2>1 DEF Serve, ToDrop
    <3> QED BY <1>12, <2>1, <2>2, <2>5, <3>1 DEF Serve, ProbeInv
  <2> QED BY <2>4, <2>5
<1> QED BY <1>1, <1>2, <1>3, <1>4, <1>5, <1>6, <1>7, <1>8, <1>9, <1>10, <1>11, <1>12
        DEF ProbeNext, ProbeStep, ServerStep

\* The probe closes every listener and accepted handle before the next cell, on every path
\* of failing calls, and each call drops at most the mute server's one: for any number of
\* calls (raw_listener, drain_accepted and the server threads of winsock.rs).
THEOREM ProbeClosesHandles == ProbeSpec => []HandlesAreClosed
<1>1. ProbeInit => ProbeInv
  BY SMTT(60) DEF ProbeInit, ProbeInv
<1>2. ProbeInv => HandlesAreClosed
  BY DEF ProbeInv, HandlesAreClosed
<1> QED BY <1>1, <1>2, ProbeSteps, PTL DEF ProbeSpec
-------------------------------------------------------------------------------
(* The transparency log.                                                       *)

LEMMA SequenceIs ==
  ASSUME NEW S, NEW l \in Seq(S)
  PROVE  Len(l) \in Nat /\ \A i \in 1 .. Len(l) : l[i] \in S
BY SMTT(60)

LEMMA SameSequence ==
  ASSUME NEW S, NEW s \in Seq(S), NEW t \in Seq(S), Len(s) = Len(t),
         \A i \in 1 .. Len(s) : s[i] = t[i]
  PROVE  s = t
BY SMTT(60)

LEMMA AppendIs ==
  ASSUME NEW S, NEW l \in Seq(S), NEW e \in S
  PROVE  /\ Append(l, e) \in Seq(S) /\ Len(Append(l, e)) = Len(l) + 1
         /\ \A i \in 1 .. Len(l) : Append(l, e)[i] = l[i]
         /\ Append(l, e)[Len(l) + 1] = e
BY SMTT(60)

\* Hashes are equal only if they were computed from the same things.
LEMMA HashesDiffer ==
  /\ \A x, y, u, v : TreeNode(x, y) = TreeNode(u, v) => x = u /\ y = v
  /\ \A x, y, q, a : TreeNode(x, y) # TreeLeaf(q, a)
  /\ \A q, a, r, b : TreeLeaf(q, a) = TreeLeaf(r, b) => q = r /\ a = b
  /\ \A x, y : TreeNode(x, y) # EmptyRoot
  /\ \A q, a : TreeLeaf(q, a) # EmptyRoot
<1>1. \A x, y, u, v : TreeNode(x, y) = TreeNode(u, v) => x = u /\ y = v
  BY SMTT(60) DEF TreeNode
<1>2. \A x, y, e : <<2, x, y>> # <<1, e>>
  BY SMTT(60)
<1>3. \A q, a, r, b : TreeLeaf(q, a) = TreeLeaf(r, b) => q = r /\ a = b
  BY SMTT(60) DEF TreeLeaf, Entry
<1>4. (\A x, y : <<2, x, y>> # <<0>>) /\ (\A e : <<1, e>> # <<0>>)
  BY SMTT(60)
<1> QED BY <1>1, <1>2, <1>3, <1>4 DEF TreeNode, TreeLeaf, EmptyRoot

LEMMA AboveIs ==
  ASSUME NEW v, v.size \in Nat
  PROVE  /\ Above(v).size \in Nat /\ Above(v).size = (v.size + 1) \div 2
         /\ \A i \in 1 .. (v.size + 1) \div 2 :
              Above(v).node[i] = IF 2 * i <= v.size THEN TreeNode(v.node[2 * i - 1], v.node[2 * i])
                                 ELSE v.node[2 * i - 1]
<1> DEFINE half == (v.size + 1) \div 2
           f == [i \in 1 .. half |-> IF 2 * i <= v.size THEN TreeNode(v.node[2 * i - 1], v.node[2 * i])
                                     ELSE v.node[2 * i - 1]]
<1>1. half \in Nat
  BY SMTT(60)
<1>2. Above(v) = [size |-> half, node |-> f]
  BY DEF Above
<1>3. Above(v).size = half /\ Above(v).node = f
  <2> HIDE DEF half, f
  <2> QED BY SMTT(60), <1>2
<1> QED BY <1>1, <1>3

\* How a level of a tree over more leaves differs from the same level over fewer: D
\* holds the full nodes of that level, T every node that can stand there, and a node
\* with a full left half cannot.
Joined(D, T) == {TreeNode(x, y) : x \in D, y \in T}

Apart(D, T) ==
  /\ D \subseteq T
  /\ \A x, y : TreeNode(x, y) \in T => x \in T
  /\ \A x \in D : \A y : TreeNode(x, y) \notin T

Earlier(a, b, D, T) ==
  /\ a.size \in Nat /\ b.size \in Nat /\ 1 <= a.size /\ a.size <= b.size
  /\ \A i \in 1 .. a.size : a.node[i] \in T
  /\ \A i \in 1 .. b.size : b.node[i] \in T
  /\ \A i \in 1 .. b.size - 1 : b.node[i] \in D
  /\ \A i \in 1 .. a.size - 1 : a.node[i] = b.node[i]
  /\ a.size < b.size \/ a.node[a.size] # b.node[a.size]

Precedes(a, b) == \E D, T : Apart(D, T) /\ Earlier(a, b, D, T)

LEMMA ApartAbove ==
  ASSUME NEW D, NEW T, Apart(D, T)
  PROVE  Apart(Joined(D, T), T \cup Joined(T, T))
<1> DEFINE E == Joined(D, T)
           U == T \cup Joined(T, T)
<1>1. E \subseteq U
  BY SMTT(60) DEF Apart, Joined
<1>2. ASSUME NEW x, NEW y, TreeNode(x, y) \in U
      PROVE  x \in T
  BY SMTT(60), <1>2, HashesDiffer DEF Apart, Joined
<1>3. \A x \in E : x \notin T
  BY SMTT(60) DEF Apart, Joined
<1> QED BY <1>1, <1>2, <1>3 DEF Apart

LEMMA EarlierAbove ==
  ASSUME NEW a, NEW b, NEW D, NEW T, Apart(D, T), Earlier(a, b, D, T)
  PROVE  Earlier(Above(a), Above(b), Joined(D, T), T \cup Joined(T, T))
<1> DEFINE E == Joined(D, T)
           U == T \cup Joined(T, T)
           p == a.size
           q == b.size
           A == a.node
           B == b.node
           AA == Above(a).node
           BB == Above(b).node
           hp == (p + 1) \div 2
           hq == (q + 1) \div 2
<1>1. /\ p \in Nat /\ q \in Nat /\ 1 <= p /\ p <= q
      /\ \A i \in 1 .. p : A[i] \in T
      /\ \A i \in 1 .. q : B[i] \in T
      /\ \A i \in 1 .. q - 1 : B[i] \in D
      /\ \A i \in 1 .. p - 1 : A[i] = B[i]
      /\ p < q \/ A[p] # B[p]
  BY DEF Earlier
<1>2. /\ Above(a).size = hp /\ Above(b).size = hq
      /\ \A i \in 1 .. hp : AA[i] = IF 2 * i <= p THEN TreeNode(A[2 * i - 1], A[2 * i]) ELSE A[2 * i - 1]
      /\ \A i \in 1 .. hq : BB[i] = IF 2 * i <= q THEN TreeNode(B[2 * i - 1], B[2 * i]) ELSE B[2 * i - 1]
  BY <1>1, AboveIs
<1> HIDE DEF p, q, A, B, AA, BB
<1>3. hp \in Nat /\ hq \in Nat /\ 1 <= hp /\ hp <= hq
  BY SMTT(60), <1>1
<1>4. ASSUME NEW i \in 1 .. hp PROVE AA[i] \in U
  <2>1. 2 * i - 1 \in 1 .. p /\ (2 * i <= p => 2 * i \in 1 .. p)
    BY SMTT(60), <1>1
  <2> QED BY SMTT(60), <1>1, <1>2, <2>1 DEF Joined
<1>5. ASSUME NEW i \in 1 .. hq PROVE BB[i] \in U
  <2>1. 2 * i - 1 \in 1 .. q /\ (2 * i <= q => 2 * i \in 1 .. q)
    BY SMTT(60), <1>1
  <2> QED BY SMTT(60), <1>1, <1>2, <2>1 DEF Joined
<1>6. ASSUME NEW i \in 1 .. hq - 1 PROVE BB[i] \in E
  <2>1. i \in 1 .. hq /\ 2 * i - 1 \in 1 .. q - 1 /\ 2 * i <= q /\ 2 * i \in 1 .. q
    BY SMTT(60), <1>1
  <2> QED BY SMTT(60), <1>1, <1>2, <2>1 DEF Joined
<1>7. ASSUME NEW i \in 1 .. hp - 1 PROVE AA[i] = BB[i]
  <2>1. /\ i \in 1 .. hp /\ i \in 1 .. hq /\ 2 * i <= p /\ 2 * i <= q
        /\ 2 * i - 1 \in 1 .. p - 1 /\ 2 * i \in 1 .. p - 1
    BY SMTT(60), <1>1
  <2> QED BY <1>1, <1>2, <2>1
<1>8. hp < hq \/ AA[hp] # BB[hp]
  <2> SUFFICES ASSUME hp = hq PROVE AA[hp] # BB[hp]
    BY SMTT(60), <1>3
  <2>0. hp \in 1 .. hp /\ hp \in 1 .. hq
    BY SMTT(60), <1>3
  <2>1. CASE p = q
    <3>1. A[p] # B[p]
      BY SMTT(60), <1>1, <2>1
    <3>2. CASE 2 * hp <= p
      <4>1. 2 * hp = p /\ 2 * hp <= q
        BY SMTT(60), <1>1, <2>1, <3>2
      <4>2. AA[hp] = TreeNode(A[2 * hp - 1], A[2 * hp]) /\ BB[hp] = TreeNode(B[2 * hp - 1], B[2 * hp])
        BY <1>2, <2>0, <3>2, <4>1
      <4> QED BY SMTT(60), <3>1, <4>1, <4>2, HashesDiffer
    <3>3. CASE ~ (2 * hp <= p)
      <4>1. 2 * hp - 1 = p /\ ~ (2 * hp <= q)
        BY SMTT(60), <1>1, <2>1, <3>3
      <4> QED BY <1>2, <2>0, <3>1, <3>3, <4>1
    <3> QED BY <3>2, <3>3
  <2>2. CASE p # q
    <3>1. 2 * hp - 1 = p /\ ~ (2 * hp <= p) /\ 2 * hp <= q /\ p \in 1 .. p /\ p \in 1 .. q - 1
      BY SMTT(60), <1>1, <2>2
    <3>2. AA[hp] = A[p] /\ BB[hp] = TreeNode(B[p], B[2 * hp])
      BY <1>2, <2>0, <3>1
    <3>3. A[p] \in T /\ B[p] \in D
      BY <1>1, <3>1
    <3>4. TreeNode(B[p], B[2 * hp]) \notin T
      BY <3>3 DEF Apart
    <3> QED BY <3>2, <3>3, <3>4
  <2> QED BY <2>1, <2>2
<1> QED BY <1>2, <1>3, <1>4, <1>5, <1>6, <1>7, <1>8 DEF Earlier, AA, BB

LEMMA PrecedesAbove ==
  ASSUME NEW a, NEW b, Precedes(a, b)
  PROVE  Precedes(Above(a), Above(b))
BY ApartAbove, EarlierAbove DEF Precedes
LEMMA TopIsOne ==
  ASSUME NEW v, v.size \in 1 .. 16
  PROVE  Above(Above(Above(Above(v)))).size = 1
<1>1. \A w : w.size \in Nat => Above(w).size = (w.size + 1) \div 2
  BY AboveIs
<1>2. \A w : /\ w.size \in 1 .. 16 => Above(w).size \in 1 .. 8
             /\ w.size \in 1 .. 8 => Above(w).size \in 1 .. 4
             /\ w.size \in 1 .. 4 => Above(w).size \in 1 .. 2
             /\ w.size \in 1 .. 2 => Above(w).size = 1
  BY SMTT(60), <1>1
<1> QED BY <1>2

\* No node is the root of the empty tree.
Solid(v) == v.size \in Nat /\ \A i \in 1 .. v.size : v.node[i] # EmptyRoot

LEMMA SolidAbove ==
  ASSUME NEW v, Solid(v)
  PROVE  Solid(Above(v))
<1>1. ASSUME NEW i \in 1 .. Above(v).size PROVE Above(v).node[i] # EmptyRoot
  <2>1. i \in 1 .. (v.size + 1) \div 2 /\ v.size \in Nat
    BY <1>1, AboveIs DEF Solid
  <2>2. 2 * i - 1 \in 1 .. v.size
    BY SMTT(60), <2>1
  <2> QED BY SMTT(60), <2>1, <2>2, AboveIs, HashesDiffer DEF Solid
<1> QED BY <1>1, AboveIs DEF Solid

Prefix(l, n) == SubSeq(l, 1, n)

LEMMA PrefixIs ==
  ASSUME NEW S, NEW l \in Seq(S), NEW n \in 0 .. Len(l)
  PROVE  /\ Prefix(l, n) \in Seq(S) /\ Len(Prefix(l, n)) = n
         /\ \A i \in 1 .. n : Prefix(l, n)[i] = l[i]
BY SMTT(60) DEF Prefix

LEMMA LeavesIs ==
  ASSUME NEW S, NEW l \in Seq(S), NEW n \in 0 .. Len(l)
  PROVE  /\ Leaves(Prefix(l, n)).size = n
         /\ \A i \in 1 .. n : Leaves(Prefix(l, n)).node[i] = TreeLeaf(i - 1, l[i])
<1> DEFINE m == Prefix(l, n)
           f == [i \in 1 .. Len(m) |-> TreeLeaf(i - 1, m[i])]
<1>1. Leaves(m).size = Len(m) /\ Leaves(m).node = f
  <2>1. Leaves(m) = [size |-> Len(m), node |-> f]
    BY DEF Leaves
  <2> HIDE DEF m, f
  <2> QED BY SMTT(60), <2>1
<1>2. Len(m) = n /\ \A i \in 1 .. n : m[i] = l[i]
  BY PrefixIs
<1>3. Leaves(m).size = n /\ \A i \in 1 .. n : Leaves(m).node[i] = TreeLeaf(i - 1, l[i])
  <2> HIDE DEF m
  <2> QED BY <1>1, <1>2
<1> QED BY <1>3

\* The roots of two prefixes of a log are different.
LEMMA RootsDiffer ==
  ASSUME NEW S, NEW l \in Seq(S), Len(l) <= 16, NEW m \in 0 .. Len(l), NEW n \in 0 .. Len(l), m < n
  PROVE  Root(Prefix(l, m)) # Root(Prefix(l, n))
<1> DEFINE a == Leaves(Prefix(l, m))
           b == Leaves(Prefix(l, n))
           top(v) == Above(Above(Above(Above(v))))
<1>1. /\ Len(l) \in Nat /\ m \in Nat /\ n \in Nat /\ n \in 1 .. 16 /\ (m # 0 => m \in 1 .. 16)
      /\ 1 .. m \subseteq Nat /\ 1 .. n \subseteq 1 .. Len(l) /\ 1 .. m \subseteq 1 .. Len(l)
  BY SMTT(60)
<1>2. Root(Prefix(l, n)) = top(b).node[1]
  <2>1. Prefix(l, n) # <<>>
    BY SMTT(60), <1>1, PrefixIs
  <2> QED BY <2>1 DEF Root
<1>3. top(b).size = 1
  <2>1. b.size = n
    BY LeavesIs
  <2> HIDE DEF b
  <2> QED BY <1>1, <2>1, TopIsOne
<1>4. CASE m = 0
  <2>1. Prefix(l, m) = <<>>
    BY SMTT(60), <1>4, PrefixIs
  <2>2. Solid(b)
    <3>1. b.size = n /\ \A i \in 1 .. n : b.node[i] = TreeLeaf(i - 1, l[i])
      BY LeavesIs
    <3> HIDE DEF b
    <3>2. n \in Nat /\ \A i \in 1 .. n : TreeLeaf(i - 1, l[i]) # EmptyRoot
      BY <1>1, HashesDiffer
    <3> QED BY <3>1, <3>2 DEF Solid
  <2>3. Solid(top(b))
    <3> HIDE DEF b
    <3> QED BY <2>2, SolidAbove
  <2>4. top(b).node[1] # EmptyRoot
    <3> HIDE DEF b
    <3>1. 1 \in 1 .. top(b).size
      BY SMTT(60), <1>3
    <3> QED BY <2>3, <3>1 DEF Solid
  <2> QED BY <1>2, <2>1, <2>4 DEF Root
<1>5. CASE m # 0
  <2>1. Precedes(a, b)
    <3> DEFINE T == {TreeLeaf(i, e) : i \in Int, e \in S}
    <3>1. Apart(T, T)
      BY SMTT(60), HashesDiffer DEF Apart
    <3>2. \A i \in 1 .. Len(l) : TreeLeaf(i - 1, l[i]) \in T
      <4>1. \A i \in 1 .. Len(l) : i - 1 \in Int /\ l[i] \in S
        BY SMTT(60)
      <4> QED BY SMTT(60), <4>1
    <3> HIDE DEF T
    <3>3. /\ a.size = m /\ \A i \in 1 .. m : a.node[i] = TreeLeaf(i - 1, l[i])
          /\ b.size = n /\ \A i \in 1 .. n : b.node[i] = TreeLeaf(i - 1, l[i])
      BY LeavesIs
    <3> HIDE DEF a, b
    <3>4. Earlier(a, b, T, T)
      <4>1. /\ 1 .. n - 1 \subseteq 1 .. n /\ 1 .. m - 1 \subseteq 1 .. n /\ 1 .. m - 1 \subseteq 1 .. m
            /\ 1 <= m /\ m <= n /\ n \in Nat
        BY SMTT(60), <1>1, <1>5
      <4> QED BY <1>1, <3>2, <3>3, <4>1 DEF Earlier
    <3> QED BY <3>1, <3>4 DEF Precedes
  <2>2. Precedes(top(a), top(b))
    <3> HIDE DEF a, b
    <3> QED BY <2>1, PrecedesAbove
  <2>3. top(a).size = 1
    <3>1. a.size = m
      BY LeavesIs
    <3> HIDE DEF a
    <3> QED BY <1>1, <1>5, <3>1, TopIsOne
  <2>4. Root(Prefix(l, m)) = top(a).node[1]
    <3>1. Prefix(l, m) # <<>>
      BY SMTT(60), <1>1, <1>5, PrefixIs
    <3> QED BY <3>1 DEF Root
  <2>5. top(a).node[1] # top(b).node[1]
    <3> HIDE DEF top, a, b
    <3>1. ~ (1 < 1)
      BY SMTT(60)
    <3> QED BY <1>3, <2>2, <2>3, <3>1 DEF Precedes, Earlier
  <2> QED BY <1>2, <2>4, <2>5
<1> QED BY <1>4, <1>5

\* Replaying a path with one more step.
LEMMA ReplayStep ==
  ASSUME NEW s, IsSequence(s), Len(s) < 4, NEW e, NEW leaf
  PROVE  Replay(leaf, Append(s, e)) = IF e.side = "left" THEN TreeNode(e.sibling, Replay(leaf, s))
                                      ELSE TreeNode(Replay(leaf, s), e.sibling)
<1> DEFINE t == Append(s, e)
           k == Len(s)
           F(x) == IF e.side = "left" THEN TreeNode(e.sibling, x) ELSE TreeNode(x, e.sibling)
<1>1. /\ k \in Nat /\ Len(t) = k + 1 /\ t[k + 1] = e
      /\ \A n \in 1 .. k : t[n] = s[n]
  <2>1. PICK S : s \in Seq(S)
    BY DEF IsSequence
  <2>2. s \in Seq(S \cup {e})
    BY SMTT(60), <2>1
  <2> QED BY SMTT(60), <2>2, AppendIs, SequenceIs
<1> HIDE DEF t
<1>2. \A n \in 1 .. 4 : \A x : n <= k => Turn(t, n, x) = Turn(s, n, x)
  <2> SUFFICES ASSUME NEW n \in 1 .. 4, NEW x, n <= k PROVE Turn(t, n, x) = Turn(s, n, x)
    OBVIOUS
  <2>1. n \in 1 .. k /\ ~ (n > Len(t)) /\ ~ (n > Len(s))
    BY SMTT(60), <1>1
  <2> QED BY <1>1, <2>1 DEF Turn
<1>3. \A n \in 1 .. 4 : \A x : n = k + 1 => Turn(t, n, x) = F(x) /\ Turn(s, n, x) = x
  <2> SUFFICES ASSUME NEW n \in 1 .. 4, NEW x, n = k + 1
               PROVE  Turn(t, n, x) = F(x) /\ Turn(s, n, x) = x
    OBVIOUS
  <2>1. ~ (n > Len(t)) /\ n > Len(s)
    BY SMTT(60), <1>1
  <2> QED BY <1>1, <2>1 DEF Turn, hash_internal, TreeNode
<1>4. \A n \in 1 .. 4 : \A x : n > k + 1 => Turn(t, n, x) = x /\ Turn(s, n, x) = x
  <2> SUFFICES ASSUME NEW n \in 1 .. 4, NEW x, n > k + 1
               PROVE  Turn(t, n, x) = x /\ Turn(s, n, x) = x
    OBVIOUS
  <2>1. n > Len(t) /\ n > Len(s)
    BY SMTT(60), <1>1
  <2> QED BY <2>1 DEF Turn
<1>5. Replay(leaf, t) = F(Replay(leaf, s))
  <2> HIDE DEF F
  <2>0. 1 \in 1 .. 4 /\ 2 \in 1 .. 4 /\ 3 \in 1 .. 4 /\ 4 \in 1 .. 4
    BY SMTT(60)
  <2>1. CASE k = 0
    <3>1. 1 = k + 1 /\ 2 > k + 1 /\ 3 > k + 1 /\ 4 > k + 1
      BY SMTT(60), <2>1
    <3> QED BY SMTT(60), <1>3, <1>4, <2>0, <3>1 DEF Replay
  <2>2. CASE k = 1
    <3>1. 1 <= k /\ 2 = k + 1 /\ 3 > k + 1 /\ 4 > k + 1
      BY SMTT(60), <2>2
    <3> QED BY SMTT(60), <1>2, <1>3, <1>4, <2>0, <3>1 DEF Replay
  <2>3. CASE k = 2
    <3>1. 1 <= k /\ 2 <= k /\ 3 = k + 1 /\ 4 > k + 1
      BY SMTT(60), <2>3
    <3> QED BY SMTT(60), <1>2, <1>3, <1>4, <2>0, <3>1 DEF Replay
  <2>4. CASE k = 3
    <3>1. 1 <= k /\ 2 <= k /\ 3 <= k /\ 4 = k + 1
      BY SMTT(60), <2>4
    <3> QED BY SMTT(60), <1>2, <1>3, <2>0, <3>1 DEF Replay
  <2>5. k = 0 \/ k = 1 \/ k = 2 \/ k = 3
    <3>1. k \in Nat /\ k < 4
      BY <1>1
    <3> HIDE DEF k
    <3> QED BY SMTT(60), <3>1
  <2> QED BY <2>1, <2>2, <2>3, <2>4, <2>5
<1> QED BY <1>5 DEF t

\* A replay determines the leaf it began with.
LEMMA ReplayPinsLeaf ==
  ASSUME NEW s, NEW x, NEW y, Replay(x, s) = Replay(y, s)
  PROVE  x = y
<1>1. \A n, u, v : Turn(s, n, u) = Turn(s, n, v) => u = v
  <2>1. \A g, u, v : /\ hash_internal(g, u) = hash_internal(g, v) => u = v
                     /\ hash_internal(u, g) = hash_internal(v, g) => u = v
    BY HashesDiffer DEF hash_internal, TreeNode
  <2> QED BY <2>1 DEF Turn
<1> QED BY SMTT(60), <1>1 DEF Replay

\* The path so far leads from the leaf to the node it has reached.
Reached(c, leaf) ==
  /\ c.level.size \in Nat /\ c.pos \in 1 .. c.level.size
  /\ IsSequence(c.steps) /\ Replay(leaf, c.steps) = c.level.node[c.pos]

LEMMA UpReaches ==
  ASSUME NEW c, NEW leaf, Reached(c, leaf), Len(c.steps) < 4
  PROVE  /\ Reached(Up(c), leaf) /\ Up(c).level = Above(c.level)
         /\ Len(Up(c).steps) <= Len(c.steps) + 1
<1> DEFINE v == c.level
           i == c.pos
           left == [side |-> "left", sibling |-> v.node[i - 1]]
           right == [side |-> "right", sibling |-> v.node[i + 1]]
           steps == IF i % 2 = 0 THEN Append(c.steps, left)
                    ELSE IF i < v.size THEN Append(c.steps, right) ELSE c.steps
<1>0. /\ left.side = "left" /\ left.sibling = v.node[i - 1]
      /\ right.side # "left" /\ right.sibling = v.node[i + 1]
  OBVIOUS
<1>1. Up(c).level = Above(v) /\ Up(c).pos = (i + 1) \div 2 /\ Up(c).steps = steps
  <2>1. Up(c) = [level |-> Above(v), pos |-> (i + 1) \div 2, steps |-> steps]
    BY DEF Up
  <2> HIDE DEF v, i, steps
  <2> QED BY SMTT(60), <2>1
<1> HIDE DEF v, i, left, right
<1>2. v.size \in Nat /\ i \in 1 .. v.size /\ Replay(leaf, c.steps) = v.node[i] /\ IsSequence(c.steps)
  BY DEF Reached, v, i
<1>3. /\ (i + 1) \div 2 \in 1 .. (v.size + 1) \div 2
      /\ i % 2 = 0 => 2 * ((i + 1) \div 2) = i /\ 2 * ((i + 1) \div 2) - 1 = i - 1 /\ i <= v.size
      /\ i % 2 # 0 => 2 * ((i + 1) \div 2) - 1 = i /\ 2 * ((i + 1) \div 2) = i + 1
      /\ i % 2 # 0 => (2 * ((i + 1) \div 2) <= v.size <=> i < v.size)
  <2>1. v.size \in Nat /\ i \in Nat /\ 1 <= i /\ i <= v.size
    BY SMTT(60), <1>2
  <2> QED BY SMTT(60), <2>1
<1>4. Above(v).size = (v.size + 1) \div 2 /\ Above(v).size \in Nat
  BY <1>2, AboveIs
<1>5. Above(v).node[(i + 1) \div 2] = IF i % 2 = 0 THEN TreeNode(v.node[i - 1], v.node[i])
                                      ELSE IF i < v.size THEN TreeNode(v.node[i], v.node[i + 1])
                                      ELSE v.node[i]
  <2> DEFINE h == (i + 1) \div 2
  <2>1. Above(v).node[h] = IF 2 * h <= v.size THEN TreeNode(v.node[2 * h - 1], v.node[2 * h])
                           ELSE v.node[2 * h - 1]
    BY <1>2, <1>3, AboveIs
  <2> QED BY <1>3, <2>1
<1>6. \A e : /\ IsSequence(Append(c.steps, e)) /\ Len(Append(c.steps, e)) = Len(c.steps) + 1
             /\ Len(c.steps) <= Len(c.steps) + 1
  <2> TAKE e
  <2>1. PICK S : c.steps \in Seq(S)
    BY <1>2 DEF IsSequence
  <2>2. c.steps \in Seq(S \cup {e})
    BY SMTT(60), <2>1
  <2>3. /\ Append(c.steps, e) \in Seq(S \cup {e})
        /\ Len(Append(c.steps, e)) = Len(c.steps) + 1 /\ Len(c.steps) \in Nat
    BY SMTT(60), <2>2, AppendIs, SequenceIs
  <2>4. Len(c.steps) <= Len(c.steps) + 1
    BY SMTT(60), <2>3
  <2> QED BY <2>3, <2>4 DEF IsSequence
<1>7. Replay(leaf, steps) = Above(v).node[(i + 1) \div 2]
  <2>1. CASE i % 2 = 0
    BY SMTT(60), <1>0, <1>2, <1>5, <2>1, ReplayStep
  <2>2. CASE i % 2 # 0 /\ i < v.size
    BY SMTT(60), <1>0, <1>2, <1>5, <2>2, ReplayStep
  <2>3. CASE i % 2 # 0 /\ ~ (i < v.size)
    BY <1>2, <1>5, <2>3
  <2> QED BY <2>1, <2>2, <2>3
<1>8. IsSequence(steps) /\ Len(steps) <= Len(c.steps) + 1
  <2>1. Len(c.steps) + 1 <= Len(c.steps) + 1
    <3>1. PICK S : c.steps \in Seq(S)
      BY <1>2 DEF IsSequence
    <3> QED BY SMTT(60), <3>1
  <2> QED BY SMTT(60), <1>2, <1>6, <2>1
<1> QED BY <1>1, <1>3, <1>4, <1>7, <1>8 DEF Reached, v

\* The path of an entry leads from its leaf to the root.
LEMMA PathsLead ==
  ASSUME NEW S, NEW l \in Seq(S), Len(l) <= 16, NEW n \in 1 .. Len(l), NEW q \in 0 .. n - 1
  PROVE  Replay(hash_leaf(Entry(q, l[q + 1])), Steps(Prefix(l, n), q)) = Root(Prefix(l, n))
<1> DEFINE p == Prefix(l, n)
           leaf == hash_leaf(Entry(q, l[q + 1]))
           c0 == Start(p, q)
           c1 == Up(c0)
           c2 == Up(c1)
           c3 == Up(c2)
           c4 == Up(c3)
<1>1. /\ n \in Nat /\ n \in 0 .. Len(l) /\ n \in 1 .. 16 /\ q + 1 \in 1 .. n /\ q + 1 - 1 = q
  BY SMTT(60)
<1>2. Reached(c0, leaf) /\ c0.level = Leaves(p) /\ Len(c0.steps) = 0
  <2>1. c0.level = Leaves(p) /\ c0.pos = q + 1 /\ c0.steps = <<>>
    BY DEF Start
  <2>2. Leaves(p).size = n /\ Leaves(p).node[q + 1] = TreeLeaf(q, l[q + 1])
    <3>1. Leaves(p).size = n /\ \A i \in 1 .. n : Leaves(p).node[i] = TreeLeaf(i - 1, l[i])
      BY <1>1, LeavesIs
    <3> HIDE DEF p
    <3> QED BY SMTT(60), <1>1, <3>1
  <2>3. \A x : Replay(x, <<>>) = x
    <3>1. 1 > Len(<<>>) /\ 2 > Len(<<>>) /\ 3 > Len(<<>>) /\ 4 > Len(<<>>)
      BY SMTT(60)
    <3> QED BY <3>1 DEF Replay, Turn
  <2>4. IsSequence(<<>>) /\ Len(<<>>) = 0
    BY SMTT(60) DEF IsSequence
  <2> QED BY <1>1, <2>1, <2>2, <2>3, <2>4 DEF Reached, TreeLeaf, hash_leaf
<1> HIDE DEF leaf, c0
<1>3. ASSUME NEW c, NEW m \in 0 .. 3, Reached(c, leaf), Len(c.steps) <= m
      PROVE  Reached(Up(c), leaf) /\ Up(c).level = Above(c.level) /\ Len(Up(c).steps) <= m + 1
  <2>1. Len(c.steps) \in Nat
    BY <1>3, SequenceIs DEF Reached, IsSequence
  <2>2. Len(c.steps) < 4
    BY SMTT(60), <1>3, <2>1
  <2>3. Reached(Up(c), leaf) /\ Up(c).level = Above(c.level) /\ Len(Up(c).steps) <= Len(c.steps) + 1
    BY <1>3, <2>2, UpReaches
  <2>4. Len(Up(c).steps) \in Nat
    BY <2>3, SequenceIs DEF Reached, IsSequence
  <2>5. Len(Up(c).steps) <= m + 1
    BY SMTT(60), <1>3, <2>1, <2>3, <2>4
  <2> QED BY <2>3, <2>5
<1>4. /\ 0 \in 0 .. 3 /\ 1 \in 0 .. 3 /\ 2 \in 0 .. 3 /\ 3 \in 0 .. 3
      /\ 0 <= 0 /\ 0 + 1 = 1 /\ 1 + 1 = 2 /\ 2 + 1 = 3
  BY SMTT(60)
<1>5. Reached(c1, leaf) /\ c1.level = Above(Leaves(p)) /\ Len(c1.steps) <= 1
  BY <1>2, <1>3, <1>4
<1>6. Reached(c2, leaf) /\ c2.level = Above(Above(Leaves(p))) /\ Len(c2.steps) <= 2
  <2> HIDE DEF c1
  <2> QED BY <1>3, <1>4, <1>5
<1>7. Reached(c3, leaf) /\ c3.level = Above(Above(Above(Leaves(p)))) /\ Len(c3.steps) <= 3
  <2> HIDE DEF c2
  <2> QED BY <1>3, <1>4, <1>6
<1>8. Reached(c4, leaf) /\ c4.level = Above(Above(Above(Above(Leaves(p)))))
  <2> HIDE DEF c3
  <2> QED BY <1>3, <1>4, <1>7
<1>9. Root(p) = c4.level.node[1] /\ c4.level.size = 1
  <2>1. p # <<>> /\ Leaves(p).size = n
    <3>1. Len(p) = n /\ Leaves(p).size = n
      BY <1>1, PrefixIs, LeavesIs
    <3>2. n # 0 /\ Len(<<>>) = 0
      BY SMTT(60), <1>1
    <3> QED BY <3>1, <3>2
  <2> HIDE DEF p
  <2>2. Above(Above(Above(Above(Leaves(p))))).size = 1
    BY <1>1, <2>1, TopIsOne
  <2> QED BY <1>8, <2>1, <2>2 DEF Root
<1>10. Replay(leaf, c4.steps) = Root(p)
  <2> HIDE DEF c4, p
  <2>1. c4.pos = 1
    <3>1. c4.pos \in 1 .. 1
      BY <1>8, <1>9 DEF Reached
    <3> QED BY SMTT(60), <3>1
  <2> QED BY <1>8, <1>9, <2>1 DEF Reached
<1> QED BY <1>10 DEF leaf, c0, Steps

\* The proof kept is that of entry q in the log of n entries.
ProofIs(n, q) ==
  /\ proof.sequence = q /\ proof.leaf_hash = hash_leaf(Entry(q, log[q + 1]))
  /\ proof.steps = Steps(Prefix(log, n), q) /\ proof.size = n

\* The roots are those of the log's prefixes, and the proof kept is that of some entry in
\* one of them.
LogInv ==
  /\ log \in Seq(Artifacts) /\ Len(log) <= 16
  /\ IsSequence(roots) /\ Len(roots) = Len(log) + 1
  /\ \A n \in 0 .. Len(log) : roots[n + 1] = Root(Prefix(log, n))
  /\ proof = NoProof \/ \E n \in 1 .. Len(log) : \E q \in 0 .. n - 1 : ProofIs(n, q)

LEMMA PrefixFull ==
  ASSUME NEW S, NEW l \in Seq(S)
  PROVE  Prefix(l, Len(l)) = l
<1>1. Len(l) \in Nat /\ Len(l) \in 0 .. Len(l)
  BY SMTT(60)
<1>2. /\ Prefix(l, Len(l)) \in Seq(S) /\ Len(Prefix(l, Len(l))) = Len(l)
      /\ \A i \in 1 .. Len(l) : Prefix(l, Len(l))[i] = l[i]
  BY <1>1, PrefixIs
<1> QED BY <1>2, SameSequence

LEMMA PrefixKept ==
  ASSUME NEW S, NEW l \in Seq(S), NEW e \in S, NEW n \in 0 .. Len(l)
  PROVE  Prefix(Append(l, e), n) = Prefix(l, n)
<1>1. /\ Append(l, e) \in Seq(S) /\ Len(Append(l, e)) = Len(l) + 1
      /\ \A i \in 1 .. Len(l) : Append(l, e)[i] = l[i]
  BY SMTT(60), AppendIs
<1>2. n \in 0 .. Len(Append(l, e)) /\ 1 .. n \subseteq 1 .. Len(l)
  BY SMTT(60), <1>1
<1>3. /\ Prefix(l, n) \in Seq(S) /\ Len(Prefix(l, n)) = n
      /\ \A i \in 1 .. n : Prefix(l, n)[i] = l[i]
  BY PrefixIs
<1>4. /\ Prefix(Append(l, e), n) \in Seq(S) /\ Len(Prefix(Append(l, e), n)) = n
      /\ \A i \in 1 .. n : Prefix(Append(l, e), n)[i] = Append(l, e)[i]
  BY <1>1, <1>2, PrefixIs
<1> QED BY <1>1, <1>2, <1>3, <1>4, SameSequence

LEMMA LogAppends ==
  ASSUME LogInv, NEW a \in Artifacts, AppendEntry(a)
  PROVE  LogInv'
<1>0. /\ log \in Seq(Artifacts) /\ IsSequence(roots) /\ Len(roots) = Len(log) + 1 /\ Len(log) \in Nat
      /\ log' = Append(log, a) /\ roots' = Append(roots, Root(log')) /\ proof' = proof
      /\ Len(log) < MaxSize
  <2>1. log \in Seq(Artifacts) /\ IsSequence(roots) /\ Len(roots) = Len(log) + 1
    BY DEF LogInv
  <2>2. Len(log) \in Nat
    BY SMTT(60), <2>1
  <2>3. /\ log' = Append(log, a) /\ roots' = Append(roots, Root(log')) /\ proof' = proof
        /\ Len(log) < MaxSize
    BY DEF AppendEntry
  <2> QED BY <2>1, <2>2, <2>3
<1>1. /\ log' \in Seq(Artifacts) /\ Len(log') = Len(log) + 1
      /\ \A i \in 1 .. Len(log) : log'[i] = log[i]
  BY SMTT(60), <1>0, AppendIs
<1>2. Len(log') <= 16
  BY SMTT(60), <1>0, <1>1, MerkleAssumption
<1>3. /\ IsSequence(roots') /\ Len(roots') = Len(roots) + 1 /\ roots'[Len(roots) + 1] = Root(log')
      /\ \A i \in 1 .. Len(roots) : roots'[i] = roots[i]
  <2>1. PICK S : roots \in Seq(S)
    BY <1>0 DEF IsSequence
  <2> DEFINE R == S \cup {Root(log')}
  <2>2. roots \in Seq(R) /\ Root(log') \in R
    BY SMTT(60), <2>1
  <2> HIDE DEF R
  <2> QED BY SMTT(60), <1>0, <2>2, AppendIs DEF IsSequence
<1>4. ASSUME NEW n \in 0 .. Len(log')
      PROVE  roots'[n + 1] = Root(Prefix(log', n))
  <2>1. CASE n = Len(log')
    BY <1>0, <1>1, <1>3, <2>1, PrefixFull
  <2>2. CASE n # Len(log')
    <3>1. n \in 0 .. Len(log) /\ n + 1 \in 1 .. Len(roots)
      BY SMTT(60), <1>0, <1>1, <2>2
    <3>2. Prefix(log', n) = Prefix(log, n)
      BY <1>0, <3>1, PrefixKept
    <3> QED BY <1>3, <3>1, <3>2 DEF LogInv
  <2> QED BY <2>1, <2>2
<1>5. ASSUME proof # NoProof
      PROVE  \E n \in 1 .. Len(log') : \E q \in 0 .. n - 1 : ProofIs(n, q)'
  <2>1. PICK n \in 1 .. Len(log) : \E q \in 0 .. n - 1 : ProofIs(n, q)
    BY <1>5 DEF LogInv
  <2>2. PICK q \in 0 .. n - 1 : ProofIs(n, q)
    BY <2>1
  <2>3. n \in 1 .. Len(log') /\ n \in 0 .. Len(log) /\ q + 1 \in 1 .. Len(log)
    BY SMTT(60), <1>0, <1>1
  <2>4. Prefix(log', n) = Prefix(log, n) /\ log'[q + 1] = log[q + 1]
    BY <1>0, <1>1, <2>3, PrefixKept
  <2>5. ProofIs(n, q)'
    BY <1>0, <2>2, <2>4 DEF ProofIs
  <2> QED BY <2>3, <2>5
<1>6. Len(roots') = Len(log') + 1
  BY <1>0, <1>1, <1>3
<1> QED BY <1>0, <1>1, <1>2, <1>3, <1>4, <1>5, <1>6 DEF LogInv

LEMMA LogProves ==
  ASSUME LogInv, NEW q \in 0 .. MaxSize, Prove(q)
  PROVE  LogInv'
<1>1. log' = log /\ roots' = roots
  BY DEF Prove
<1>2. CASE proof' = proof
  BY <1>1, <1>2 DEF LogInv, ProofIs
<1>3. CASE q < Len(log) /\ proof' = ProofOf(q)
  <2>0. Len(log) \in Nat /\ log \in Seq(Artifacts)
    BY SequenceIs DEF LogInv
  <2>1. Len(log) \in 1 .. Len(log) /\ q \in 0 .. Len(log) - 1
    BY SMTT(60), <1>3, <2>0, MerkleAssumption
  <2>2. /\ proof'.sequence = q /\ proof'.leaf_hash = hash_leaf(Entry(q, log[q + 1]))
        /\ proof'.steps = Steps(log, q) /\ proof'.size = Len(log)
    BY <1>3 DEF ProofOf
  <2>3. Prefix(log, Len(log)) = log
    BY <2>0, PrefixFull
  <2>4. ProofIs(Len(log), q)'
    BY <1>1, <2>2, <2>3 DEF ProofIs
  <2> QED BY <1>1, <2>1, <2>4 DEF LogInv
<1> QED BY <1>2, <1>3 DEF Prove

LEMMA LogInvariant == LogSpec => []LogInv
<1>1. LogInit => LogInv
  <2> SUFFICES ASSUME LogInit PROVE LogInv
    OBVIOUS
  <2>1. log = <<>> /\ roots = <<EmptyRoot>> /\ proof = NoProof
    BY DEF LogInit
  <2>2. log \in Seq(Artifacts) /\ Len(log) = 0 /\ Len(log) <= 16
    BY SMTT(60), <2>1
  <2>3. roots \in Seq({EmptyRoot}) /\ Len(roots) = 1 /\ roots[1] = EmptyRoot /\ 1 = Len(log) + 1
    BY SMTT(60), <2>1, <2>2
  <2>4. \A n \in 0 .. Len(log) : n = Len(log) /\ n + 1 = 1
    BY SMTT(60), <2>2
  <2>5. Root(Prefix(log, Len(log))) = EmptyRoot
    BY <2>1, <2>2, PrefixFull DEF Root
  <2> QED BY <2>1, <2>2, <2>3, <2>4, <2>5 DEF LogInv, IsSequence
<1>2. LogInv /\ [LogNext]_logVars => LogInv'
  <2> SUFFICES ASSUME LogInv, [LogNext]_logVars PROVE LogInv'
    OBVIOUS
  <2>1. CASE log' = log /\ roots' = roots /\ proof' = proof
    BY <2>1 DEF LogInv, ProofIs
  <2>2. CASE UNCHANGED logVars \/ WrongLength
    BY <2>1, <2>2 DEF logVars, WrongLength
  <2> QED BY <2>2, LogAppends, LogProves DEF LogNext
<1> QED BY <1>1, <1>2, PTL DEF LogSpec

\* Whose root it is tells how many entries the log had.
LEMMA RootsTell ==
  ASSUME LogInv, NEW m \in 0 .. Len(log), NEW n \in 0 .. Len(log)
  PROVE  roots[m + 1] = roots[n + 1] <=> m = n
<1>1. roots[m + 1] = Root(Prefix(log, m)) /\ roots[n + 1] = Root(Prefix(log, n))
  BY DEF LogInv
<1>2. m < n \/ n < m \/ m = n
  BY SMTT(60)
<1>3. log \in Seq(Artifacts) /\ Len(log) <= 16
  BY DEF LogInv
<1> QED BY <1>1, <1>2, <1>3, RootsDiffer

\* A kept inclusion proof is accepted for the root and the entry it was taken for and no
\* other (InclusionProof#verify and #verify_with_leaf), however the log has grown since.
THEOREM ProofsPinEntries == LogSpec => []ProofPinsItsEntry
<1>1. LogInv => ProofPinsItsEntry
  <2> SUFFICES ASSUME LogInv, HasProof PROVE ProofPinsItsEntry
    BY DEF ProofPinsItsEntry
  <2>1. PICK n \in 1 .. Len(log) : \E q \in 0 .. n - 1 : ProofIs(n, q)
    BY DEF LogInv, HasProof
  <2>2. PICK q \in 0 .. n - 1 : ProofIs(n, q)
    BY <2>1
  <2>3. log \in Seq(Artifacts) /\ Len(log) <= 16 /\ n \in 0 .. Len(log)
    BY SMTT(60) DEF LogInv
  <2>4. Replay(proof.leaf_hash, proof.steps) = roots[n + 1]
    BY <2>2, <2>3, PathsLead DEF LogInv, ProofIs
  <2>5. ASSUME NEW k \in Sizes
        PROVE  verify(proof, roots[k + 1]) = (k = proof.size)
    BY <2>2, <2>3, <2>4, RootsTell DEF ProofIs, Sizes, verify, verify_with_leaf
  <2>6. ASSUME NEW i \in 0 .. Len(log) - 1
        PROVE  verify_with_leaf(proof, hash_leaf(Entry(i, log[i + 1])), roots[proof.size + 1])
                 = (i = proof.sequence)
    <3>1. CASE i = q
      BY <2>2, <2>4, <3>1 DEF ProofIs, verify_with_leaf
    <3>2. CASE i # q
      <4>1. hash_leaf(Entry(i, log[i + 1])) # proof.leaf_hash
        BY SMTT(60), <2>2, <3>2, HashesDiffer DEF ProofIs, hash_leaf, TreeLeaf
      <4>2. Replay(hash_leaf(Entry(i, log[i + 1])), proof.steps) # roots[n + 1]
        BY <2>4, <4>1, ReplayPinsLeaf
      <4> QED BY <2>2, <3>2, <4>2 DEF ProofIs, verify_with_leaf
    <3> QED BY <3>1, <3>2
  <2> QED BY <2>5, <2>6 DEF ProofPinsItsEntry
<1> QED BY <1>1, LogInvariant, PTL
==================================================================================
