------------------------------- MODULE Composite -------------------------------
(***************************************************************************)
(* Composite signatures: ext/confium_native/src/composite.rs and the JSON  *)
(* transport of lib/confium/composite.rb.  One caller collects components  *)
(* in a Ruby Array, builds Signature objects from it, sends them as JSON   *)
(* and revives what was sent, while it goes on using the Array.            *)
(*                                                                         *)
(* A Ruby String is a record of its bytes and of whether its encoding is   *)
(* ASCII-8BIT.  Keys and signatures are terms: a signature names the       *)
(* algorithm, key and message it was made with.                            *)
(***************************************************************************)
EXTENDS Naturals, Sequences

CONSTANTS Keys,       \* private keys
          Payloads,   \* messages that are signed and verified
          Components, \* the component Hashes the caller collects
          MaxArray,   \* bound: components in the caller's Array
          MaxSigs     \* bound: Signature objects

(* The algorithms the library verifies itself, and one it leaves to the caller. *)
AlgorithmNames == {"Ed25519", "ECDSA-P256", "ECDSA", "Custom"}

ASSUME CompositeAssumption == \A c \in Components : c.algorithm \in AlgorithmNames

VARIABLES array,      \* the caller's Array of component Hashes
          sigs,       \* the Signature objects
          wire,       \* the JSON documents sent, with the object they came from
          verdict     \* the last verification: its arguments and its result

compositeVars == <<array, sigs, wire, verdict>>

NoJson == [components |-> <<>>, enveloped |-> FALSE]
NoVerdict == [sig |-> 0]

Binary(b) == [bytes |-> b, ascii8 |-> TRUE]
Utf8(b) == [bytes |-> b, ascii8 |-> FALSE]

\* sign_ed25519 and sign_p256 return their key and signature as binary Strings.
SignComponent(alg, k, m) ==
  [algorithm  |-> alg,
   public_key |-> Binary(<<alg, k>>),
   signature  |-> Binary(<<"signed", alg, k, m>>)]

\* A component of an algorithm the library does not know, written by the caller
\* as plain String literals.
CustomComponent ==
  [algorithm |-> "Custom", public_key |-> Utf8(<<"pk">>), signature |-> Utf8(<<"sig">>)]

\* parse_components copies the bytes of every field; encodings are not kept.
ParseComponent(c) == [algorithm |-> c.algorithm, public_key |-> c.public_key.bytes,
                      signature |-> c.signature.bytes]
ParseComponents(cs) == [i \in DOMAIN cs |-> ParseComponent(cs[i])]

\* unpack1('H*') and pack('H*').  Packing what is not hex yields other bytes.
Hex(b) == <<"hex", b>>
Unhex(t) == IF Head(t) = "hex" THEN t[2] ELSE <<"packed", t>>

\* components_to_json: only values tagged ASCII-8BIT are hex-encoded.
FieldToJson(v) == IF v.ascii8 THEN Hex(v.bytes) ELSE v.bytes
ComponentsToJson(cs) ==
  [i \in DOMAIN cs |-> [algorithm  |-> cs[i].algorithm,
                        public_key |-> FieldToJson(cs[i].public_key),
                        signature  |-> FieldToJson(cs[i].signature)]]

\* decode_binary_fields, on every component.
DecodeFields(js) ==
  [i \in DOMAIN js |-> [js[i] EXCEPT !.public_key = Unhex(@), !.signature = Unhex(@)]]

\* The two shapes from_json takes: a bare array and a "components" envelope.
Document(js, enveloped) == [components |-> js, enveloped |-> enveloped]

\* Mutant: the cached document is made of the decoded components.
CanonicalDecoded(doc, parsed) == Document(DecodeFields(doc.components), FALSE)

\* canonical_json: a String passes as it is, parsed data loses its envelope.
CanonicalJson(doc, parsed) == IF parsed THEN Document(doc.components, FALSE) ELSE doc
-------------------------------------------------------------------------------
(* Verification.                                                              *)

\* The built-in verifiers (external): the signature is of this key and message.
GoodSignature(alg, c, m) ==
  \E k \in Keys : /\ c.public_key = <<alg, k>>
                  /\ c.signature = <<"signed", alg, k, m>>

\* What a callback of the caller does: it answers true or false, or it raises.
Callbacks == {"absent", "true", "false", "raises"}
InvokeCallerVerifier(behaviour) == behaviour = "true"

\* Mutant: a verifier of the caller is consulted first.
VerifyCallerFirst(c, m, verifiers) ==
  IF verifiers[c.algorithm] # "absent" THEN InvokeCallerVerifier(verifiers[c.algorithm])
  ELSE GoodSignature(c.algorithm, c, m)

\* The closure of verify: built-in algorithms first, then the caller's Hash.
VerifyComponent(c, m, verifiers) ==
  CASE c.algorithm = "Ed25519" -> GoodSignature("Ed25519", c, m)
    [] c.algorithm \in {"ECDSA-P256", "ECDSA"} -> GoodSignature("ECDSA-P256", c, m)
    [] OTHER -> InvokeCallerVerifier(verifiers[c.algorithm])

-------------------------------------------------------------------------------
CompositeInit ==
  /\ array = <<>>
  /\ sigs = <<>>
  /\ wire = <<>>
  /\ verdict = NoVerdict

\* sign_ed25519, sign_p256, or a component of the caller's own: pushed on the Array,
\* also after Signature objects were built from it.
Push(c) ==
  /\ Len(array) < MaxArray
  /\ array' = Append(array, c)
  /\ UNCHANGED <<sigs, wire, verdict>>

\* Signature.new: the native object copies, @confium_components keeps the Array.
New ==
  /\ Len(sigs) < MaxSigs
  /\ sigs' = Append(sigs, [native |-> ParseComponents(array), json |-> NoJson])
  /\ UNCHANGED <<array, wire, verdict>>

\* to_json: the cached document, or the Array as it is now.
ToJson(s) ==
  /\ wire' = Append(wire, [of  |-> s,
                           doc |-> IF sigs[s].json # NoJson THEN sigs[s].json
                                   ELSE Document(ComponentsToJson(array), FALSE)])
  /\ Len(wire) < MaxSigs
  /\ UNCHANGED <<array, sigs, verdict>>

\* from_json, of a String or of parsed data, as sent or put in an envelope.
FromJson(d, enveloped, parsed) ==
  LET doc == IF enveloped THEN Document(d.doc.components, TRUE) ELSE d.doc
  IN /\ Len(sigs) < MaxSigs
     /\ doc.components # <<>>
     /\ sigs' = Append(sigs, [native |-> DecodeFields(doc.components),
                              json   |-> CanonicalJson(doc, parsed)])
     /\ UNCHANGED <<array, wire, verdict>>

\* verify: the crate runs the closure on every component and reports each; what it
\* says of a signature without components is its own affair, so none is asked.
Verify(s, m, verifiers) ==
  LET per == [i \in DOMAIN sigs[s].native |->
                VerifyComponent(sigs[s].native[i], m, verifiers)]
  IN /\ sigs[s].native # <<>>
     /\ verdict' = [sig |-> s, message |-> m, verifiers |-> verifiers, per |-> per,
                    all |-> \A i \in DOMAIN per : per[i]]
     /\ UNCHANGED <<array, sigs, wire>>

CompositeNext ==
  \/ \E c \in Components : Push(c)
  \/ New
  \/ \E s \in DOMAIN sigs : ToJson(s)
  \/ \E i \in DOMAIN wire, enveloped, parsed \in BOOLEAN : FromJson(wire[i], enveloped, parsed)
  \/ \E s \in DOMAIN sigs, m \in Payloads, b \in Callbacks, e \in {"absent", "true"} :
        Verify(s, m, [alg \in AlgorithmNames |-> IF alg = "Custom" THEN b ELSE e])

CompositeSpec == CompositeInit /\ [][CompositeNext]_compositeVars
-------------------------------------------------------------------------------
\* all_verified? says that every component carries a signature over this very message
\* by the key it names, or is of an algorithm the library does not know and the
\* callback the caller gave for it answered true; a callback never replaces a
\* built-in verifier and a raise never passes.
CompositeVerdictIsSound ==
  verdict # NoVerdict /\ verdict.all =>
    \A i \in DOMAIN sigs[verdict.sig].native :
      LET c == sigs[verdict.sig].native[i]
      IN \/ \E alg \in {"Ed25519", "ECDSA-P256"}, k \in Keys :
               /\ c.public_key = <<alg, k>>
               /\ c.signature = <<"signed", alg, k, verdict.message>>
         \/ c.algorithm = "Custom" /\ verdict.verifiers["Custom"] = "true"

\* A signature revived from JSON can be sent on and revived any number of times without
\* changing a byte, in an envelope or not, whatever its first owner does to the Array.
RevivedIsStable ==
  \A i \in DOMAIN wire :
    LET s == sigs[wire[i].of]
    IN s.json # NoJson => DecodeFields(wire[i].doc.components) = s.native

\* "Serialize the components this instance was built from" (Signature#to_json): a document
\* has the components of the object it was made of, one for one and of the same algorithms.
SentIsWhatWasBuilt ==
  \A i \in DOMAIN wire :
    LET sent == wire[i].doc.components
        built == sigs[wire[i].of].native
    IN [j \in DOMAIN sent |-> sent[j].algorithm] = [j \in DOMAIN built |-> built[j].algorithm]
================================================================================
