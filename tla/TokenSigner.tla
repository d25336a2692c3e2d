----------------------------- MODULE TokenSigner -----------------------------
(***************************************************************************)
(* Signing and verifying host and binary transparency tokens               *)
(* (internal/signer over internal/schema).  A token is a struct in memory, *)
(* or its JSON encoding; a holder may change the struct between any two    *)
(* calls, put a signature of another token on it, and decode bytes as the  *)
(* other kind of token.  Of the texts only the one that both kinds name,   *)
(* token_id, may be other than UTF-8: those of one kind (host_id,          *)
(* issuer_id, ...) are encoded in the same way and kept in the body, whose *)
(* encoding is taken to change nothing.                                    *)
(***************************************************************************)
EXTENDS Integers, FiniteSets

CONSTANTS Keys,      \* the key pairs of the signers
          Texts,     \* what a text field may hold in memory
          BadTexts,  \* the texts that are not UTF-8
          Replaced,  \* such a text with the bad bytes replaced
          Bodies,    \* the fields of a token that are its kind's own
          ZeroBody,  \* all of these fields unset
          Nothing,   \* no key, no message
          MaxSigned  \* bound on the contents signed

ASSUME TextsAssumption == BadTexts \subseteq Texts /\ Replaced \in Texts \ BadTexts
ASSUME BodiesAssumption == ZeroBody \in Bodies
ASSUME NothingAssumption == Nothing \notin Keys
ASSUME MaxSignedAssumption == MaxSigned \in Nat

VARIABLES token,    \* the struct
          wire,     \* the bytes last encoded, decoded field by field
          issued,   \* history: the contents each signer signed
          author,   \* history: who signed the token as it is now, or nobody
          sender,   \* history: who signed the token the bytes encode, or nobody
          verdict   \* what the last call said, if it was a verification

tokenVars == <<token, wire, issued, author, sender, verdict>>

Kinds == {"HTT", "BTT"}

\* A signature of 64 bytes is that of a key over a message, or of nothing.
Signature(k, msg) == [length |-> 64, key |-> k, msg |-> msg]
NoSignature == [length |-> 0, key |-> Nothing, msg |-> Nothing]
Forged == [length |-> 64, key |-> Nothing, msg |-> Nothing]

\* Encoding a text replaces what is not UTF-8; decoding gives the result back.
Encoded(text) == IF text \in BadTexts THEN Replaced ELSE text

Content(t) == [kind |-> t.kind, id |-> Encoded(t.id), body |-> t.body]

MessageWithoutNames(t) ==  \* mutant: the values are encoded without their names
  [id |-> Encoded(t.id), body |-> t.body]

MessageRaw(t) ==  \* mutant: the text is signed as it is in memory
  [kind |-> t.kind, id |-> t.id, body |-> t.body]

\* The names of the fields tell the kinds apart; an empty signature is left out.
MarshalForSigning(t) == [kind |-> t.kind, id |-> Encoded(t.id), body |-> t.body]

Marshal(t) == [kind |-> t.kind, id |-> Encoded(t.id), body |-> t.body,
               signature |-> t.signature]

\* Of the fields of the other kind only the identifier and the signature have a
\* name that this kind knows.
Unmarshal(kind, bytes) ==
  [bytes EXCEPT !.kind = kind,
                !.body = IF bytes.kind = kind THEN @ ELSE ZeroBody]

Nobody == Nothing
NoVerdict == [by |-> Nobody, ok |-> FALSE]

TokenInit ==
  /\ token \in [kind : Kinds, id : Texts, body : Bodies, signature : {NoSignature}]
  /\ wire = Marshal(token)
  /\ issued = {}
  /\ author = Nobody /\ sender = Nobody
  /\ verdict = NoVerdict

-----------------------------------------------------------------------------

\* SignHTT and SignBTT: an old signature is dropped, and the bytes returned.
Sign(k) ==
  LET cleared == [token EXCEPT !.signature = NoSignature]
      signed == [cleared EXCEPT
                   !.signature = Signature(k, MarshalForSigning(cleared))]
  IN  /\ token' = signed
      /\ wire' = Marshal(signed)
      /\ issued' = issued \cup {[key |-> k, content |-> Content(token)]}
      /\ Cardinality(issued') <= MaxSigned
      /\ author' = k /\ sender' = k
      /\ verdict' = NoVerdict

\* ed25519.Verify.
Valid(k, msg, sig) == sig = Signature(k, msg)

\* VerifyHTT and VerifyBTT: the signature is taken off for the encoding and put
\* back, unless its length was wrong.
VerifyNoRestore(k) ==  \* mutant: the signature is not put back
  LET sig == token.signature
      cleared == [token EXCEPT !.signature = NoSignature]
  IN  /\ sig.length = 64
      /\ token' = cleared
      /\ verdict' = [by |-> k, ok |-> Valid(k, MarshalForSigning(cleared), sig)]
      /\ UNCHANGED <<wire, issued, author, sender>>

Verify(k) ==
  LET sig == token.signature
      cleared == [token EXCEPT !.signature = NoSignature]
  IN  /\ sig.length = 64
      /\ token' = [cleared EXCEPT !.signature = sig]
      /\ verdict' = [by |-> k, ok |-> Valid(k, MarshalForSigning(cleared), sig)]
      /\ UNCHANGED <<wire, issued, author, sender>>

VerifyLength(k) ==
  /\ token.signature.length # 64
  /\ verdict' = [by |-> k, ok |-> FALSE]
  /\ UNCHANGED <<token, wire, issued, author, sender>>

\* The bytes come back from the log and are decoded, as either kind.
Decode(kind) ==
  /\ token' = Unmarshal(kind, wire)
  /\ author' = IF wire.kind = kind THEN sender ELSE Nobody
  /\ verdict' = NoVerdict
  /\ UNCHANGED <<wire, issued, sender>>

\* A holder changes a field or puts a signature seen elsewhere on the token.
Seen == {Signature(i.key, MarshalForSigning(i.content)) : i \in issued}

Edit ==
  /\ \/ \E id \in Texts : token' = [token EXCEPT !.id = id]
     \/ \E b \in Bodies : token' = [token EXCEPT !.body = b]
     \/ \E s \in Seen \cup {NoSignature, Forged} :
          token' = [token EXCEPT !.signature = s]
  /\ token' # token
  /\ author' = Nobody
  /\ verdict' = NoVerdict
  /\ UNCHANGED <<wire, issued, sender>>

\* The holder encodes the struct as it is.
Encode ==
  /\ wire' = Marshal(token)
  /\ sender' = author
  /\ verdict' = NoVerdict
  /\ UNCHANGED <<token, issued, author>>

TokenNext ==
  \/ \E k \in Keys : Sign(k) \/ Verify(k) \/ VerifyLength(k)
  \/ \E kind \in Kinds : Decode(kind)
  \/ Edit
  \/ Encode

TokenSpec == TokenInit /\ [][TokenNext]_tokenVars

-----------------------------------------------------------------------------
(* Properties. *)

Contents == [kind : Kinds, id : Texts \ BadTexts, body : Bodies]

Signatures ==
  {NoSignature, Forged} \cup
    [length : {64}, key : Keys, msg : Contents]

Tokens == [kind : Kinds, id : Texts, body : Bodies, signature : Signatures]

\* Every variable stays in its set; in particular no message that was signed
\* holds a text that its decoding would change.
TokenTypeOK ==
  /\ token \in Tokens
  /\ wire \in Tokens /\ wire.id \notin BadTexts
  /\ issued \subseteq [key : Keys, content : Contents]
  /\ author \in Keys \cup {Nobody} /\ sender \in Keys \cup {Nobody}
  /\ verdict \in [by : Keys \cup {Nobody}, ok : BOOLEAN]

\* "Field 9 (Signature) covers the Ed25519 signature over the canonical
\* encoding of fields 1-8" (token.go:44-45): whatever was changed, exchanged or
\* decoded as the other kind, a token that a signer accepts has the kind and
\* the contents of one it signed.
AcceptedWasSigned ==
  verdict.ok => [key |-> verdict.by, content |-> Content(token)] \in issued

\* A token that was signed is accepted by its signer, in memory and when its
\* bytes are decoded, however often it is verified, also with texts that the
\* encoding changes.
GenuineIsAccepted ==
  author # Nobody /\ verdict # NoVerdict =>
    (verdict.ok <=> verdict.by = author)
=============================================================================
