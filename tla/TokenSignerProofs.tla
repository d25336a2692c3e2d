-------------------------- MODULE TokenSignerProofs --------------------------
(***************************************************************************)
(* Proofs about TokenSigner: for any keys, texts and bodies a token that   *)
(* is accepted has contents that were signed, and a signed token is        *)
(* accepted by its signer and by no other.                                 *)
(***************************************************************************)
EXTENDS TokenSigner, TLAPS

\* A signature of 64 bytes on a token was made for contents that were signed.
SignatureInv ==
  /\ token.signature \in Seen \cup {NoSignature, Forged}
  /\ wire.signature \in Seen \cup {NoSignature, Forged}

\* A token nobody has touched since carries its author's signature over what
\* its encoding says now, and so do the bytes it was encoded to.
AuthorInv ==
  /\ author # Nobody =>
       token.signature = Signature(author, MarshalForSigning(token))
  /\ sender # Nobody =>
       wire.signature = Signature(sender, MarshalForSigning(wire))

\* The last verification spoke of the token as it still is.
VerdictInv ==
  /\ verdict.ok => verdict.by \in Keys
  /\ verdict # NoVerdict =>
       (verdict.ok <=>
          token.signature = Signature(verdict.by, MarshalForSigning(token)))

IInv == TokenTypeOK /\ SignatureInv /\ AuthorInv /\ VerdictInv

-----------------------------------------------------------------------------

\* Encoding gives a text that encodes to itself.
LEMMA EncodedTwice ==
  ASSUME NEW t \in Texts
  PROVE  /\ Encoded(t) \in Texts \ BadTexts
         /\ Encoded(Encoded(t)) = Encoded(t)
BY TextsAssumption DEF Encoded

\* What is signed is the content of the token, and an encoding away from it.
LEMMA MessageIsContent ==
  ASSUME NEW t \in Tokens
  PROVE  /\ MarshalForSigning(t) = Content(t)
         /\ Content(t) \in Contents
         /\ Marshal(t) \in Tokens /\ Marshal(t).id \notin BadTexts
         /\ Marshal(t).signature = t.signature
         /\ MarshalForSigning(Marshal(t)) = MarshalForSigning(t)
<1>1. t.id \in Texts /\ t.kind \in Kinds /\ t.body \in Bodies
      /\ t.signature \in Signatures
  BY DEF Tokens
<1>2. Encoded(t.id) \in Texts \ BadTexts /\ Encoded(Encoded(t.id)) = Encoded(t.id)
  BY <1>1, EncodedTwice
<1> QED BY <1>1, <1>2 DEF MarshalForSigning, Content, Marshal, Contents, Tokens

\* The content of what was signed is its own encoding.
LEMMA ContentIsMessage ==
  ASSUME NEW c \in Contents
  PROVE  MarshalForSigning(c) = c
BY DEF MarshalForSigning, Contents, Encoded

\* Decoding keeps the signature, and as the same kind it changes nothing.
LEMMA DecodeKeeps ==
  ASSUME NEW w \in Tokens, NEW kind \in Kinds
  PROVE  /\ Unmarshal(kind, w) \in Tokens
         /\ Unmarshal(kind, w).signature = w.signature
         /\ w.kind = kind => Unmarshal(kind, w) = w
BY BodiesAssumption DEF Unmarshal, Tokens

\* A signature tells its key and its message, and is neither empty nor forged.
LEMMA SignaturesDiffer ==
  ASSUME NEW k, NEW m, NEW j, NEW n
  PROVE  /\ Signature(k, m) = Signature(j, n) <=> k = j /\ m = n
         /\ Signature(k, m).length = 64
         /\ NoSignature.length = 0
         /\ k # Nothing => Signature(k, m) # Forged
         /\ Signature(k, m) # NoSignature
BY DEF Signature, NoSignature, Forged

\* Each of them is a signature.
LEMMA SignatureTypes ==
  /\ NoSignature \in Signatures /\ Forged \in Signatures
  /\ \A k \in Keys, m \in Contents : Signature(k, m) \in Signatures
BY DEF Signatures, Signature

-----------------------------------------------------------------------------

\* Nothing is signed yet.
LEMMA InitIInv == TokenInit => IInv
<1> SUFFICES ASSUME TokenInit PROVE IInv
  OBVIOUS
<1>1. token \in Tokens /\ token.signature = NoSignature
  BY SignatureTypes DEF TokenInit, Tokens
<1>2. wire \in Tokens /\ wire.id \notin BadTexts /\ wire.signature = NoSignature
  BY <1>1, MessageIsContent DEF TokenInit
<1> QED
  BY <1>1, <1>2, NothingAssumption
  DEF TokenInit, IInv, TokenTypeOK, SignatureInv, AuthorInv, VerdictInv, Nobody, NoVerdict

\* Seen holds signatures only of contents, and only grows.
LEMMA SeenTypes ==
  ASSUME TokenTypeOK
  PROVE  Seen \subseteq Signatures
BY SignatureTypes, ContentIsMessage DEF TokenTypeOK, Seen

\* Every call and every edit preserves the invariant.
LEMMA StepIInv == IInv /\ [TokenNext]_tokenVars => IInv'
<1> SUFFICES ASSUME IInv, [TokenNext]_tokenVars PROVE IInv'
  OBVIOUS
<1> USE DEF IInv
<1>1. ASSUME NEW k \in Keys, Sign(k) PROVE IInv'
  <2> DEFINE cleared == [token EXCEPT !.signature = NoSignature]
             m == MarshalForSigning(cleared)
             signed == [cleared EXCEPT !.signature = Signature(k, m)]
  <2>1. /\ token' = signed /\ wire' = Marshal(signed)
        /\ issued' = issued \cup {[key |-> k, content |-> Content(token)]}
        /\ author' = k /\ sender' = k /\ verdict' = NoVerdict
    BY <1>1 DEF Sign
  <2>2. token \in Tokens
    BY DEF TokenTypeOK
  <2>3. m = Content(token) /\ m \in Contents
    BY <2>2, MessageIsContent DEF MarshalForSigning, Content, Tokens
  <2>4. signed \in Tokens /\ signed.signature = Signature(k, m)
    BY <2>2, <2>3, SignatureTypes DEF Tokens
  <2>5. MarshalForSigning(signed) = m
    BY <2>2 DEF MarshalForSigning, Tokens
  <2>6. /\ wire' \in Tokens /\ wire'.id \notin BadTexts
        /\ wire'.signature = Signature(k, m) /\ MarshalForSigning(wire') = m
    BY <2>1, <2>4, <2>5, MessageIsContent
  <2>7. Signature(k, m) \in Seen'
    <3>1. [key |-> k, content |-> m] \in issued'
      BY <2>1, <2>3
    <3> QED BY <3>1, <2>3, ContentIsMessage DEF Seen
  <2>8. TokenTypeOK'
    BY <2>1, <2>3, <2>4, <2>6 DEF TokenTypeOK, NoVerdict, Nobody
  <2>9. SignatureInv' /\ AuthorInv' /\ VerdictInv'
    BY <2>1, <2>4, <2>5, <2>6, <2>7
    DEF SignatureInv, AuthorInv, VerdictInv, NoVerdict
  <2> QED BY <2>8, <2>9
<1>2. ASSUME NEW k \in Keys, Verify(k) PROVE IInv'
  <2> DEFINE cleared == [token EXCEPT !.signature = NoSignature]
             m == MarshalForSigning(cleared)
  <2>1. token \in Tokens
    BY DEF TokenTypeOK
  <2>2. token' = token /\ UNCHANGED <<wire, issued, author, sender>>
    BY <1>2, <2>1 DEF Verify, Tokens
  <2>3. m = MarshalForSigning(token)
    BY <2>1 DEF MarshalForSigning, Tokens
  <2>4. verdict' = [by |-> k, ok |-> token.signature = Signature(k, m)]
    BY <1>2 DEF Verify, Valid
  <2>5. VerdictInv'
    BY <2>2, <2>3, <2>4 DEF VerdictInv
  <2>6. verdict' \in [by : Keys \cup {Nobody}, ok : BOOLEAN]
    BY <2>4
  <2> QED BY <2>2, <2>5, <2>6 DEF TokenTypeOK, SignatureInv, AuthorInv, Seen
<1>3. ASSUME NEW k \in Keys, VerifyLength(k) PROVE IInv'
  <2>1. /\ verdict' = [by |-> k, ok |-> FALSE]
        /\ UNCHANGED <<token, wire, issued, author, sender>>
        /\ token.signature # Signature(k, MarshalForSigning(token))
    BY <1>3, SignaturesDiffer DEF VerifyLength
  <2> QED BY <2>1 DEF TokenTypeOK, SignatureInv, AuthorInv, VerdictInv, Seen
<1>4. ASSUME NEW kind \in Kinds, Decode(kind) PROVE IInv'
  <2>1. wire \in Tokens
    BY DEF TokenTypeOK
  <2>2. /\ token' \in Tokens /\ token'.signature = wire.signature
        /\ wire.kind = kind => token' = wire
        /\ author' = (IF wire.kind = kind THEN sender ELSE Nobody)
        /\ verdict' = NoVerdict /\ UNCHANGED <<wire, issued, sender>>
    BY <1>4, <2>1, DecodeKeeps DEF Decode
  <2> QED
    BY <2>2 DEF TokenTypeOK, SignatureInv, AuthorInv, VerdictInv, NoVerdict, Seen
<1>5. CASE Edit
  <2>1. token \in Tokens /\ Seen \subseteq Signatures
    BY SeenTypes DEF TokenTypeOK
  <2>2. /\ author' = Nobody /\ verdict' = NoVerdict
        /\ UNCHANGED <<wire, issued, sender>>
    BY <1>5 DEF Edit
  <2>3. token' \in Tokens /\ token'.signature \in Seen \cup {NoSignature, Forged}
    <3>1. CASE \E id \in Texts : token' = [token EXCEPT !.id = id]
      BY <3>1, <2>1 DEF Tokens, SignatureInv
    <3>2. CASE \E b \in Bodies : token' = [token EXCEPT !.body = b]
      BY <3>2, <2>1 DEF Tokens, SignatureInv
    <3>3. CASE \E s \in Seen \cup {NoSignature, Forged} :
                 token' = [token EXCEPT !.signature = s]
      BY <3>3, <2>1, SignatureTypes DEF Tokens
    <3> QED BY <1>5, <3>1, <3>2, <3>3 DEF Edit
  <2> QED
    BY <2>2, <2>3
    DEF TokenTypeOK, SignatureInv, AuthorInv, VerdictInv, NoVerdict, Seen
<1>6. CASE Encode
  <2>1. token \in Tokens
    BY DEF TokenTypeOK
  <2>2. /\ wire' = Marshal(token) /\ sender' = author /\ verdict' = NoVerdict
        /\ UNCHANGED <<token, issued, author>>
    BY <1>6 DEF Encode
  <2>3. /\ wire' \in Tokens /\ wire'.id \notin BadTexts
        /\ wire'.signature = token.signature
        /\ MarshalForSigning(wire') = MarshalForSigning(token)
    BY <2>1, <2>2, MessageIsContent
  <2> QED
    BY <2>2, <2>3
    DEF TokenTypeOK, SignatureInv, AuthorInv, VerdictInv, NoVerdict, Seen
<1>7. CASE UNCHANGED tokenVars
  BY <1>7
  DEF tokenVars, TokenTypeOK, SignatureInv, AuthorInv, VerdictInv, Seen
<1> QED BY <1>1, <1>2, <1>3, <1>4, <1>5, <1>6, <1>7 DEF TokenNext

\* The inductive invariant holds in every state.
THEOREM TokenInvariance == TokenSpec => []IInv
<1>1. TokenInit => IInv
  BY InitIInv
<1>2. IInv /\ [TokenNext]_tokenVars => IInv'
  BY StepIInv
<1> QED BY <1>1, <1>2, PTL DEF TokenSpec

\* Every variable keeps its type, and no text that is not UTF-8 is ever signed
\* or sent.
THEOREM TokensTypeCorrect == TokenSpec => []TokenTypeOK
BY TokenInvariance, PTL DEF IInv

\* A token that a signer accepts has the kind and contents of one it signed
\* (VerifyHTT and VerifyBTT of signer.go).
THEOREM AcceptedTokensWereSigned == TokenSpec => []AcceptedWasSigned
<1>1. IInv => AcceptedWasSigned
  <2> SUFFICES ASSUME IInv, verdict.ok
               PROVE  [key |-> verdict.by, content |-> Content(token)] \in issued
    BY DEF AcceptedWasSigned
  <2>1. /\ verdict.by \in Keys /\ verdict # NoVerdict /\ token \in Tokens
        /\ token.signature = Signature(verdict.by, MarshalForSigning(token))
    BY DEF IInv, VerdictInv, TokenTypeOK, NoVerdict
  <2>2. token.signature \in Seen
    BY <2>1, SignaturesDiffer, NothingAssumption DEF IInv, SignatureInv
  <2>3. PICK i \in issued :
          token.signature = Signature(i.key, MarshalForSigning(i.content))
    BY <2>2 DEF Seen
  <2>4. i \in [key : Keys, content : Contents]
    BY <2>3 DEF IInv, TokenTypeOK
  <2>5. MarshalForSigning(i.content) = i.content
    BY <2>4, ContentIsMessage
  <2>6. MarshalForSigning(token) = Content(token)
    BY <2>1, MessageIsContent
  <2>7. Signature(verdict.by, MarshalForSigning(token))
          = Signature(i.key, MarshalForSigning(i.content))
    BY <2>1, <2>3
  <2>8. i.key = verdict.by /\ i.content = Content(token)
    BY <2>5, <2>6, <2>7, SignaturesDiffer
  <2> QED BY <2>3, <2>4, <2>8
<1> QED BY <1>1, TokenInvariance, PTL

\* A signed token that nobody has changed is accepted by its signer and by no
\* other, before and after its bytes have been through the log.
THEOREM GenuineTokensAreAccepted == TokenSpec => []GenuineIsAccepted
<1>1. IInv => GenuineIsAccepted
  BY SignaturesDiffer DEF IInv, AuthorInv, VerdictInv, GenuineIsAccepted
<1> QED BY <1>1, TokenInvariance, PTL
=============================================================================
