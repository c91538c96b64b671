----------------------------- MODULE Signatures -----------------------------
(***************************************************************************)
(* The proof that one holds a key of a domain: what the publisher's        *)
(* signers make of a timestamp, and what a registry makes of the records   *)
(* that it finds in the DNS of the domain or on its web server.            *)
(***************************************************************************)
EXTENDS Naturals

CONSTANTS
    Keys,
    Algorithm,    \* ed25519 or ecdsap384, for each key
    Malformed,    \* a proof record whose key is not one
    OtherText,    \* a TXT record, or a page, that is no proof record
    MaxTexts      \* bound on the TXT records of a name

Signers == {"in-process", "google-kms", "azure-key-vault"}

ASSUME SignaturesAssumption ==
    /\ Algorithm \in [Keys -> {"ed25519", "ecdsap384"}]
    /\ {Malformed, OtherText} \cap Keys = {}
    /\ MaxTexts \in Nat \ {0}

\* A signature of the timestamp.  One that is not full is shorter than the
\* registry expects.
Signature == [key : Keys, full : BOOLEAN]

Full(k) == [key |-> k, full |-> TRUE]

\* r and s of an ECDSA signature are written without their leading zero bytes.
InProcess(k) ==
    {Full(k)} \cup IF Algorithm[k] = "ecdsap384" THEN {[key |-> k, full |-> FALSE]} ELSE {}

\* What comes from Google is filled up.
GoogleKMS(k) == {Full(k)}

\* For one curve only, and taken as it is.
AzureKeyVault(k) == IF Algorithm[k] = "ecdsap384" THEN {Full(k)} ELSE {}

\* What GetSignedTimestamp may return.
SignedTimestamps(signer, k) ==
    CASE signer = "in-process" -> InProcess(k)
      [] signer = "google-kms" -> GoogleKMS(k)
      [] signer = "azure-key-vault" -> AzureKeyVault(k)

-----------------------------------------------------------------------------
\* Texts "v=MCPv1; k=<algorithm>; p=<key>" are named for their key.
ProofRecord == Keys \cup {Malformed}

Texts == ProofRecord \cup {OtherText}

\* What a look-up can find: the same text may be there twice, in any order.
TXTRecords == UNION {[1..n -> Texts] : n \in 0..MaxTexts}

Page == [1..1 -> Texts]

Findings(method) == IF method = "dns" THEN TXTRecords ELSE Page

\* Where the proof records are among the texts.
ParseMCPKeysFromStrings(texts) == {i \in DOMAIN texts : texts[i] \in ProofRecord}

\* Where the keys of the well-formed ones are; the others are passed over.
PublicKeys(texts) == {i \in ParseMCPKeysFromStrings(texts) : texts[i] # Malformed}

\* The sizes first, then the signature itself.
VerifySignature(k, signature) == signature.full /\ signature.key = k
=============================================================================
