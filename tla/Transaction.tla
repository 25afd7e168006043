---------------------------- MODULE Transaction ----------------------------
(***************************************************************************)
(* Signed transactions (zyphra/src/transaction.rs): creation, verification,  *)
(* hashing and the RLP wire format.  An RLP list is a sequence of items; an   *)
(* item that does not have the size of its field is Garbled.  Keccak-256 is   *)
(* external and symbolic: a digest is the list it was computed over.         *)
(***************************************************************************)
EXTENDS Wallet, Sequences

CONSTANTS
    Garbled,    \* an item whose bytes fit no field
    InvalidKey  \* 32 bytes that are no Ed25519 public key

\* compute_unsigned_digest
UnsignedDigest(from, to, amount, nonce, timestamp) ==
    <<from, to, amount, nonce, timestamp>>

DigestOf(tx) == UnsignedDigest(tx.from, tx.to, tx.amount, tx.nonce, tx.timestamp)

Create(wallet, to, amount, nonce, timestamp) ==
    [from |-> wallet.address, to |-> to, amount |-> amount, nonce |-> nonce,
     timestamp |-> timestamp, pubkey |-> PublicKey(wallet.signing_key),
     signature |-> Sign(wallet, UnsignedDigest(wallet.address, to, amount, nonce,
                                               timestamp))]

\* Mutant of Verify: the key is not tied to the sender's address.
VerifySignatureOnly(tx) == SignatureValid(tx.pubkey, DigestOf(tx), tx.signature)

\* The key is one, derives to the sender's address and signed every unsigned field.
Verify(tx) ==
    /\ tx.pubkey # InvalidKey
    /\ DeriveAddress(tx.pubkey) = tx.from
    /\ SignatureValid(tx.pubkey, DigestOf(tx), tx.signature)

\* to_rlp_bytes: a list of the seven fields.
ToRlp(tx) == <<tx.from, tx.to, tx.amount, tx.nonce, tx.timestamp, tx.pubkey, tx.signature>>

\* from_rlp_bytes: the first seven items, each of the size of its field.  What
\* follows them is not looked at.
FromRlp(items) ==
    IF Len(items) >= 7 /\ \A i \in 1 .. 7 : items[i] # Garbled
    THEN [from |-> items[1], to |-> items[2], amount |-> items[3], nonce |-> items[4],
          timestamp |-> items[5], pubkey |-> items[6], signature |-> items[7]]
    ELSE Error

\* The full hash, the global id of a transaction: over its own encoding,
\* signature included, not over the bytes it arrived in.
Hash(tx) == ToRlp(tx)
=============================================================================
