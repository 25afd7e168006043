------------------------------- MODULE Wallet -------------------------------
(***************************************************************************)
(* Wallets, addresses and signatures (zyphra/src/wallet.rs).  Ed25519 and    *)
(* SHA-256 are external and symbolic: a public key names the signing key it  *)
(* belongs to, an address the public key it is derived from, a signature the *)
(* key that made it and the message it was made over.  So keys do not        *)
(* collide and only the owner of a key signs with it.                       *)
(***************************************************************************)
EXTENDS Naturals

CONSTANTS
    ADDRESS_LEN,        \* bytes of an address (20 in the code)
    SECRET_KEY_LENGTH,  \* bytes of a signing key (32 in the code)
    Error               \* what a function that returns Err yields

\* A text as address_from_hex and hex::decode tell it apart: whether it starts
\* with "0x", whether the rest is an even number of hex digits, and the bytes
\* those digits stand for.
HexText(lens, values) ==
    [prefixed : BOOLEAN, hex : BOOLEAN, len : lens, value : values]

\* hex::decode: the "x" of a prefix is no hex digit.
HexDecode(text) ==
    IF text.hex /\ ~text.prefixed THEN [len |-> text.len, value |-> text.value] ELSE Error

PublicKey(signing_key) == [public |-> signing_key]

\* The last 20 bytes of SHA-256 over the public key.
DeriveAddress(pubkey) == [sha256 |-> pubkey]

\* The struct, as generate and from_secret_bytes fill it.
WalletOf(signing_key) ==
    [signing_key |-> signing_key, address |-> DeriveAddress(PublicKey(signing_key))]

FromSecretBytes(bytes) ==
    IF bytes.len = SECRET_KEY_LENGTH THEN WalletOf(bytes.value) ELSE Error

\* address_hex, which the prompt prints and users pass on.
AddressHex(wallet) ==
    [prefixed |-> TRUE, hex |-> TRUE, len |-> ADDRESS_LEN, value |-> wallet.address]

Sign(wallet, message) == [signer |-> wallet.signing_key, message |-> message]

\* Wallet::verify
SignatureValid(pubkey, message, signature) ==
    PublicKey(signature.signer) = pubkey /\ signature.message = message

\* Mutant of AddressFromHex: the length is not checked.
AddressOfAnyLength(text) ==
    LET bytes == HexDecode([text EXCEPT !.prefixed = FALSE])
    IN  IF bytes = Error THEN Error ELSE bytes.value

\* One "0x" is stripped, the rest must decode to ADDRESS_LEN bytes.
AddressFromHex(text) ==
    LET bytes == HexDecode([text EXCEPT !.prefixed = FALSE])
    IN  IF bytes = Error THEN Error
        ELSE IF bytes.len = ADDRESS_LEN THEN bytes.value ELSE Error
=============================================================================
