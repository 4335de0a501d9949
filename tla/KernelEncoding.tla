--------------------------- MODULE KernelEncoding ---------------------------
(***************************************************************************)
(* The encodings of src/src/aa: nonces (kernel.ts), packed user operations *)
(* (userop.ts), signatures of passkeys (webauthn.ts).  A word is a number, *)
(* a byte string a sequence of digits.  The widths are constants, so that  *)
(* the layouts can be checked on small words and proved for all of them.   *)
(* What the code throws is Error.                                          *)
(***************************************************************************)
EXTENDS Integers, Sequences

CONSTANTS
    Radix,          \* 256, the digits of byte strings
    AddressBytes,   \* 20
    HalfBytes,      \* 16: half a word
    AddressSpace,   \* 2^160
    Half,           \* 2^128
    ByteSpace,      \* 2^8: a validation mode or type
    NonceKeySpace,  \* 2^16
    SequenceSpace,  \* 2^64
    Order,          \* P256_N
    Error, None

\* Radix^k.
Power[k \in Nat] == IF k = 0 THEN 1 ELSE Radix * Power[k - 1]

ASSUME WidthAssumption ==
    /\ {Radix, AddressSpace, Half, ByteSpace, NonceKeySpace, SequenceSpace} \subseteq Nat \ {0, 1}
    /\ AddressBytes \in Nat \ {0} /\ HalfBytes \in Nat \ {0}
    /\ AddressSpace = Power[AddressBytes] /\ Half = Power[HalfBytes]
    /\ Order \in Nat /\ Order > 2 /\ Order % 2 = 1

\* zeroPadValue(toBeHex(n), bytes), for an n that fits.
ToBytes(n, bytes) == [i \in 1 .. bytes |-> (n \div Power[bytes - i]) % Radix]

\* The number a byte string writes, digit by digit.
ToNumber(bytes) ==
    LET value[i \in 0 .. Len(bytes)] == IF i = 0 THEN 0 ELSE value[i - 1] * Radix + bytes[i]
    IN  value[Len(bytes)]
-----------------------------------------------------------------------------
\* Nonces: mode | type | validator | nonce key, and the sequence below them.

DefaultMode == 0
RootType == 0
ValidatorType == 1

ValidatorNonceKey(validator, nonceKey) ==
    IF validator \in 0 .. AddressSpace - 1 /\ nonceKey \in 0 .. NonceKeySpace - 1
    THEN ((DefaultMode * ByteSpace + ValidatorType) * AddressSpace + validator) * NonceKeySpace + nonceKey
    ELSE Error

KeySpace == ByteSpace * ByteSpace * AddressSpace * NonceKeySpace

\* Mutated form: the sequence is not checked and runs over into the key.
ComposeNonceUnchecked(key, seq) ==
    IF key \in 0 .. KeySpace - 1 THEN key * SequenceSpace + seq ELSE Error

ComposeNonce(key, seq) ==
    IF key \in 0 .. KeySpace - 1 /\ seq \in 0 .. SequenceSpace - 1
    THEN key * SequenceSpace + seq
    ELSE Error

RootValidatorNonce(seq) == IF seq \in 0 .. SequenceSpace - 1 THEN seq ELSE Error

\* What Kernel's decodeNonce and the EntryPoint read out of a nonce.
DecodeNonce(nonce) ==
    LET key == nonce \div SequenceSpace
    IN  [mode      |-> key \div (ByteSpace * AddressSpace * NonceKeySpace),
         type      |-> (key \div (AddressSpace * NonceKeySpace)) % ByteSpace,
         validator |-> (key \div NonceKeySpace) % AddressSpace,
         nonceKey  |-> key % NonceKeySpace,
         sequence  |-> nonce % SequenceSpace]
-----------------------------------------------------------------------------
\* Packed user operations and the form the bundler takes.

PackUint128Pair(hi, lo) ==
    IF hi \in 0 .. Half - 1 /\ lo \in 0 .. Half - 1 THEN hi * Half + lo ELSE Error

SplitUint128Pair(word) == [hi |-> word \div Half, lo |-> word % Half]

PackInitCode(factory, factoryData) == ToBytes(factory, AddressBytes) \o factoryData

PackPaymasterAndData(paymaster, verificationGas, postOpGas, category) ==
    IF verificationGas \in 0 .. Half - 1 /\ postOpGas \in 0 .. Half - 1
    THEN ToBytes(paymaster, AddressBytes) \o ToBytes(verificationGas, HalfBytes)
            \o ToBytes(postOpGas, HalfBytes) \o <<category>>
    ELSE Error

\* Mutated form: the halves of accountGasLimits change places.
BuildPackedUserOpSwapped(args) ==
    [nonce |-> args.nonce, initCode |-> args.initCode, callData |-> args.callData,
     accountGasLimits   |-> PackUint128Pair(args.callGasLimit, args.verificationGasLimit),
     preVerificationGas |-> args.preVerificationGas,
     gasFees            |-> PackUint128Pair(args.maxPriorityFeePerGas, args.maxFeePerGas),
     paymasterAndData   |-> args.paymasterAndData]

\* The sender is one account throughout and left out; the signature comes later.
BuildPackedUserOp(args) ==
    [nonce |-> args.nonce, initCode |-> args.initCode, callData |-> args.callData,
     accountGasLimits   |-> PackUint128Pair(args.verificationGasLimit, args.callGasLimit),
     preVerificationGas |-> args.preVerificationGas,
     gasFees            |-> PackUint128Pair(args.maxPriorityFeePerGas, args.maxFeePerGas),
     paymasterAndData   |-> args.paymasterAndData]

\* Optional fields of the wire form are None when the code leaves them out.
Factory(initCode) ==
    IF Len(initCode) < AddressBytes THEN [factory |-> None, factoryData |-> None]
    ELSE [factory |-> ToNumber(SubSeq(initCode, 1, AddressBytes)),
          factoryData |-> SubSeq(initCode, AddressBytes + 1, Len(initCode))]

Paymaster(pmd) ==
    LET limits == AddressBytes + 2 * HalfBytes
    IN  IF pmd = <<>>
        THEN [paymaster |-> None, verificationGas |-> None, postOpGas |-> None, paymasterData |-> None]
        ELSE IF Len(pmd) < limits THEN Error
        ELSE [paymaster       |-> ToNumber(SubSeq(pmd, 1, AddressBytes)),
              verificationGas |-> ToNumber(SubSeq(pmd, AddressBytes + 1, AddressBytes + HalfBytes)),
              postOpGas       |-> ToNumber(SubSeq(pmd, AddressBytes + HalfBytes + 1, limits)),
              paymasterData   |-> SubSeq(pmd, limits + 1, Len(pmd))]

ToRpcUserOperation(op) ==
    IF Paymaster(op.paymasterAndData) = Error THEN Error
    ELSE [nonce |-> op.nonce, callData |-> op.callData,
          gas  |-> SplitUint128Pair(op.accountGasLimits),  \* verificationGasLimit, callGasLimit
          fees |-> SplitUint128Pair(op.gasFees),           \* maxPriorityFeePerGas, maxFeePerGas
          preVerificationGas |-> op.preVerificationGas,
          factory |-> Factory(op.initCode), paymaster |-> Paymaster(op.paymasterAndData)]
-----------------------------------------------------------------------------
\* Signatures of passkeys.

\* Mutated form: rounds the half order up, off by one.
NormalizeP256SRoundedUp(s) ==
    IF s \notin 1 .. Order - 1 THEN Error ELSE IF s > (Order \div 2) + 1 THEN Order - s ELSE s

NormalizeP256S(s) ==
    IF s \notin 1 .. Order - 1 THEN Error ELSE IF s > Order \div 2 THEN Order - s ELSE s

\* One INTEGER of a DER signature at an offset, and the offset behind it.
ReadInt(der, offset) ==
    IF offset + 1 > Len(der) THEN Error
    ELSE LET after == offset + 2 + der[offset + 1]
         IN  IF der[offset] # 2 \/ der[offset + 1] = 0 \/ after > Len(der) + 1 THEN Error
             ELSE [value |-> ToNumber(SubSeq(der, offset + 2, after - 1)), next |-> after]

ParseDerEcdsaSignature(der) ==
    IF Len(der) < 8 \/ der[1] # 48 THEN Error
    ELSE LET start == IF der[2] >= 128 THEN 3 + (der[2] % 128) ELSE 3
             r     == ReadInt(der, start)
             s     == IF r = Error THEN Error ELSE ReadInt(der, r.next)
         IN  IF r = Error \/ s = Error THEN Error ELSE [r |-> r.value, s |-> s.value]
=============================================================================
