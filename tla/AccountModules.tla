---------------------------- MODULE AccountModules ----------------------------
(***************************************************************************)
(* What the operations of UserOperation carry in the life of an account    *)
(* (src/src/aa/kernel.ts, recovery.ts): the calldata that creates it with  *)
(* a root validator and installs guardians, and the recovery in which they *)
(* rotate its signer.  Addresses and data are byte strings; calldata is    *)
(* the record the ABI coder writes, and one byte within packed data.       *)
(* Kernel and its modules, on chain, are external: they read it again.     *)
(***************************************************************************)
EXTENDS UserOperation, FiniteSets, Functions

WordBytes == 2 * HalfBytes
ModuleTypeValidator == 1
Single == 0
Batch == 1

\* What the encoders return, and what the chain makes of it.
Calls ==
    [function : {"initialize", "changeRootValidator"}, id : Seq(Nat), data : Seq(Nat)]
        \cup [function : {"installModule"}, type : Nat, module : Seq(Nat), data : Seq(Nat)]
Executes ==
    [function : {"execute"}, mode : {Single}, calldata : Seq(Nat \cup Calls)]
        \cup [function : {"execute"}, mode : {Batch},
              calldata : Seq([to : Seq(Nat), value : Nat, data : Calls \cup {None}])]
Configs ==
    [credentialIdHash : Seq(Nat), x : Seq(Nat), y : Seq(Nat), requireUserVerification : BOOLEAN]
        \cup [owner : Seq(Nat), source : Nat]
        \cup [threshold : Nat, guardians : SUBSET Seq(Nat)]
States ==
    [root : {None} \cup [validator : Seq(Nat), config : Configs], recovery : {None} \cup Configs]

\* What is thrown is nothing that is returned; and the addresses used below are different ones.
ASSUME AccountAssumption ==
    /\ Error \notin {None} \cup Seq(Nat) \cup Calls \cup Executes \cup Configs \cup States
    /\ AddressSpace > 30

EncodeExecuteSingle(call) ==
    IF call.data = Error \/ call.value \notin 0 .. Half * Half - 1 THEN Error
    ELSE [function |-> "execute", mode |-> Single,
          calldata |-> call.to \o ToBytes(call.value, WordBytes) \o <<call.data>>]

EncodeExecuteBatch(calls) ==
    IF calls = <<>> \/ \E i \in DOMAIN calls : calls[i].data = Error \/ calls[i].value \notin 0 .. Half * Half - 1
    THEN Error
    ELSE [function |-> "execute", mode |-> Batch, calldata |-> calls]

EncodeInstallModule(type, module, initData) ==
    IF initData = Error THEN Error
    ELSE [function |-> "installModule", type |-> type, module |-> module, data |-> initData]

PackValidationId(type, validator) ==
    IF type \notin 0 .. ByteSpace - 1 \/ Len(validator) # AddressBytes THEN Error ELSE <<type>> \o validator

\* encodeChangeRootValidator and kernelInitializeCalldata; neither is given a hook or an initConfig.
WithRoot(function, type, validator, validatorData) ==
    IF Error \in {PackValidationId(type, validator), validatorData} THEN Error
    ELSE [function |-> function, id |-> PackValidationId(type, validator), data |-> validatorData]

EncodeChangeRootValidator(validator, validatorData) ==
    WithRoot("changeRootValidator", ValidatorType, validator, validatorData)

KernelInitializeCalldata(rootValidator, validatorData) ==
    WithRoot("initialize", ValidatorType, rootValidator, validatorData)

WebauthnInstallData(key) ==
    IF {Len(key.credentialIdHash), Len(key.x), Len(key.y)} # {WordBytes} THEN Error
    ELSE key.credentialIdHash \o key.x \o key.y \o <<IF key.requireUserVerification THEN 1 ELSE 0>>

EcdsaInstallData(owner, source) == IF Len(owner) # AddressBytes THEN Error ELSE owner \o <<source>>

MayInstallGuardians(threshold, count) == count \in 2 .. 7 /\ threshold \in 1 .. count

Concat(addresses) ==
    [k \in 1 .. Len(addresses) * AddressBytes |->
        addresses[((k - 1) \div AddressBytes) + 1][((k - 1) % AddressBytes) + 1]]

\* Mutated form: an address in capitals and the same in small letters are two guardians.
GuardianInstallDataAsWritten(threshold, guardians) ==
    IF ~MayInstallGuardians(threshold, Len(guardians)) \/ ~IsInjective(guardians) THEN Error
    ELSE <<threshold, Len(guardians)>> \o Concat([i \in DOMAIN guardians |-> guardians[i].address])

\* A guardian is an address, and whether it is written in capitals.
GuardianInstallData(threshold, guardians) ==
    LET addresses == [i \in DOMAIN guardians |-> guardians[i].address]
    IN  IF ~MayInstallGuardians(threshold, Len(guardians)) \/ ~IsInjective(addresses) THEN Error
        ELSE <<threshold, Len(guardians)>> \o Concat(addresses)

GuardianRecoveryDigest(userOpHash, account) == <<userOpHash, account>>

PackGuardianSignatures(signatures) == IF signatures = <<>> THEN Error ELSE signatures

BuildRotateSignerCall(account, webauthnValidator, newPasskey, recoveryModule) ==
    [callData |-> EncodeExecuteSingle([to |-> account, value |-> 0, data |->
                      EncodeChangeRootValidator(webauthnValidator, WebauthnInstallData(newPasskey))]),
     nonceKey |-> ValidatorNonceKey(ToNumber(recoveryModule), 0)]
-----------------------------------------------------------------------------
\* On chain.

Webauthn == ToBytes(1, AddressBytes)
Ecdsa == ToBytes(2, AddressBytes)
Recovery == ToBytes(3, AddressBytes)

Part(data, from, length) == SubSeq(data, from, from + length - 1)

PasskeyIn(data) ==
    [credentialIdHash |-> Part(data, 1, WordBytes), x |-> Part(data, 1 + WordBytes, WordBytes),
     y |-> Part(data, 1 + 2 * WordBytes, WordBytes), requireUserVerification |-> data[Len(data)] = 1]

OwnerIn(data) == [owner |-> Part(data, 1, AddressBytes), source |-> data[Len(data)]]

GuardiansIn(data) == {Part(data, 3 + (i - 1) * AddressBytes, AddressBytes) : i \in 1 .. data[2]}

\* onInstall of the three modules: what they read from their data, or Error: they revert.
OnInstall(module, data) ==
    IF module = Webauthn /\ Len(data) = 3 * WordBytes + 1 THEN PasskeyIn(data)
    ELSE IF module = Ecdsa /\ Len(data) = AddressBytes + 1 THEN OwnerIn(data)
    ELSE IF module = Recovery /\ Len(data) >= 2 /\ Len(data) = 2 + data[2] * AddressBytes
              /\ data[2] \in 2 .. 7 /\ data[1] \in 1 .. data[2] /\ Cardinality(GuardiansIn(data)) = data[2]
    THEN [threshold |-> data[1], guardians |-> GuardiansIn(data)]
    ELSE Error

\* One call of the account to itself.
Apply(account, call) ==
    IF account = Error THEN Error
    ELSE IF call.function = "installModule"
    THEN LET config == OnInstall(call.module, call.data)
         IN  IF config = Error THEN Error ELSE [account EXCEPT !.recovery = config]
    ELSE LET validator == Tail(call.id)
             config    == OnInstall(validator, call.data)
         IN  IF config = Error \/ call.id[1] # ValidatorType THEN Error
             ELSE [account EXCEPT !.root = [validator |-> validator, config |-> config]]

\* A call to another leaves the account as it is.
Called(account, self, call) == IF call.to # self THEN account ELSE Apply(account, call.data)

ApplyAll(account, self, calls) ==
    LET after[n \in 0 .. Len(calls)] == IF n = 0 THEN account ELSE Called(after[n - 1], self, calls[n])
    IN  after[Len(calls)]

Created(init) == Apply([root |-> None, recovery |-> None], init)

Execute(account, self, execute) ==
    ApplyAll(account, self,
        IF execute.mode = Batch THEN execute.calldata
        ELSE <<[to |-> SubSeq(execute.calldata, 1, AddressBytes), data |-> execute.calldata[Len(execute.calldata)]]>>)

\* The recovery module: exactly `threshold` signatures, of distinct guardians, over the digest.
Validates(account, self, userOpHash, signatures) ==
    LET signers == {signatures[i].by : i \in DOMAIN signatures}
    IN  /\ Len(signatures) = account.recovery.threshold /\ Cardinality(signers) = Len(signatures)
        /\ signers \subseteq account.recovery.guardians
        /\ \A i \in DOMAIN signatures : signatures[i].over = GuardianRecoveryDigest(userOpHash, self)
-----------------------------------------------------------------------------
\* Inputs: nine guardians, one of them perhaps twice; passkeys of a right and a wrong length.
Guardian(n, capitals) == [address |-> ToBytes(10 + n, AddressBytes), capitals |-> capitals]
GuardianLists ==
    {[i \in 1 .. count |-> Guardian(i, FALSE)] : count \in 0 .. 8}
        \cup {[i \in 1 .. count |-> Guardian(IF i = count THEN 1 ELSE i, i = count)] : count \in 2 .. 8}
Passkey(n, length) ==
    [credentialIdHash |-> ToBytes(n, WordBytes), x |-> ToBytes(n + 1, WordBytes), y |-> ToBytes(n + 2, length),
     requireUserVerification |-> n = 5]
Accounts == {ToBytes(n, AddressBytes) : n \in {20, 21}}

\* The creation of an account for its owner, with the guardians installed by a batch of its own.
Install(account, guardians, threshold) ==
    EncodeExecuteBatch(<<[to |-> ToBytes(30, AddressBytes), value |-> 1, data |-> None],
                         [to |-> account, value |-> 0, data |->
                             EncodeInstallModule(ModuleTypeValidator, Recovery, GuardianInstallData(threshold, guardians))]>>)

\* One life: creation, installation, and a rotation signed by the first guardians named and, in the
\* place of the last one needed, any of them, for this account or another, at a sequence number.
Recovers(account, guardians, threshold, length, seq) ==
    LET init      == KernelInitializeCalldata(Ecdsa, EcdsaInstallData(ToBytes(9, AddressBytes), 1))
        install   == Install(account, guardians, threshold)
        installed == Execute(Created(init), account, install)
        rotate    == BuildRotateSignerCall(account, Webauthn, Passkey(5, length), Recovery)
        nonce     == ComposeNonce(rotate.nonceKey, seq)
        named     == {guardians[i].address : i \in DOMAIN guardians}
        rotated   == [installed EXCEPT !.root = [validator |-> Webauthn, config |-> Passkey(5, length)]]
    IN  /\ Created(init).root.config.owner = ToBytes(9, AddressBytes)
        /\ rotate.callData = Error <=> length # WordBytes
        /\ nonce # Error => DecodeNonce(nonce).validator = ToNumber(Recovery) /\ DecodeNonce(nonce).sequence = seq
        /\ install # Error =>
             /\ installed # Error /\ installed.recovery = [threshold |-> threshold, guardians |-> named]
             /\ \A other \in Accounts, last \in named :
                  LET first == {guardians[i].address : i \in 1 .. threshold - 1}
                      sigs  == [i \in 1 .. threshold |->
                                  [by |-> IF i = threshold THEN last ELSE guardians[i].address,
                                   over |-> GuardianRecoveryDigest("hash", other)]]
                      goes  == Validates(installed, account, "hash", PackGuardianSignatures(sigs))
                  IN  /\ goes <=> other = account /\ last \notin first
                      /\ goes /\ rotate.callData # Error => Execute(installed, account, rotate.callData) = rotated

RecoversAt ==
    [seq \in 0 .. SequenceSpace |->
        \A account \in Accounts, guardians \in GuardianLists, threshold \in 0 .. 8, length \in {WordBytes, WordBytes + 1} :
            Recovers(account, guardians, threshold, length, seq)]

\* Guardians that can be installed restore access, and they alone, whatever sequence number the
\* EntryPoint has come to: what the encoders accept the chain accepts, the guardians and their
\* threshold are the ones the caller named, and a rotation goes through exactly when the threshold
\* of distinct guardians of this account has signed it for this account; then the root validator is
\* the new passkey, and nothing else has changed.
RecoveryRestoresAccess == \A r \in Routes : RecoversAt[sequence[r]]
=============================================================================
