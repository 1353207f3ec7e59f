---------------------------- MODULE UserOpWire ----------------------------
(***************************************************************************)
(* User operations as they travel: the fields of a request, the packed     *)
(* paymasterAndData (packages/shared/src/index.ts), what the bundler makes *)
(* of a request (rpc-parsing.ts, the gas estimate of index.ts) and what it *)
(* puts on chain (entrypoint.ts).  A byte string is a sequence of bytes;   *)
(* hashes are stood for by the tuple of the fields they cover.             *)
(***************************************************************************)
EXTENDS Naturals, Sequences

CONSTANTS
  Base,                      \* the number of values of a byte
  AddressBytes, GasBytes,    \* widths: 20 and 16 in the code
  ChainId,                   \* config.chainId
  Absent,                    \* a field that is undefined or null
  Refused,                   \* the outcome of a function that throws
  GasConfig,                 \* the bundler's gas settings, a record
  HasCallGasEstimator        \* whether a callGasEstimator is configured

Bytes == 0..(Base - 1)
ByteStrings == Seq(Bytes)

OptionalBytes == ByteStrings \cup {Absent}
Optional == Nat \cup {Absent}

\* A request as it is received: bytes, quantities, and what may be left out.
UserOperations ==
  [initCode: OptionalBytes, factory: OptionalBytes, factoryData: OptionalBytes,
   callData: ByteStrings, callGasLimit: Optional, verificationGasLimit: Optional,
   preVerificationGas: Optional, paymasterVerificationGasLimit: Optional,
   paymasterPostOpGasLimit: Optional, paymasterAndData: OptionalBytes,
   l1DataGas: Optional, signature: ByteStrings, maxFeePerGas: Nat,
   maxPriorityFeePerGas: Nat, chainId: Optional]

NormalizedData ==
  [paymasterVerificationGasLimit: Nat, paymasterPostOpGasLimit: Nat,
   paymasterAndData: ByteStrings]

GasSettings ==
  [baseCallGas: Nat, perByteCallDataGas: Nat, baseVerificationGas: Nat,
   perByteVerificationGas: Nat, initCodeDeployGas: Nat, basePreVerificationGas: Nat,
   perBytePreVerificationGas: Nat, l1DataGasScalar: Nat, callGasBufferPercent: Nat,
   callGasHeuristicMultiplier: Nat, paymasterVerificationGasLimit: Nat,
   paymasterPostOpGasLimit: Nat]

ASSUME UserOpWireAssumption ==
  /\ {Base, AddressBytes, GasBytes} \subseteq Nat \ {0}
  /\ ChainId \in Nat
  /\ GasConfig \in GasSettings
  /\ HasCallGasEstimator \in BOOLEAN
  /\ Absent \notin Nat \cup ByteStrings
  /\ Refused \notin ByteStrings \cup NormalizedData \cup UserOperations \cup {Absent}

\* value ?? other
Given(value, other) == IF value = Absent THEN other ELSE value

Larger(a, b) == IF a > b THEN a ELSE b
Smaller(a, b) == IF a < b THEN a ELSE b

-----------------------------------------------------------------------------
(* Numbers of a fixed width; uint128 has GasBytes bytes. *)

\* The powers of Base.
Power[n \in Nat] == IF n = 0 THEN 1 ELSE Base * Power[n - 1]

Uint128Max == Power[GasBytes] - 1
Fits(v) == v <= Uint128Max

Word(v, width) == [i \in 1..width |-> (v \div Power[width - i]) % Base]
Uint128(v) == Word(v, GasBytes)
FromUint128(word) == CHOOSE v \in 0..Uint128Max : Uint128(v) = word

After(bytes, n) == SubSeq(bytes, n + 1, Len(bytes))

-----------------------------------------------------------------------------
(* paymasterAndData. *)

PackPaymasterAndData(paymaster, verificationGas, postOpGas, data) ==
  IF Fits(verificationGas) /\ Fits(postOpGas)
  THEN paymaster \o Uint128(verificationGas) \o Uint128(postOpGas) \o data
  ELSE Refused

EnvelopeBytes == AddressBytes + 2 * GasBytes

\* The two words that follow the address.
VerificationWord(bytes) == SubSeq(bytes, AddressBytes + 1, AddressBytes + GasBytes)
PostOpWord(bytes) == SubSeq(bytes, AddressBytes + GasBytes + 1, EnvelopeBytes)

Normalized(verificationGas, postOpGas, bytes) ==
  IF bytes = Refused THEN Refused
  ELSE [paymasterVerificationGasLimit |-> verificationGas,
        paymasterPostOpGasLimit |-> postOpGas,
        paymasterAndData |-> bytes]

\* No limits are given, or one only: both are taken from the bytes.
NormalizePacked(bytes) ==
  IF Len(bytes) < EnvelopeBytes THEN Refused
  ELSE Normalized(FromUint128(VerificationWord(bytes)), FromUint128(PostOpWord(bytes)), bytes)

\* Mutant: bytes with limits beside them are taken for the legacy layout.
IsPackedNever(bytes, verificationGas, postOpGas) == FALSE

\* isPackedInput: the bytes already hold the limits that came with them.
IsPacked(bytes, verificationGas, postOpGas) ==
  /\ Len(bytes) >= EnvelopeBytes
  /\ VerificationWord(bytes) = Uint128(verificationGas)
  /\ PostOpWord(bytes) = Uint128(postOpGas)

\* Both limits are given: the bytes are packed with them, or they are the
\* legacy layout, an address and data.
NormalizeWithLimits(bytes, verificationGas, postOpGas) ==
  LET data == After(bytes, IF IsPacked(bytes, verificationGas, postOpGas)
                           THEN EnvelopeBytes ELSE AddressBytes) IN
  Normalized(verificationGas, postOpGas,
             PackPaymasterAndData(SubSeq(bytes, 1, AddressBytes),
                                  verificationGas, postOpGas, data))

NormalizePaymasterAndData(bytes, verificationGas, postOpGas) ==
  CASE Len(bytes) < AddressBytes -> Refused
    [] Len(bytes) >= AddressBytes /\ Absent \in {verificationGas, postOpGas} ->
         NormalizePacked(bytes)
    [] OTHER -> NormalizeWithLimits(bytes, verificationGas, postOpGas)

-----------------------------------------------------------------------------
(* The bundler: eth_estimateUserOperationGas and what eth_sendUserOperation *)
(* does before it looks at the mempool.                                     *)

\* factory and factoryData, or the packed initCode, or neither.
ResolveInitCode(op) ==
  CASE op.factory = Absent -> Given(op.initCode, <<>>)
    [] op.factory # Absent /\ op.initCode # Absent -> Refused
    [] op.factory = <<>> /\ op.initCode = Absent -> <<>>
    [] op.factory \notin {Absent, <<>>} /\ op.initCode = Absent ->
         IF Len(op.factory) = AddressBytes
         THEN op.factory \o Given(op.factoryData, <<>>)
         ELSE Refused

ParseUserOperation(op) ==
  LET initCode == ResolveInitCode(op)
      sponsored == op.paymasterAndData \notin {Absent, <<>>}
      normal == NormalizePaymasterAndData(op.paymasterAndData,
                  op.paymasterVerificationGasLimit, op.paymasterPostOpGasLimit)
      parsed == [op EXCEPT !.initCode = initCode, !.factory = Absent, !.factoryData = Absent]
  IN IF \/ op.chainId \notin {Absent, ChainId}
        \/ initCode = Refused
        \/ op.signature = <<>>
        \/ sponsored /\ normal = Refused
     THEN Refused
     ELSE IF ~sponsored THEN parsed
     ELSE [parsed EXCEPT
             !.paymasterAndData = normal.paymasterAndData,
             !.paymasterVerificationGasLimit = Given(@, normal.paymasterVerificationGasLimit),
             !.paymasterPostOpGasLimit = Given(@, normal.paymasterPostOpGasLimit)]

\* What estimateCallGas makes of the node's eth_estimateGas: null for an empty
\* call, an account without code or a call that reverts, else with a buffer.
EstimateCallGas(op, gas) ==
  IF op.callData \in {<<>>, <<0>>} \/ gas = Absent
  THEN Absent
  ELSE gas + (gas * GasConfig.callGasBufferPercent) \div 100

\* `preOpGas` is what simulateValidation reports and `gas` what eth_estimateGas
\* does, Absent when there is no answer.  Where the estimator has none, the
\* heuristic is scaled; without an estimator it stands.
EstimateUserOperationGas(op, preOpGas, gas) ==
  LET callDataBytes == Len(op.callData)
      initCodeBytes == Len(op.initCode)
      callGas == GasConfig.baseCallGas + callDataBytes * GasConfig.perByteCallDataGas
      simulatedCallGas ==
        IF HasCallGasEstimator
        THEN Given(EstimateCallGas(op, gas), callGas * GasConfig.callGasHeuristicMultiplier)
        ELSE callGas
      verificationFloor ==
        GasConfig.baseVerificationGas + callDataBytes * GasConfig.perByteVerificationGas
        + initCodeBytes * 8
        + (IF initCodeBytes > 0 THEN GasConfig.initCodeDeployGas ELSE 0)
      preVerificationGas ==
        Given(op.preVerificationGas,
              GasConfig.basePreVerificationGas
              + callDataBytes * GasConfig.perBytePreVerificationGas
              + Given(op.l1DataGas, 0) * GasConfig.l1DataGasScalar)
      simulatedVerificationGas ==
        IF preOpGas # Absent /\ preOpGas > preVerificationGas
        THEN preOpGas - preVerificationGas ELSE 0
  IN [callGasLimit |-> Given(op.callGasLimit, simulatedCallGas),
      verificationGasLimit |->
        Larger(Given(op.verificationGasLimit, verificationFloor), simulatedVerificationGas),
      preVerificationGas |-> preVerificationGas,
      paymasterVerificationGasLimit |-> GasConfig.paymasterVerificationGasLimit,
      paymasterPostOpGasLimit |-> GasConfig.paymasterPostOpGasLimit]

\* prepareUserOperationForAdmission: what the caller left out is estimated.
PrepareUserOperation(op, preOpGas, gas) ==
  LET estimate == EstimateUserOperationGas(op, preOpGas, gas) IN
  [f \in DOMAIN op |->
     CASE f \in DOMAIN estimate -> Given(op[f], estimate[f])
       [] f = "paymasterAndData" -> Given(op[f], <<>>)
       [] OTHER -> op[f]]

-----------------------------------------------------------------------------
(* The operation on chain. *)

Uint128Pair(first, second) == Uint128(first) \o Uint128(second)

\* packUserOperation throws without a gas field or when one is too wide.
Packable(op) ==
  /\ Absent \notin {op.callGasLimit, op.verificationGasLimit, op.preVerificationGas}
  /\ \A v \in {op.callGasLimit, op.verificationGasLimit,
               op.maxFeePerGas, op.maxPriorityFeePerGas} : Fits(v)

PackUserOperation(op) ==
  [initCode |-> op.initCode,
   callData |-> op.callData,
   accountGasLimits |-> Uint128Pair(op.verificationGasLimit, op.callGasLimit),
   preVerificationGas |-> op.preVerificationGas,
   gasFees |-> Uint128Pair(op.maxPriorityFeePerGas, op.maxFeePerGas),
   paymasterAndData |-> Given(op.paymasterAndData, <<>>)]

\* What buildCanonicalUserOpHash hashes beside the entry point and chain.
CanonicalUserOp(op) ==
  [initCode |-> op.initCode,
   callData |-> op.callData,
   accountGasLimits |-> Uint128Pair(Given(op.verificationGasLimit, 0), Given(op.callGasLimit, 0)),
   preVerificationGas |-> Given(op.preVerificationGas, 0),
   gasFees |-> Uint128Pair(op.maxPriorityFeePerGas, op.maxFeePerGas),
   paymasterAndData |-> Given(op.paymasterAndData, <<>>)]
=============================================================================
