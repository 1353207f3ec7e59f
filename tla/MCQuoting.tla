----------------------------- MODULE MCQuoting -----------------------------
(* An instance of Quoting small enough for TLC: bytes of sixteen values,   *)
(* one-byte addresses and two-byte words, so that 255 is the widest limit. *)
EXTENDS Quoting, TLC

CONSTANTS q1, q2

MCGasConfig ==
  [baseCallGas |-> 5, perByteCallDataGas |-> 2, baseVerificationGas |-> 6,
   perByteVerificationGas |-> 1, initCodeDeployGas |-> 20, basePreVerificationGas |-> 4,
   perBytePreVerificationGas |-> 1, l1DataGasScalar |-> 1, callGasBufferPercent |-> 50,
   callGasHeuristicMultiplier |-> 3, paymasterVerificationGasLimit |-> 7,
   paymasterPostOpGasLimit |-> 3]

\* Without an answer, with one that is too wide, and with a good one.
MCSimulationsOf ==
  (q1 :> {[preOpGas |-> Absent, gas |-> Absent], [preOpGas |-> 300, gas |-> 9]})
  @@ (q2 :> {[preOpGas |-> 30, gas |-> 9]})

Plain ==
  [initCode |-> Absent, factory |-> Absent, factoryData |-> Absent, callData |-> <<1, 2>>,
   callGasLimit |-> Absent, verificationGasLimit |-> Absent, preVerificationGas |-> Absent,
   paymasterVerificationGasLimit |-> Absent, paymasterPostOpGasLimit |-> Absent,
   paymasterAndData |-> Absent, l1DataGas |-> Absent, signature |-> <<>>,
   maxFeePerGas |-> 3, maxPriorityFeePerGas |-> 1, chainId |-> Absent]

Deploying == [Plain EXCEPT !.factory = <<9>>, !.factoryData = <<4>>, !.l1DataGas = 2]
Ambiguous == [Deploying EXCEPT !.initCode = <<9, 4>>]

MCRequestsOf == (q1 :> {Deploying, Ambiguous}) @@ (q2 :> {Plain})

MCPaymaster == <<5>>
MCToken == <<6>>
MCDummySignature == <<1>>
MCValidityBytes == <<0>>
MCSignature == <<2>>
=============================================================================
