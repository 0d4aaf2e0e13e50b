-------------------------------- MODULE Pmtp --------------------------------
(***************************************************************************)
(* PMTP ("ratio shifting") policies of x/clp: the policy parameters an     *)
(* administrator schedules, the two countdown counters, and the rate the   *)
(* begin-blocker computes from them, which every swap is priced with.      *)
(* Rates are whole numbers (1 stands for 100%).                            *)
(***************************************************************************)
EXTENDS Integers

CONSTANTS
    PolicyMsgs,       \* the MsgUpdatePmtpParams an administrator sends
    RateInputs        \* the block and running rates of MsgModifyPmtpRates

ASSUME PolicyMsgsAssumption ==
    PolicyMsgs \subseteq [start : Nat, end : Nat, len : Nat, gov : Nat]
ASSUME RateInputsAssumption == RateInputs \subseteq Nat

VARIABLES
    height,           \* ctx.BlockHeight()
    pmtpParams,       \* PmtpParams: the policy's window, epoch length and rate
    pmtpRates,        \* PmtpRateParams: block, inter-policy and running rate
    pmtpEpoch         \* PmtpEpoch: epochs left, blocks left in the epoch

pmtpVars == <<height, pmtpParams, pmtpRates, pmtpEpoch>>

NoEpoch == [epochs |-> 0, blocks |-> 0]

\* InitGenesis and GetDefaultPmtpParams, at the first block.
PmtpInit ==
    /\ height = 1
    /\ pmtpParams = [start |-> 0, end |-> 0, len |-> 1, gov |-> 0]
    /\ pmtpRates = [block |-> 0, inter |-> 0, running |-> 0]
    /\ pmtpEpoch = NoEpoch

-----------------------------------------------------------------------------
Power[b \in Nat, n \in Nat] == IF n = 0 THEN 1 ELSE b * Power[b, n - 1]

\* PolicyStart's block rate (1 + gov)^(epochs / blocks) - 1, where a policy has
\* len blocks per epoch: the len-th root (exact for the rates the models use).
BlockRate(gov, len) ==
    CHOOSE b \in 0 .. gov : /\ Power[1 + b, len] <= 1 + gov
                            /\ b < gov => Power[2 + b, len] > 1 + gov

IsInsidePmtpWindow == pmtpParams.start <= height /\ height <= pmtpParams.end

-----------------------------------------------------------------------------
(* Messages *)

\* MsgUpdatePmtpParams: ValidateBasic, then the handler's two refusals.
UpdatePmtpParams(m) ==
    /\ m.len > 0 /\ m.end > 0 /\ m.start <= m.end
    /\ (m.end - m.start + 1) % m.len = 0
    /\ ~IsInsidePmtpWindow
    /\ m.start > height
    /\ pmtpParams' = m
    /\ UNCHANGED <<height, pmtpRates, pmtpEpoch>>

\* MsgModifyPmtpRates with a block rate (outside a window only).
SetBlockRate(b) ==
    /\ ~IsInsidePmtpWindow
    /\ pmtpRates' = [block |-> b, inter |-> pmtpRates.inter, running |-> pmtpRates.running]
    /\ UNCHANGED <<height, pmtpParams, pmtpEpoch>>

\* MsgModifyPmtpRates with a running rate (outside a window only).
SetRunningRate(r) ==
    /\ ~IsInsidePmtpWindow
    /\ pmtpRates' = [block |-> pmtpRates.block, inter |-> r, running |-> r]
    /\ UNCHANGED <<height, pmtpParams, pmtpEpoch>>

\* Mutant: a policy that is ended keeps its counters.
EndPolicyCounting ==
    /\ IsInsidePmtpWindow
    /\ pmtpParams' = [start |-> pmtpParams.start, end |-> height,
                      len |-> pmtpParams.len, gov |-> pmtpParams.gov]
    /\ pmtpRates' = [block |-> pmtpRates.block, inter |-> pmtpRates.running,
                     running |-> pmtpRates.running]
    /\ UNCHANGED <<height, pmtpEpoch>>

\* MsgModifyPmtpRates with EndPolicy (inside a window only).
EndPolicy ==
    /\ IsInsidePmtpWindow
    /\ pmtpParams' = [start |-> pmtpParams.start, end |-> height,
                      len |-> pmtpParams.len, gov |-> pmtpParams.gov]
    /\ pmtpEpoch' = NoEpoch
    /\ pmtpRates' = [block |-> pmtpRates.block, inter |-> pmtpRates.running,
                     running |-> pmtpRates.running]
    /\ UNCHANGED height

PmtpMessage ==
    \/ \E m \in PolicyMsgs : UpdatePmtpParams(m)
    \/ \E r \in RateInputs : SetBlockRate(r) \/ SetRunningRate(r)
    \/ EndPolicy

-----------------------------------------------------------------------------
(* BeginBlocker at height h, step by step on the counters e and rates r. *)

PolicyStarts(h) == h = pmtpParams.start /\ pmtpEpoch = NoEpoch

\* PolicyStart
StartedEpoch(h) ==
    IF PolicyStarts(h)
    THEN [epochs |-> (pmtpParams.end - pmtpParams.start + 1) \div pmtpParams.len,
          blocks |-> pmtpParams.len]
    ELSE pmtpEpoch

StartedBlockRate(h) ==
    IF PolicyStarts(h) THEN BlockRate(pmtpParams.gov, pmtpParams.len) ELSE pmtpRates.block

PolicyRuns(h) ==
    pmtpParams.start <= h /\ h <= pmtpParams.end /\ StartedEpoch(h).epochs > 0

\* PolicyCalculations
RunningRate(h) ==
    IF PolicyRuns(h)
    THEN Power[1 + StartedBlockRate(h), h - pmtpParams.start + 1] - 1 + pmtpRates.inter
    ELSE pmtpRates.running

BlocksLeft(h) ==
    IF PolicyRuns(h) THEN StartedEpoch(h).blocks - 1 ELSE StartedEpoch(h).blocks

\* The counters after the block: a spent epoch rolls over to the next one
\* inside the window, and the last block of the window clears both.
PmtpEpochAfter(h) ==
    IF h = pmtpParams.end THEN NoEpoch
    ELSE IF BlocksLeft(h) = 0 /\ pmtpParams.start <= h /\ h < pmtpParams.end
         THEN [epochs |-> StartedEpoch(h).epochs - 1, blocks |-> pmtpParams.len]
         ELSE [epochs |-> StartedEpoch(h).epochs, blocks |-> BlocksLeft(h)]

PmtpRatesAfter(h) ==
    [block   |-> StartedBlockRate(h),
     inter   |-> IF h = pmtpParams.end THEN RunningRate(h) ELSE pmtpRates.inter,
     running |-> RunningRate(h)]

\* The next block begins.
PmtpBeginBlock ==
    /\ height' = height + 1
    /\ pmtpRates' = PmtpRatesAfter(height + 1)
    /\ pmtpEpoch' = PmtpEpochAfter(height + 1)
    /\ UNCHANGED pmtpParams

PmtpNext == PmtpMessage \/ PmtpBeginBlock

PmtpSpec == PmtpInit /\ [][PmtpNext]_pmtpVars

-----------------------------------------------------------------------------
(* Properties *)

PmtpTypeOK ==
    /\ height \in Nat \ {0}
    /\ pmtpParams \in [start : Nat, end : Nat, len : Nat, gov : Nat]
    /\ pmtpRates \in [block : Nat, inter : Nat, running : Nat]
    /\ pmtpEpoch \in [epochs : Nat, blocks : Nat]

\* The stores that messages and the begin-blocker write agree.  In every block
\* of a running policy the two counters of PmtpEpoch count down exactly to the
\* window's last block: the epochs after this one, of len blocks each, and the
\* blocks left of this one are the blocks left of the window.  With no policy
\* running, "inter policy rate should always equal running rate between
\* policies" (msg_server.go, ModifyPmtpRates): the next policy starts from the
\* rate swaps are priced with now.
PmtpStoresAgree ==
    IF pmtpEpoch.epochs > 0
    THEN /\ pmtpParams.start <= height /\ height < pmtpParams.end
         /\ (pmtpEpoch.epochs - 1) * pmtpParams.len + pmtpEpoch.blocks = pmtpParams.end - height
    ELSE pmtpRates.inter = pmtpRates.running

=============================================================================
