-------------------------- MODULE LifecycleProofs --------------------------
(***************************************************************************)
(* Proofs about the process. Of its shutdown, for every drain timeout and  *)
(* any number of requests: as it runs (Lifecycle), and from its start      *)
(* (Process), which is Lifecycle once it is configured. Of its starts      *)
(* (Startup), for any mistakes and any list of tokens.                     *)
(***************************************************************************)
EXTENDS Process, WellFoundedInduction, TLAPS

(* Main waits in a stage for no longer than its timeout.                   *)
StageBounded ==
  /\ elapsed \in Nat /\ since \in Nat
  /\ elapsed <= Drain
  /\ main \in {"select", "drain", "exited"}
  /\ loop \in [Loops -> {"waiting", "cycle", "exited", "dead", "aborted"}]

(* What has passed of the shutdown has passed of the stages: nothing was   *)
(* counted before the first, and in the second everything is.              *)
StagesCount ==
  /\ main = "select" => since <= elapsed
  /\ main = "drain" => token /\ since <= Drain + elapsed /\ elapsed <= since

StageInv == StageBounded /\ StagesCount

LEMMA StageInit == Init => StageInv
  BY DrainAssumption DEF Init, StageInv, StageBounded, StagesCount

LEMMA StartDrainKeeps ==
  ASSUME StageInv, main = "select", NEW e, StartDrain(e), UNCHANGED <<loop, since>>
  PROVE  StageInv'
  BY DrainAssumption DEF StartDrain, StageInv, StageBounded, StagesCount

(* Whatever leaves main where it is and never takes the token back.        *)
LEMMA OthersKeep ==
  ASSUME StageInv, UNCHANGED <<main, elapsed, since>>, token => token',
         loop' \in [Loops -> {"waiting", "cycle", "exited", "dead", "aborted"}]
  PROVE  StageInv'
  BY DEF StageInv, StageBounded, StagesCount

LEMMA StageNext == StageInv /\ [Next]_vars => StageInv'
  <1> SUFFICES ASSUME StageInv, [Next]_vars PROVE StageInv'
    OBVIOUS
  <1>1. CASE Signal \/ Accept \/ Answer \/ ServerDrained
    BY <1>1, OthersKeep DEF Signal, Accept, Answer, ServerDrained, StageInv, StageBounded
  <1>2. ASSUME NEW l \in Loops, LoopStep(l) PROVE StageInv'
    BY <1>2, OthersKeep DEF LoopStep, Work, Stops, Dies, StageInv, StageBounded
  <1>3. CASE SelectLoop \/ SelectServer \/ SelectTimeout
    BY <1>3, StartDrainKeeps DEF SelectLoop, SelectServer, SelectTimeout
  <1>4. CASE Drained
    BY <1>4 DEF Drained, StageInv, StageBounded, StagesCount
  <1>5. CASE DrainTimeout
    BY <1>5 DEF DrainTimeout, StageInv, StageBounded, StagesCount
  <1>6. CASE Tick
    <2>1. elapsed < Drain /\ elapsed' = elapsed + 1
      BY <1>6, DrainAssumption DEF Tick, SelectDue, DrainDue, StageInv, StageBounded
    <2>2. UNCHANGED <<main, token, loop>> /\ since' \in {since, since + 1}
      BY <1>6 DEF Tick
    <2>3. CASE main = "select"
      BY <2>1, <2>2, <2>3, DrainAssumption DEF StageInv, StageBounded, StagesCount
    <2>4. CASE main = "drain"
      <3>1. since <= 2 * Drain
        BY <2>1, <2>4, DrainAssumption DEF StageInv, StageBounded, StagesCount
      <3>2. since' = since + 1
        BY <1>6, <2>4, <3>1 DEF Tick, StageInv, StagesCount
      <3> QED
        BY <2>1, <2>2, <2>4, <3>2, DrainAssumption DEF StageInv, StageBounded, StagesCount
    <2> QED
      BY <1>6, <2>3, <2>4 DEF Tick
  <1>7. CASE UNCHANGED vars
    BY <1>7, OthersKeep DEF vars, StageInv, StageBounded
  <1> QED
    BY <1>1, <1>2, <1>3, <1>4, <1>5, <1>6, <1>7 DEF Next, MainStep

LEMMA StagesOf == Spec => []StageInv
  BY StageInit, StageNext, PTL DEF Spec

(* A shutdown ends within two drain timeouts: what remains of the first    *)
(* stage and the whole of the second.                                      *)
THEOREM ShutdownEnds == Spec => []ShutdownBounded
  <1>1. StageInv => ShutdownBounded
    BY DrainAssumption DEF StageInv, StageBounded, StagesCount, ShutdownBounded, Alive
  <1> QED
    BY <1>1, StagesOf, PTL

(* A loop that is aborted has had a whole drain timeout to end.            *)
THEOREM AbortedLate == Spec => LoopsGetTheirStage
  <1> DEFINE Spared == \A l \in Loops : loop[l] # "aborted" /\ loop'[l] = "aborted" => since >= Drain
  <1>1. StageInv /\ [Next]_vars => [Spared]_vars
    <2> SUFFICES ASSUME StageInv, Next PROVE Spared
      BY DEF Spared
    <2>1. CASE DrainTimeout
      BY <2>1, DrainAssumption DEF DrainTimeout, DrainDue, StageInv, StageBounded, StagesCount
    <2>2. ASSUME NEW l \in Loops, LoopStep(l) PROVE Spared
      BY <2>2 DEF LoopStep, Work, Stops, Dies, StageInv, StageBounded
    <2>3. CASE UNCHANGED loop
      BY <2>3
    <2> QED
      BY <2>1, <2>2, <2>3 DEF Next, MainStep, Signal, Accept, Answer, ServerDrained, SelectLoop,
                              SelectServer, SelectTimeout, Drained, Tick
  <1> QED
    BY <1>1, StagesOf, PTL DEF Spec, LoopsGetTheirStage

(* A process that is started, however often it is refused, is Lifecycle.   *)
LEMMA StartedRuns == ProcessSpec => Spec
  <1>1. ProcessInit => Init
    BY DEF ProcessInit
  <1>2. [ProcessNext]_processVars => [Next]_vars
    BY DEF ProcessNext, processVars, Starting, Running
  <1> QED
    BY <1>1, <1>2, PTL DEF ProcessSpec, Spec

(* The same of the whole process, from the first start on.                 *)
THEOREM ProcessEnds == ProcessSpec => []ShutdownBounded /\ LoopsGetTheirStage
  BY StartedRuns, ShutdownEnds, AbortedLate, PTL

-----------------------------------------------------------------------------
(* The configuration. First the list of tokens.                            *)

LEMMA LeastNat ==
  ASSUME NEW T \in SUBSET Nat, T # {}
  PROVE  \E x \in T : \A y \in T : x <= y
  <1> DEFINE R == {ss \in Nat \X Nat : ss[1] < ss[2]}
  <1>1. IsWellFoundedOn(R, Nat)
    BY NatLessThanWellFounded DEF OpToRel
  <1>2. PICK x \in T : \A y \in T : ~(<<y, x>> \in R)
    <2> HIDE DEF R
    <2> QED
      BY <1>1, WFMin
  <1>3. \A y \in T : ~(y < x)
    BY <1>2
  <1> QED
    BY <1>3

(* No token is named exactly when none has a fault.                        *)
LEMMA NoFaultyToken ==
  ASSUME NEW ts, DOMAIN ts \subseteq Nat \ {0}, FaultyToken(ts) = 0
  PROVE  \A i \in DOMAIN ts : ~SharedFault(ts, i) /\ ~OracleFault(ts, i)
  <1> DEFINE shared == {i \in DOMAIN ts : SharedFault(ts, i)}
             oracle == {i \in DOMAIN ts : OracleFault(ts, i)}
             First(S) == CHOOSE i \in S : \A j \in S : i <= j
  <1>1. ASSUME NEW S \in SUBSET DOMAIN ts, S # {} PROVE First(S) # 0
    <2>1. \E i \in S : \A j \in S : i <= j
      BY <1>1, LeastNat
    <2>2. First(S) \in S
      BY <2>1
    <2> QED
      BY <2>2
  <1>2. FaultyToken(ts) = IF shared # {} THEN First(shared)
                          ELSE IF oracle # {} THEN First(oracle) ELSE 0
    BY DEF FaultyToken
  <1>3. shared \in SUBSET DOMAIN ts /\ oracle \in SUBSET DOMAIN ts
    OBVIOUS
  <1>4. shared = {} /\ oracle = {}
    <2> HIDE DEF shared, oracle, First
    <2> QED
      BY <1>1, <1>2, <1>3
  <1> QED
    BY <1>4

LEMMA SharedRules ==
  ASSUME NEW ts, NEW i, ~SharedFault(ts, i)
  PROVE  /\ \A field \in {"address", "pyth", "binance", "coinbase"} : ~RepeatsFeed(ts, i, field)
         /\ Cardinality(SourcesOf(ts[i])) = Len(ts[i].sources)
         /\ \A source \in {"binance", "coinbase"} :
              Uses(ts[i], source) => ts[i][source] \notin {"", "bad"}
         /\ SourcesOf(ts[i]) \subseteq Supported
         /\ ts[i].max_deviation_bps \in 1..MaxBps
         /\ ts[i].stale_after_seconds # 0 /\ ts[i].min_sources # 0
  <1>1. \A field \in {"address", "pyth", "binance", "coinbase"} : ~RepeatsFeed(ts, i, field)
    BY Zenon DEF SharedFault
  <1>2. Cardinality(SourcesOf(ts[i])) = Len(ts[i].sources)
    BY Zenon DEF SharedFault
  <1>3. ASSUME NEW source \in {"binance", "coinbase"}, Uses(ts[i], source)
        PROVE  ts[i][source] \notin {"", "bad"}
    BY <1>3, Zenon DEF SharedFault
  <1>4. SourcesOf(ts[i]) \subseteq Supported
    BY Zenon DEF SharedFault
  <1>5. ts[i].max_deviation_bps \in 1..MaxBps
    BY Zenon DEF SharedFault
  <1>6. ts[i].stale_after_seconds # 0 /\ ts[i].min_sources # 0
    BY Zenon DEF SharedFault
  <1> QED
    BY <1>1, <1>2, <1>3, <1>4, <1>5, <1>6

LEMMA OracleRules ==
  ASSUME NEW ts, NEW i, ~OracleFault(ts, i)
  PROVE  /\ ts[i].address \notin {"", "bad"}
         /\ \A source \in {"binance", "coinbase"} :
              Uses(ts[i], source) => ts[i][source] # "none"
         /\ Uses(ts[i], "pyth") => ts[i].pyth \notin Unset
         /\ Uses(ts[i], "fixed") => ts[i].fixed \notin Unset \cup {"bad"}
         /\ ~(ts[i].min_sources > Len(ts[i].sources))
  BY Zenon DEF OracleFault

(* What the two validations let through, the loops can work with.          *)
LEMMA AcceptedTokens ==
  ASSUME NEW ts, NEW N \in Nat \ {0}, ts \in [1..N -> Token], ts # <<>>, FaultyToken(ts) = 0
  PROVE  TokensUsable(ts)
  <1>1. \A i \in 1..N : ts[i] \in Token /\ ~SharedFault(ts, i) /\ ~OracleFault(ts, i)
    BY NoFaultyToken
  <1>2. ASSUME NEW i \in 1..N
        PROVE  /\ ts[i].address \notin {"", "bad", "none"}
               /\ \A s \in {"binance", "coinbase", "pyth"} :
                    Uses(ts[i], s) => ts[i][s] \notin Unset \cup {"bad"}
               /\ \A s \in SourcesOf(ts[i]) : CanAnswer(ts[i], s)
    <2>1. ts[i] \in Token /\ ~SharedFault(ts, i) /\ ~OracleFault(ts, i)
      BY <1>1
    <2>2. ts[i].address \notin {"", "bad", "none"}
      BY <2>1, OracleRules DEF Token
    <2>3. Uses(ts[i], "binance") => ts[i]["binance"] \notin Unset \cup {"bad"}
      BY <2>1, SharedRules, OracleRules DEF Unset
    <2>4. Uses(ts[i], "coinbase") => ts[i]["coinbase"] \notin Unset \cup {"bad"}
      BY <2>1, SharedRules, OracleRules DEF Unset
    <2>5. Uses(ts[i], "pyth") => ts[i].pyth \notin Unset \cup {"bad"}
      BY <2>1, OracleRules DEF Token
    <2>6. Uses(ts[i], "fixed") => ts[i].fixed \notin Unset \cup {"bad"}
      BY <2>1, OracleRules
    <2>7. \A s \in SourcesOf(ts[i]) : s \in Supported /\ Uses(ts[i], s)
      BY <2>1, SharedRules DEF Uses
    <2>8. \A s \in SourcesOf(ts[i]) : CanAnswer(ts[i], s)
      BY <2>3, <2>4, <2>5, <2>6, <2>7 DEF CanAnswer, Supported
    <2> QED
      BY <2>2, <2>3, <2>4, <2>5, <2>8
  <1>3. ASSUME NEW i \in 1..N, NEW j \in 1..N, j < i
        PROVE  /\ ts[i].address # ts[j].address
               /\ \A s \in {"binance", "coinbase", "pyth"} :
                    Uses(ts[i], s) /\ Uses(ts[j], s) => ts[i][s] # ts[j][s]
    <2>1. \A field \in {"address", "pyth", "binance", "coinbase"} : ~RepeatsFeed(ts, i, field)
      BY <1>1, SharedRules
    <2>2. j \in 1..(i - 1)
      BY <1>3
    <2> QED
      BY <1>2, <2>1, <2>2 DEF RepeatsFeed, Repeats, Unset
  <1>4. ASSUME NEW i \in 1..N, NEW j \in 1..N, i # j
        PROVE  /\ LookupKey(ts[i]) # LookupKey(ts[j])
               /\ \A s \in {"binance", "coinbase", "pyth"} :
                    Uses(ts[i], s) /\ Uses(ts[j], s) => ts[i][s] # ts[j][s]
    <2>1. LookupKey(ts[i]) = ts[i].address /\ LookupKey(ts[j]) = ts[j].address
      BY <1>2 DEF LookupKey
    <2>2. CASE j < i
      BY <1>3, <2>1, <2>2
    <2>3. CASE i < j
      BY <1>3, <2>1, <2>3
    <2> QED
      BY <1>4, <2>2, <2>3
  <1>5. ASSUME NEW i \in 1..N
        PROVE  /\ ts[i].min_sources \in 1..Cardinality({s \in SourcesOf(ts[i]) : CanAnswer(ts[i], s)})
               /\ ts[i].max_deviation_bps \in 1..MaxBps
               /\ ts[i].stale_after_seconds > 0
    <2>1. ts[i] \in Token /\ ~SharedFault(ts, i) /\ ~OracleFault(ts, i)
      BY <1>1
    <2>2. {s \in SourcesOf(ts[i]) : CanAnswer(ts[i], s)} = SourcesOf(ts[i])
      BY <1>2
    <2>3. ts[i].sources \in Seq(STRING) /\ ts[i].min_sources \in Nat /\ ts[i].stale_after_seconds \in Nat
      BY <2>1 DEF Token
    <2>4. /\ Cardinality(SourcesOf(ts[i])) = Len(ts[i].sources)
          /\ ts[i].min_sources # 0 /\ ~(ts[i].min_sources > Len(ts[i].sources))
          /\ ts[i].max_deviation_bps \in 1..MaxBps /\ ts[i].stale_after_seconds # 0
      BY <2>1, SharedRules, OracleRules
    <2>5. Len(ts[i].sources) \in Nat
      BY <2>3
    <2>6. ts[i].min_sources \in 1..Len(ts[i].sources)
      BY <2>3, <2>4, <2>5
    <2>7. ts[i].stale_after_seconds > 0
      BY <2>3, <2>4
    <2> QED
      BY <2>2, <2>4, <2>6, <2>7, Zenon
  <1> QED
    BY <1>2, <1>4, <1>5 DEF TokensUsable

Fields ==
  {"symbol", "address", "sources", "binance", "coinbase", "pyth", "fixed", "min_sources",
   "max_deviation_bps", "stale_after_seconds", "submit_threshold_bps", "pyth_max_confidence_bps"}

(* A mistake in a field leaves any token a token, as it does the right one.*)
LEMMA MistakenToken ==
  ASSUME NEW r \in Token, NEW t \in Token, NEW f, NEW w, [r EXCEPT ![f] = w] \in Token
  PROVE  [t EXCEPT ![f] = w] \in Token
  <1>1. CASE f \notin Fields
    <2>1. [t EXCEPT ![f] = w] = t
      BY <1>1 DEF Token, Fields
    <2> QED
      BY <2>1
  <1>2. CASE f = "symbol"
    BY <1>2 DEF Token
  <1>3. CASE f = "address"
    BY <1>3 DEF Token
  <1>4. CASE f = "sources"
    BY <1>4 DEF Token
  <1>5. CASE f = "binance"
    BY <1>5 DEF Token
  <1>6. CASE f = "coinbase"
    BY <1>6 DEF Token
  <1>7. CASE f = "pyth"
    BY <1>7 DEF Token
  <1>8. CASE f = "fixed"
    BY <1>8 DEF Token
  <1>9. CASE f = "min_sources"
    BY <1>9 DEF Token
  <1>10. CASE f = "max_deviation_bps"
    BY <1>10 DEF Token
  <1>11. CASE f = "stale_after_seconds"
    BY <1>11 DEF Token
  <1>12. CASE f = "submit_threshold_bps"
    BY <1>12 DEF Token
  <1>13. CASE f = "pyth_max_confidence_bps"
    BY <1>13 DEF Token
  <1> QED
    BY <1>1, <1>2, <1>3, <1>4, <1>5, <1>6, <1>7, <1>8, <1>9, <1>10, <1>11, <1>12, <1>13
    DEF Fields

(* The list keeps its length and its tokens their types.                   *)
TokensTyped == tokens \in [1..Len(RightTokens) -> Token]

LEMMA RightTyped ==
  /\ Len(RightTokens) \in Nat \ {0}
  /\ RightTokens \in [1..Len(RightTokens) -> Token]
  <1>1. RightTokens \in Seq(Token) /\ RightTokens # <<>>
    BY TokensAssumption DEF TokensUsable
  <1> QED
    BY <1>1

LEMMA TokensKeep == ASSUME TokensTyped, StartNext PROVE TokensTyped'
  <1>1. CASE SlipToken
    <2>1. PICK n \in DOMAIN tokens, f \in DOMAIN WrongToken : \E w \in WrongToken[f] :
            tokens' = [tokens EXCEPT ![n][f] = w]
      BY <1>1 DEF SlipToken
    <2>2. PICK w \in WrongToken[f] : tokens' = [tokens EXCEPT ![n][f] = w]
      BY <2>1
    <2>3. n \in DOMAIN RightTokens /\ RightTokens[n] \in Token /\ tokens[n] \in Token
      BY RightTyped DEF TokensTyped
    <2>4. [RightTokens[n] EXCEPT ![f] = w] \in Token
      BY <2>3, MistakesAssumption
    <2>5. PICK t : t = [tokens[n] EXCEPT ![f] = w]
      OBVIOUS
    <2>6. t \in Token
      BY <2>3, <2>4, <2>5, MistakenToken
    <2>7. tokens' = [tokens EXCEPT ![n] = t]
      BY <2>2, <2>5
    <2> QED
      BY <2>6, <2>7 DEF TokensTyped
  <1>2. CASE Fix
    <2>1. PICK n : tokens' = tokens \/ tokens' = [tokens EXCEPT ![n] = RightTokens[n]]
      BY <1>2 DEF Fix
    <2>2. \A i \in 1..Len(RightTokens) : RightTokens[i] \in Token
      BY RightTyped
    <2> QED
      BY <2>1, <2>2 DEF TokensTyped
  <1>3. CASE Bind
    BY <1>3, RightTyped DEF Bind, TokensTyped
  <1>4. CASE SlipVariable \/ Refuse \/ Boot \/ BindFails
    BY <1>4 DEF SlipVariable, Refuse, Boot, BindFails, TokensTyped
  <1> QED
    BY <1>1, <1>2, <1>3, <1>4 DEF StartNext

-----------------------------------------------------------------------------
(* What a start reports, and what is left of it after the corrections.     *)

LEMMA ContractNames ==
  Contracts = {"ORACLE_CONTRACT_ID", "ROLE_STORE", "DATA_STORE", "ORDER_HANDLER",
               "DEPOSIT_HANDLER", "WITHDRAWAL_HANDLER", "READER"}
  <1>1. DOMAIN Roles = 1..7
    BY DEF Roles
  <1>2. /\ Roles[1] = "ORACLE_CONTRACT_ID" /\ Roles[2] = "ROLE_STORE" /\ Roles[3] = "DATA_STORE"
        /\ Roles[4] = "ORDER_HANDLER" /\ Roles[5] = "DEPOSIT_HANDLER"
        /\ Roles[6] = "WITHDRAWAL_HANDLER" /\ Roles[7] = "READER"
    BY DEF Roles
  <1>3. 1..7 = {1, 2, 3, 4, 5, 6, 7}
    OBVIOUS
  <1> QED
    BY <1>1, <1>2, <1>3 DEF Contracts

(* The mistakes that hide no others.                                       *)
Hiding == Contracts \cup {"STELLAR_NETWORK", "PRICE_FEED_CONFIG"}

LEMMA ErrorsNamed == Errors \subseteq Vars \ {"ORACLE"}
  BY ContractNames
  DEF Errors, NetworkError, MissingContracts, KeyErrors, ParseErrors, TokenErrors,
      AdminTokenError, SharedContracts, required, Vars, Keys, Numbers, Positives

(* With a list of tokens and contracts nothing was wrong with, and the     *)
(* network known, one correction is enough.                                *)
LEMMA CorrectedOnce ==
  ASSUME Errors \cap Hiding = {}, Fix, reports[Len(reports)] = Errors
  PROVE  Errors' = {}
  <1>1. \A v \in Vars : env'[v] = IF v \in Errors THEN Right(v) ELSE env[v]
    BY DEF Fix
  <1>2. /\ NetworkError = {} /\ MissingContracts = {} /\ SharedContracts = {} /\ TokenErrors = {}
        /\ Errors \cap Contracts = {}
        /\ "STELLAR_NETWORK" \notin Errors /\ "PRICE_FEED_CONFIG" \notin Errors
    BY DEF Errors, Hiding, NetworkError, MissingContracts, SharedContracts, TokenErrors
  <1>3. /\ KeyErrors \subseteq Errors /\ ParseErrors \subseteq Errors
        /\ AdminTokenError \subseteq Errors
        /\ Network = "mainnet" => required({"STELLAR_RPC_URL"}) \subseteq Errors
    BY DEF Errors
  <1>4. /\ {"STELLAR_NETWORK", "PRICE_FEED_CONFIG", "ORACLE", "ADMIN_API_TOKEN", "STELLAR_RPC_URL"}
            \subseteq Vars
        /\ Contracts \subseteq Vars /\ Keys \subseteq Vars
        /\ Numbers \cup Positives \subseteq Vars
    BY DEF Vars
  <1>5. /\ env'["STELLAR_NETWORK"] = env["STELLAR_NETWORK"]
        /\ env'["PRICE_FEED_CONFIG"] = env["PRICE_FEED_CONFIG"]
        /\ env'["ORACLE"] = env["ORACLE"]
        /\ \A r \in Contracts : env'[r] = env[r]
    BY <1>1, <1>2, <1>4, ErrorsNamed
  <1>6. NetworkError' = {} /\ Network' = Network
    BY <1>2, <1>5 DEF NetworkError, Network, Exactly
  <1>7. \A r \in Contracts : ContractValue(r)' = ContractValue(r)
    BY <1>5, <1>6, ContractNames DEF ContractValue, Filled
  <1>8. MissingContracts' = {} /\ SharedContracts' = {}
    BY <1>2, <1>7 DEF MissingContracts, SharedContracts
  <1>9. KeyErrors' = {}
    <2>1. ASSUME NEW v \in Keys PROVE env'[v] = Text("good")
      <3>1. CASE v \in Errors
        <4>1. v \notin Contracts /\ v # "STELLAR_NETWORK"
          BY ContractNames DEF Keys
        <4>2. Right(v) = Text("good")
          BY <4>1 DEF Right
        <4> QED
          BY <1>1, <1>4, <3>1, <4>2
      <3>2. CASE v \notin Errors
        BY <1>1, <1>3, <1>4, <3>2 DEF KeyErrors, Exactly
      <3> QED
        BY <3>1, <3>2
    <2> QED
      BY <2>1 DEF KeyErrors, Exactly
  <1>10. \A v \in Numbers \cup Positives \cup {"ADMIN_API_TOKEN"} : Right(v) = Absent
    BY ContractNames DEF Right, Numbers, Positives, Keys
  <1>11. Absent.is # "text"
    BY DEF Absent, Value
  <1>12. ParseErrors' = {}
    <2>1. ASSUME NEW v \in Numbers \cup Positives PROVE (Filled(v) => Exactly(v, "good"))'
      <3>1. CASE v \in Errors
        BY <1>1, <1>4, <1>10, <1>11, <3>1 DEF Filled
      <3>2. CASE v \notin Errors
        BY <1>1, <1>3, <1>4, <3>2 DEF ParseErrors, Filled, Exactly
      <3> QED
        BY <3>1, <3>2
    <2> QED
      BY <2>1 DEF ParseErrors
  <1>13. AdminTokenError' = {}
    <2>1. CASE "ADMIN_API_TOKEN" \in Errors
      BY <1>1, <1>4, <1>10, <1>11, <2>1 DEF AdminTokenError, Filled
    <2>2. CASE "ADMIN_API_TOKEN" \notin Errors
      BY <1>1, <1>3, <1>4, <2>2 DEF AdminTokenError, Filled
    <2> QED
      BY <2>1, <2>2
  <1>14. Network' = "mainnet" => required({"STELLAR_RPC_URL"})' = {}
    <2>1. CASE "STELLAR_RPC_URL" \in Errors
      <3>1. Right("STELLAR_RPC_URL") = Text("good")
        BY ContractNames DEF Right
      <3>2. Text("good").is = "text"
        BY DEF Text, Value
      <3> QED
        BY <1>1, <1>4, <2>1, <3>1, <3>2 DEF required, Filled
    <2>2. CASE "STELLAR_RPC_URL" \notin Errors
      BY <1>1, <1>3, <1>4, <1>6, <2>2 DEF required, Filled
    <2> QED
      BY <2>1, <2>2
  <1>15. TokenErrors' = {}
    <2>1. tokens' = tokens
      <3>1. \/ env["PRICE_FEED_CONFIG"] = Absent
            \/ env["PRICE_FEED_CONFIG"].text = "good" /\ FaultyToken(tokens) = 0
        BY <1>2 DEF TokenErrors
      <3>2. Absent.text # "good"
        BY DEF Absent, Value
      <3> QED
        BY <3>1, <3>2 DEF Fix
    <2> QED
      BY <1>2, <1>5, <2>1 DEF TokenErrors
  <1> QED
    BY <1>6, <1>8, <1>9, <1>12, <1>13, <1>14, <1>15 DEF Errors

-----------------------------------------------------------------------------
(* The starts of the process.                                              *)

(* A second start after a report that hides nothing has nothing to report, *)
(* and until the correction the report is what is wrong.                   *)
ReportsKept ==
  /\ reports \in Seq(SUBSET Vars)
  /\ phase = "accepted" => Errors = {}
  /\ phase = "refused" => Len(reports) > 0 /\ reports[Len(reports)] = Errors
  /\ phase = "down" /\ Len(reports) = 1 /\ reports[1] \cap Hiding = {} => Errors = {}

StartInv == TokensTyped /\ ReportsKept /\ OnePass

LEMMA StartInvInit == StartInit => StartInv
  BY RightTyped DEF StartInit, StartInv, TokensTyped, ReportsKept, OnePass

LEMMA StartInvNext == ASSUME StartInv, StartNext PROVE StartInv'
  <1>1. TokensTyped'
    BY TokensKeep DEF StartInv
  <1>2. CASE Slip
    <2>1. phase' = phase /\ phase = "down" /\ reports' = reports /\ reports = <<>>
      BY <1>2 DEF Slip
    <2> QED
      BY <1>1, <2>1 DEF StartInv, ReportsKept, OnePass
  <1>3. CASE Refuse
    <2>1. /\ phase = "down" /\ phase' = "refused" /\ Errors # {}
          /\ reports' = Append(reports, Errors) /\ UNCHANGED <<intended, env, tokens>>
      BY <1>3 DEF Refuse
    <2>2. Errors' = Errors
      BY <2>1
      DEF Errors, NetworkError, MissingContracts, KeyErrors, ParseErrors, TokenErrors,
          AdminTokenError, SharedContracts, required, ContractValue, Network, Filled, Exactly
    <2>3. Errors \in SUBSET Vars /\ reports \in Seq(SUBSET Vars)
      BY ErrorsNamed DEF StartInv, ReportsKept
    <2>4. PICK R : R = SUBSET Vars
      OBVIOUS
    <2>5. /\ reports' \in Seq(R) /\ Len(reports') = Len(reports) + 1 /\ Len(reports) \in Nat
          /\ reports'[Len(reports')] = Errors
          /\ Len(reports) > 0 => reports'[1] = reports[1]
      BY <2>1, <2>3, <2>4
    <2>6. OnePass'
      <3>1. CASE Len(reports) = 0
        BY <2>5, <3>1 DEF OnePass
      <3>2. CASE Len(reports) = 1
        BY <2>1, <2>5, <3>2 DEF OnePass, StartInv, ReportsKept, Hiding
      <3>3. CASE Len(reports) > 1
        BY <2>5, <3>3 DEF OnePass, StartInv
      <3>4. Len(reports) \in Nat
        BY <2>5
      <3>5. \A n \in Nat : n = 0 \/ n = 1 \/ n > 1
        OBVIOUS
      <3> QED
        BY <3>1, <3>2, <3>3, <3>4, <3>5, Zenon
    <2> QED
      BY <1>1, <2>1, <2>2, <2>4, <2>5, <2>6 DEF StartInv, ReportsKept
  <1>4. CASE Boot \/ BindFails
    <2>1. /\ UNCHANGED <<intended, env, tokens, reports>>
          /\ \/ phase = "down" /\ Errors = {} /\ phase' = "accepted"
             \/ phase = "accepted" /\ phase' = "down"
      BY <1>4 DEF Boot, BindFails
    <2>2. Errors = {}
      BY <2>1 DEF StartInv, ReportsKept
    <2>3. Errors' = Errors
      BY <2>1
      DEF Errors, NetworkError, MissingContracts, KeyErrors, ParseErrors, TokenErrors,
          AdminTokenError, SharedContracts, required, ContractValue, Network, Filled, Exactly
    <2> QED
      BY <1>1, <2>1, <2>2, <2>3 DEF StartInv, ReportsKept, OnePass
  <1>5. CASE Bind
    <2>1. phase' = "serving" /\ reports' = <<>>
      BY <1>5 DEF Bind
    <2> QED
      BY <1>1, <2>1 DEF StartInv, ReportsKept, OnePass
  <1>6. CASE Fix
    <2>1. phase = "refused" /\ phase' = "down" /\ reports' = reports
      BY <1>6 DEF Fix
    <2>2. Len(reports) > 0 /\ reports[Len(reports)] = Errors
      BY <2>1 DEF StartInv, ReportsKept
    <2>3. Len(reports) = 1 /\ reports[1] \cap Hiding = {} => Errors' = {}
      BY <1>6, <2>2, CorrectedOnce
    <2> QED
      BY <1>1, <2>1, <2>3 DEF StartInv, ReportsKept, OnePass
  <1> QED
    BY <1>2, <1>3, <1>4, <1>5, <1>6 DEF StartNext, SlipVariable, SlipToken

LEMMA StartsKept == ProcessSpec => []StartInv
  <1>1. ProcessInit => StartInv
    BY StartInvInit DEF ProcessInit
  <1>2. StartInv /\ [ProcessNext]_processVars => StartInv'
    <2> SUFFICES ASSUME StartInv, [ProcessNext]_processVars PROVE StartInv'
      OBVIOUS
    <2>1. CASE Starting
      BY <2>1, StartInvNext DEF Starting
    <2>2. CASE UNCHANGED startVars
      BY <2>2
      DEF startVars, StartInv, TokensTyped, ReportsKept, OnePass, Errors, NetworkError,
          MissingContracts, KeyErrors, ParseErrors, TokenErrors, AdminTokenError,
          SharedContracts, required, ContractValue, Network, Filled, Exactly
    <2> QED
      BY <2>1, <2>2 DEF ProcessNext, Running, processVars
  <1> QED
    BY <1>1, <1>2, PTL DEF ProcessSpec

(* Config::from_env reports every problem in one pass: the second start    *)
(* goes through, for any number of mistakes, unless one of those that hide *)
(* others was among them.                                                  *)
THEOREM CorrectedInOnePass == ProcessSpec => []OnePass
  <1>1. StartInv => OnePass
    BY DEF StartInv
  <1> QED
    BY <1>1, StartsKept, PTL

(* An environment that is accepted can be worked with, for any number of   *)
(* mistakes before and any list of tokens.                                 *)
THEOREM AcceptedIsUsable == ProcessSpec => []AcceptedUsable
  <1>1. StartInv => AcceptedUsable
    <2> SUFFICES ASSUME StartInv, phase = "accepted" PROVE AcceptedUsable
      BY DEF AcceptedUsable
    <2>1. Errors = {}
      BY DEF StartInv, ReportsKept
    <2>2. /\ NetworkError = {} /\ MissingContracts = {} /\ KeyErrors = {} /\ ParseErrors = {}
          /\ TokenErrors = {} /\ AdminTokenError = {} /\ SharedContracts = {}
          /\ Network = "mainnet" => required({"STELLAR_RPC_URL"}) = {}
      BY <2>1 DEF Errors
    <2>3. \A r \in Contracts : ContractValue(r).is = "text"
      BY <2>2 DEF MissingContracts
    <2>4. \A r, s \in Contracts : r # s => ContractValue(r).text # ContractValue(s).text
      BY <2>2, <2>3 DEF SharedContracts
    <2>5. \A v \in Keys : env[v] = Text("good")
      BY <2>2 DEF KeyErrors, Exactly
    <2>6. \A v \in Positives \cup Numbers : Filled(v) => env[v] = Text("good")
      BY <2>2 DEF ParseErrors, Exactly
    <2>7. Filled("ADMIN_API_TOKEN") => env["ADMIN_API_TOKEN"].text = "good"
      BY <2>2 DEF AdminTokenError
    <2>8. env["STELLAR_NETWORK"] \in {Absent, Text(Network)}
      BY <2>2 DEF NetworkError, Network, Exactly
    <2>9. Network = "mainnet" => Filled("STELLAR_RPC_URL")
      BY <2>2 DEF required
    <2>10. ASSUME env["PRICE_FEED_CONFIG"] # Absent PROVE TokensUsable(tokens)
      <3>1. FaultyToken(tokens) = 0
        BY <2>2, <2>10 DEF TokenErrors
      <3>2. tokens # <<>>
        BY RightTyped DEF StartInv, TokensTyped
      <3> QED
        BY <3>1, <3>2, RightTyped, AcceptedTokens DEF StartInv, TokensTyped
    <2> QED
      BY <2>3, <2>4, <2>5, <2>6, <2>7, <2>8, <2>9, <2>10, Zenon DEF AcceptedUsable
  <1> QED
    BY <1>1, StartsKept, PTL

=============================================================================
