------------------------------ MODULE Startup ------------------------------
(***************************************************************************)
(* The start of the process: Config::from_env (oracle/src/config.rs) reads *)
(* the environment and reports what is wrong with it, main exits, and the  *)
(* operator corrects what the report names and starts the process again.   *)
(*                                                                         *)
(* A value is not set, blank, or a text, which may have blanks around it.  *)
(* The text is "good", one of the ways to be wrong, the name of a network  *)
(* or, for a contract, the role whose contract it is.                      *)
(***************************************************************************)
EXTENDS TokenConfig

CONSTANTS
  RightTokens,  \* the token list the operator has in mind
  WrongToken,   \* per field of a token, the values it may have by mistake
  MaxSlips      \* bound: mistakes in one environment

ASSUME SlipsAssumption == MaxSlips \in Nat
ASSUME TokensAssumption ==
  /\ RightTokens \in Seq(Token)
  /\ TokensUsable(RightTokens) /\ FaultyToken(RightTokens) = 0

\* a mistake in a field leaves a token of the struct's types
ASSUME MistakesAssumption ==
  \A n \in DOMAIN RightTokens, f \in DOMAIN WrongToken :
    \A w \in WrongToken[f] : [RightTokens[n] EXCEPT ![f] = w] \in Token

Roles == <<"ORACLE_CONTRACT_ID", "ROLE_STORE", "DATA_STORE", "ORDER_HANDLER",
           "DEPOSIT_HANDLER", "WITHDRAWAL_HANDLER", "READER">>
Contracts == {Roles[n] : n \in DOMAIN Roles}

Keys == {"KEEPER_PRIVATE_KEY", "KEEPER_SECRET_KEY", "KEEPER_ACCOUNT_ID"}
Numbers == {"BIND_ADDR", "KEEPER_INDEX", "MIN_KEEPER_BALANCE_XLM"}
Positives == {"SET_PRICES_TX_FEE", "KEEPER_TX_FEE", "PRICE_LOOP_MS", "KEEPER_LOOP_MS"}
Vars == Contracts \cup Keys \cup Numbers \cup Positives
          \cup {"STELLAR_NETWORK", "STELLAR_RPC_URL", "ORACLE", "ADMIN_API_TOKEN",
                "PRICE_FEED_CONFIG"}

VARIABLES
  intended,  \* the network the operator has in mind
  env,       \* the environment: a value per variable
  tokens,    \* the token list in PRICE_FEED_CONFIG
  slips,     \* mistakes made in the environment
  phase,     \* "down", "refused", "accepted", "serving"
  reports    \* what each start has reported

startVars == <<intended, env, tokens, slips, phase, reports>>

Value(is, text, padded) == [is |-> is, text |-> text, padded |-> padded]
Absent == Value("absent", "", FALSE)
Blank == Value("blank", "", FALSE)
Text(text) == Value("text", text, FALSE)
Padded(text) == Value("text", text, TRUE)

(* What the operator has in mind. The other variables have defaults.       *)
Right(v) ==
  IF v = "STELLAR_NETWORK" THEN Text(intended)
  ELSE IF v \in Contracts THEN Text(v)
  ELSE IF v \in Keys \cup {"STELLAR_RPC_URL", "PRICE_FEED_CONFIG"} THEN Text("good")
  ELSE Absent

(* The mistakes: a variable left out or rendered blank, a value of the     *)
(* wrong form, a contract pasted into the wrong slot.                      *)
Pasted == {Text("ORACLE_CONTRACT_ID"), Padded("ORACLE_CONTRACT_ID"), Text("READER")}

Wrong(v) ==
  {Absent, Blank} \cup
  (IF v \in Contracts \cup {"ORACLE"} THEN Pasted
   ELSE IF v \in Positives THEN {Text("bad"), Text("zero"), Padded("good")}
   ELSE IF v = "STELLAR_RPC_URL" THEN {}
   ELSE {Text("bad"), Padded("good")})

-----------------------------------------------------------------------------
(* Config::from_lookup. Each part is the set of variables it reports.      *)

Filled(v) == env[v].is = "text"
Exactly(v, text) == env[v] = Text(text)

Network == IF Exactly("STELLAR_NETWORK", "mainnet") THEN "mainnet" ELSE "testnet"

(* An unknown network is reported and taken for the test network.          *)
NetworkError ==
  IF env["STELLAR_NETWORK"] \in {Absent, Text("testnet"), Text("mainnet")}
  THEN {} ELSE {"STELLAR_NETWORK"}

required(V) == {v \in V : ~Filled(v)}

(* The alias ORACLE counts on the test network only.                       *)
ContractValue(r) ==
  IF r = "ORACLE_CONTRACT_ID" /\ ~Filled(r) /\ Network = "testnet" THEN env["ORACLE"] ELSE env[r]

MissingContracts == {r \in Contracts : ContractValue(r).is # "text"}

(* parse_or_default: what is blank has its default.                        *)
ParseErrors == {v \in Numbers \cup Positives : Filled(v) /\ ~Exactly(v, "good")}

(* A key that is set must have its form to the last character.             *)
KeyErrors == {v \in Keys : ~Exactly(v, "good")}

TokenErrors ==
  IF \/ env["PRICE_FEED_CONFIG"] = Absent
     \/ env["PRICE_FEED_CONFIG"].text = "good" /\ FaultyToken(tokens) = 0
  THEN {} ELSE {"PRICE_FEED_CONFIG"}

(* The token is compared without the blanks around it.                     *)
AdminTokenError ==
  IF Filled("ADMIN_API_TOKEN") /\ env["ADMIN_API_TOKEN"].text # "good"
  THEN {"ADMIN_API_TOKEN"} ELSE {}

(* Mutant: contract IDs compared with the blanks around them.              *)
SharedContractsUntrimmed ==
  {r \in Contracts :
     /\ ContractValue(r).is = "text"
     /\ \E s \in Contracts \ {r} : ContractValue(s) = ContractValue(r)}

(* Two roles with one contract: both are named.                            *)
SharedContracts ==
  {r \in Contracts :
     /\ ContractValue(r).is = "text"
     /\ \E s \in Contracts \ {r} :
          ContractValue(s).is = "text" /\ ContractValue(s).text = ContractValue(r).text}

(* Mutant: the first error ends the parse.                                 *)
ErrorsInTurn ==
  IF NetworkError # {} THEN NetworkError
  ELSE IF MissingContracts # {} THEN MissingContracts
  ELSE IF KeyErrors # {} THEN KeyErrors
  ELSE ParseErrors \cup TokenErrors \cup AdminTokenError \cup SharedContracts
         \cup (IF Network = "mainnet" THEN required({"STELLAR_RPC_URL"}) ELSE {})

Errors ==
  NetworkError \cup MissingContracts \cup KeyErrors \cup ParseErrors \cup TokenErrors
    \cup AdminTokenError \cup SharedContracts
    \cup (IF Network = "mainnet" THEN required({"STELLAR_RPC_URL"}) ELSE {})

-----------------------------------------------------------------------------
StartInit ==
  /\ intended \in {"testnet", "mainnet"}
  /\ env = [v \in Vars |-> Right(v)]
  /\ tokens = RightTokens
  /\ slips = 0
  /\ phase = "down"
  /\ reports = <<>>

(* Mistakes are made while the environment is first written.               *)
Slip ==
  /\ phase = "down" /\ reports = <<>>
  /\ slips < MaxSlips
  /\ slips' = slips + 1
  /\ UNCHANGED <<intended, phase, reports>>

SlipVariable ==
  /\ Slip
  /\ \E v \in Vars : \E w \in Wrong(v) : env' = [env EXCEPT ![v] = w]
  /\ UNCHANGED tokens

SlipToken ==
  /\ Slip
  /\ \E n \in DOMAIN tokens, f \in DOMAIN WrongToken : \E w \in WrongToken[f] :
       tokens' = [tokens EXCEPT ![n][f] = w]
  /\ UNCHANGED env

(* main: what is wrong is reported and the process exits.                  *)
Refuse ==
  /\ phase = "down"
  /\ Errors # {}
  /\ reports' = Append(reports, Errors)
  /\ phase' = "refused"
  /\ UNCHANGED <<intended, env, tokens, slips>>

Boot ==
  /\ phase = "down"
  /\ Errors = {}
  /\ phase' = "accepted"
  /\ UNCHANGED <<intended, env, tokens, slips, reports>>

(* TcpListener::bind fails: the process exits and is started again.        *)
BindFails ==
  /\ phase = "accepted"
  /\ phase' = "down"
  /\ UNCHANGED <<intended, env, tokens, slips, reports>>

(* The environment is not read again, and is forgotten: the states of the  *)
(* running process are then those of Lifecycle.                            *)
Bind ==
  /\ phase = "accepted"
  /\ phase' = "serving"
  /\ intended' = "testnet"
  /\ env' = [v \in Vars |-> Absent]
  /\ tokens' = RightTokens
  /\ slips' = 0
  /\ reports' = <<>>

(* The operator corrects every variable that was named, and the token that *)
(* was, unless the list as a whole was not to be read.                     *)
Fix ==
  LET named == reports[Len(reports)]
      n == FaultyToken(tokens)
  IN  /\ phase = "refused"
      /\ env' = [v \in Vars |-> IF v \in named THEN Right(v) ELSE env[v]]
      /\ tokens' = IF env["PRICE_FEED_CONFIG"].text = "good" /\ n # 0
                   THEN [tokens EXCEPT ![n] = RightTokens[n]]
                   ELSE tokens
      /\ phase' = "down"
      /\ UNCHANGED <<intended, slips, reports>>

StartNext ==
  SlipVariable \/ SlipToken \/ Refuse \/ Boot \/ BindFails \/ Bind \/ Fix

-----------------------------------------------------------------------------
(* Properties.                                                             *)

(* Config::from_env reports every problem in one pass, so an operator who  *)
(* corrects what is named starts the second time, but for what hides other *)
(* mistakes: an unknown network (the rules of mainnet are not applied), a  *)
(* token list (only one token is named) and a contract not set (it is not  *)
(* compared with the others).                                              *)
OnePass ==
  Len(reports) > 1 =>
    reports[1] \cap (Contracts \cup {"STELLAR_NETWORK", "PRICE_FEED_CONFIG"}) # {}

(* An environment that is accepted can be worked with, whatever mistakes   *)
(* it had before: seven contracts, each its own, well-formed keys, fees    *)
(* and intervals above zero, the network that was asked for with its own   *)
(* RPC server, and tokens whose sources can answer in sufficient number.   *)
AcceptedUsable ==
  phase = "accepted" =>
    /\ \A r \in Contracts : ContractValue(r).is = "text"
    /\ \A r, s \in Contracts : r # s => ContractValue(r).text # ContractValue(s).text
    /\ \A v \in Keys : env[v] = Text("good")
    /\ \A v \in Positives \cup Numbers : Filled(v) => env[v] = Text("good")
    /\ Filled("ADMIN_API_TOKEN") => env["ADMIN_API_TOKEN"].text = "good"
    /\ env["STELLAR_NETWORK"] \in {Absent, Text(Network)}
    /\ Network = "mainnet" => Filled("STELLAR_RPC_URL")
    /\ env["PRICE_FEED_CONFIG"] # Absent => TokensUsable(tokens)

=============================================================================
