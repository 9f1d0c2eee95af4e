---------------------------- MODULE StartupProofs ----------------------------
(***************************************************************************)
(* Proofs about the start of the process, for every setup, height and      *)
(* number of faults.  The invariant says, place by place, what main has    *)
(* established when it gets there.                                         *)
(***************************************************************************)
EXTENDS Startup, TLAPS

AtStart == {"start", "running"}
AtToken == {"token contract"} \cup AtStart
AtStore == {"store"} \cup AtToken
AtReceiver == {"receiver chain"} \cup AtStore
AtSender == {"latest block", "load", "swap contract"} \cup AtReceiver
AtBlockStore == {"block store", "sender chain"} \cup AtSender

ConfigRead ==
    pc \in AtBlockStore =>
       /\ setup.json /\ ~TooManyLines
       /\ conf.loaded = LoadWanted
       /\ conf.password = [c \in 0..1 |-> ReadPassword(c)]

SenderKeyRead ==
    pc \in AtSender => 0 < setup.chains /\ GenerateKeyPair(0) /\ setup.gas

ReceiverKeyRead ==
    pc \in AtStore => 1 < setup.chains /\ GenerateKeyPair(1)

BlockLoaded ==
    IF LoadWanted
    THEN setup.home /\ setup.file # EmptyFile /\ startBlock = LoadedBlock
    ELSE startBlock \in 0..height

SenderBuilt ==
    /\ sender # "none" => pc \in AtReceiver
    /\ pc = "load" => startBlock \in 0..height
    /\ pc = "swap contract" => BlockLoaded
    /\ sender \in {"bare", "ready"} => BlockLoaded
    /\ sender = "ready" => setup.swap = "code"

ReceiverBuilt ==
    /\ pc \in AtToken => setup.dsn
    /\ background => pc \in AtStart
    /\ pc \in AtStart => setup.erc20 \in {"", "code"}

StartInv ==
    /\ StartTypeOK
    /\ ConfigRead /\ SenderKeyRead /\ ReceiverKeyRead
    /\ SenderBuilt /\ ReceiverBuilt
-----------------------------------------------------------------------------

\* The places, expanded where the proofs tell them apart.
LEMMA Places ==
    /\ AtStart = {"start", "running"}
    /\ AtToken = {"token contract", "start", "running"}
    /\ AtStore = {"store", "token contract", "start", "running"}
    /\ AtReceiver = {"receiver chain", "store", "token contract", "start", "running"}
    /\ AtSender = {"latest block", "load", "swap contract", "receiver chain", "store",
                   "token contract", "start", "running"}
    /\ AtBlockStore = {"block store", "sender chain", "latest block", "load",
                       "swap contract", "receiver chain", "store",
                       "token contract", "start", "running"}
BY DEF AtStart, AtToken, AtStore, AtReceiver, AtSender, AtBlockStore

\* What is read from the files is well typed.
LEMMA SetupTyped ==
    ASSUME setup \in Setup
    PROVE  /\ setup.json \in BOOLEAN /\ setup.chains \in 0..2
           /\ setup.passwords \in Seq({"right", "wrong", ""})
           /\ setup.file \in Nat \cup {NoFile, EmptyFile}
           /\ setup.confirmations \in Nat \cup {NaN}
           /\ setup.erc20 \in Address /\ setup.swap \in Address
           /\ LoadWanted \in BOOLEAN /\ IsLoaded = LoadWanted
BY DEF Setup, LoadWanted, IsLoaded

\* A process that ends, or begins again, has established nothing.
LEMMA FreshInv ==
    ASSUME StartTypeOK, NEW p \in {"config", "panic", "exit"}, Fresh(p), faults' \in Nat
    PROVE  StartInv'
<1>1. /\ pc' = p /\ conf' = NoConf /\ sender' = "none" /\ startBlock' = NoBlock
      /\ background' = FALSE /\ setup' = setup /\ height' = height
  BY DEF Fresh
<1>2. NoConf \in [loaded : BOOLEAN,
                  password : [0..1 -> {"right", "wrong", ""}], confirmations : Nat]
  BY DEF NoConf
<1>3. StartTypeOK'
  BY <1>1, <1>2 DEF StartTypeOK, Pc, Senders
<1>4. ConfigRead' /\ SenderKeyRead' /\ ReceiverKeyRead'
  BY <1>1, Places DEF ConfigRead, SenderKeyRead, ReceiverKeyRead
<1>5. SenderBuilt' /\ ReceiverBuilt'
  BY <1>1, Places DEF SenderBuilt, ReceiverBuilt
<1> QED
  BY <1>3, <1>4, <1>5 DEF StartInv

LEMMA FaultType == ASSUME StartTypeOK, Fault \/ NoFault PROVE faults' \in Nat
<1>1. faults \in Nat
  BY DEF StartTypeOK
<1> QED
  BY <1>1 DEF Fault, NoFault

\* A line of the file that Go counts from zero.
LEMMA LineType ==
    ASSUME NEW T, NEW s \in Seq(T), NEW c \in Nat, c < Len(s)
    PROVE  s[c + 1] \in T
<1>1. c + 1 \in 1..Len(s)
  OBVIOUS
<1> QED
  BY <1>1

LEMMA PanicInv == ASSUME StartTypeOK, Panic, Fault \/ NoFault PROVE StartInv'
BY FaultType, FreshInv DEF Panic

LEMMA InitInv == Init => StartInv
<1> SUFFICES ASSUME Init PROVE StartInv
  OBVIOUS
<1>1. NoConf \in [loaded : BOOLEAN,
                  password : [0..1 -> {"right", "wrong", ""}], confirmations : Nat]
  BY DEF NoConf
<1>2. setup \in Setup /\ height \in Nat /\ faults \in Nat
  BY StartupAssumption DEF Init
<1>3. StartTypeOK
  BY <1>1, <1>2 DEF Init, StartTypeOK, Pc, Senders
<1>4. pc = "config" /\ sender = "none" /\ background = FALSE
  BY DEF Init
<1>5. ConfigRead /\ SenderKeyRead /\ ReceiverKeyRead
  BY <1>4, Places DEF ConfigRead, SenderKeyRead, ReceiverKeyRead
<1>6. SenderBuilt /\ ReceiverBuilt
  BY <1>4, Places DEF SenderBuilt, ReceiverBuilt
<1> QED
  BY <1>3, <1>5, <1>6 DEF StartInv

LEMMA GetConfigInv == StartInv /\ GetConfig => StartInv'
<1> SUFFICES ASSUME StartInv, GetConfig PROVE StartInv'
  OBVIOUS
<1>1. StartTypeOK /\ NoFault /\ pc = "config"
  BY DEF StartInv, GetConfig, LoadConfig
<1>2. CASE Fresh("exit") \/ Panic
  BY <1>1, <1>2, FaultType, FreshInv, PanicInv
<1>3. CASE /\ setup.json /\ ~TooManyLines
           /\ conf' = [NoConf EXCEPT !.loaded = IsLoaded,
                                     !.password = [c \in 0..1 |-> ReadPassword(c)]]
           /\ pc' = "block store"
           /\ UNCHANGED <<setup, sender, startBlock, background, height>>
  <2>1. setup \in Setup
    BY <1>1 DEF StartTypeOK
  <2>2. ASSUME NEW c \in 0..1 PROVE ReadPassword(c) \in {"right", "wrong", ""}
    <3>1. setup.passwords \in Seq({"right", "wrong", ""})
      BY <2>1, SetupTyped
    <3>2. CASE c < Len(setup.passwords)
      <4>1. c \in Nat
        OBVIOUS
      <4>2. setup.passwords[c + 1] \in {"right", "wrong", ""}
        BY <3>1, <3>2, <4>1, LineType
      <4> QED
        BY <3>2, <4>2 DEF ReadPassword, ParsePasswordFile
    <3> QED
      BY <3>2 DEF ReadPassword, ParsePasswordFile
  <2>3. conf' = [loaded |-> LoadWanted, password |-> [c \in 0..1 |-> ReadPassword(c)],
                 confirmations |-> 0]
    BY <1>3, <2>1, SetupTyped DEF NoConf
  <2>4. conf' \in [loaded : BOOLEAN,
                   password : [0..1 -> {"right", "wrong", ""}], confirmations : Nat]
    BY <2>1, <2>2, <2>3, SetupTyped
  <2>5. StartTypeOK'
    BY <1>1, <1>3, <2>4 DEF StartTypeOK, Pc, NoFault
  <2>6. ConfigRead'
    <3>1. /\ conf'.loaded = LoadWanted
          /\ conf'.password = [c \in 0..1 |-> ReadPassword(c)]
      BY <2>3
    <3>2. setup' = setup /\ LoadWanted' = LoadWanted /\ TooManyLines' = TooManyLines
      BY <1>3 DEF LoadWanted, TooManyLines, ParsePasswordFile
    <3>3. [c \in 0..1 |-> ReadPassword(c)]' = [c \in 0..1 |-> ReadPassword(c)]
      BY <1>3 DEF ReadPassword, ParsePasswordFile
    <3> QED
      BY <1>3, <3>1, <3>2, <3>3 DEF ConfigRead
  <2>7. SenderKeyRead' /\ ReceiverKeyRead'
    BY <1>3, Places DEF SenderKeyRead, ReceiverKeyRead
  <2>8. sender = "none" /\ background = FALSE
    BY <1>1, Places DEF StartInv, SenderBuilt, ReceiverBuilt, StartTypeOK
  <2>9. SenderBuilt' /\ ReceiverBuilt'
    BY <1>3, <2>8, Places DEF SenderBuilt, ReceiverBuilt
  <2> QED
    BY <2>5, <2>6, <2>7, <2>9 DEF StartInv
<1> QED
  BY <1>2, <1>3 DEF GetConfig, LoadConfig

LEMMA NewBlockstoreInv == StartInv /\ NewBlockstore => StartInv'
<1> SUFFICES ASSUME StartInv, NewBlockstore PROVE StartInv'
  OBVIOUS
<1>1. StartTypeOK /\ NoFault /\ pc = "block store"
  BY DEF StartInv, NewBlockstore
<1>2. CASE Panic
  BY <1>1, <1>2, PanicInv
<1>3. CASE Goto("sender chain") /\ UNCHANGED <<sender, startBlock>>
  <2>1. StartTypeOK'
    BY <1>1, <1>3 DEF Goto, StartTypeOK, Pc, NoFault
  <2>2. ConfigRead'
    BY <1>1, <1>3, Places
       DEF StartInv, ConfigRead, Goto, TooManyLines, ParsePasswordFile, LoadWanted, ReadPassword
  <2>3. SenderKeyRead' /\ ReceiverKeyRead'
    BY <1>3, Places DEF Goto, SenderKeyRead, ReceiverKeyRead
  <2>4. sender = "none" /\ background = FALSE
    BY <1>1, Places DEF StartInv, SenderBuilt, ReceiverBuilt, StartTypeOK
  <2>5. SenderBuilt' /\ ReceiverBuilt'
    BY <1>3, <2>4, Places DEF Goto, SenderBuilt, ReceiverBuilt
  <2> QED
    BY <2>1, <2>2, <2>3, <2>5 DEF StartInv
<1> QED
  BY <1>2, <1>3 DEF NewBlockstore

\* A step that neither reads the configuration again nor touches the sender
\* and the listener keeps what was said of them.
LEMMA SetupKept ==
    ASSUME StartInv, pc \in AtBlockStore,
           UNCHANGED <<setup, conf>>
    PROVE  ConfigRead'
BY DEF StartInv, ConfigRead, TooManyLines, ParsePasswordFile, LoadWanted, ReadPassword

LEMMA NewSenderChainInv == StartInv /\ NewSenderChain => StartInv'
<1> SUFFICES ASSUME StartInv, NewSenderChain PROVE StartInv'
  OBVIOUS
<1>1. StartTypeOK /\ pc = "sender chain"
  BY DEF StartInv, NewSenderChain
<1>2. CASE Panic /\ (Fault \/ NoFault)
  BY <1>1, <1>2, PanicInv
<1>3. CASE /\ 0 < setup.chains /\ GenerateKeyPair(0) /\ setup.gas
           /\ Goto("latest block") /\ NoFault /\ UNCHANGED <<sender, startBlock>>
  <2>1. StartTypeOK'
    BY <1>1, <1>3 DEF Goto, StartTypeOK, Pc, NoFault
  <2>2. ConfigRead'
    BY <1>1, <1>3, Places, SetupKept DEF Goto
  <2>3. SenderKeyRead' /\ ReceiverKeyRead'
    BY <1>3, Places DEF Goto, SenderKeyRead, ReceiverKeyRead, GenerateKeyPair
  <2>4. sender = "none" /\ background = FALSE
    BY <1>1, Places DEF StartInv, SenderBuilt, ReceiverBuilt, StartTypeOK
  <2>5. SenderBuilt' /\ ReceiverBuilt'
    BY <1>3, <2>4, Places DEF Goto, SenderBuilt, ReceiverBuilt
  <2> QED
    BY <2>1, <2>2, <2>3, <2>5 DEF StartInv
<1> QED
  BY <1>2, <1>3 DEF NewSenderChain, NewChain

LEMMA LatestBlockInv == StartInv /\ LatestBlockNumber => StartInv'
<1> SUFFICES ASSUME StartInv, LatestBlockNumber PROVE StartInv'
  OBVIOUS
<1>1. /\ StartTypeOK /\ pc = "latest block" /\ (Fault \/ NoFault)
      /\ UNCHANGED <<setup, background, height>>
  BY DEF StartInv, LatestBlockNumber
<1>2. setup \in Setup /\ height \in Nat
  BY <1>1 DEF StartTypeOK
<1>3. PICK n \in Nat : conf' = [conf EXCEPT !.confirmations = n]
  BY <1>2, SetupTyped, StartupAssumption DEF LatestBlockNumber
<1>4. /\ conf'.loaded = conf.loaded /\ conf'.password = conf.password
      /\ conf' \in [loaded : BOOLEAN,
                    password : [0..1 -> {"right", "wrong", ""}], confirmations : Nat]
  BY <1>1, <1>3 DEF StartTypeOK
<1>5. sender = "none" /\ background = FALSE
  BY <1>1, Places DEF StartInv, SenderBuilt, ReceiverBuilt, StartTypeOK
<1>6. \/ startBlock' = height /\ pc' = "load" /\ sender' = sender
      \/ sender' = "nil" /\ pc' = "receiver chain" /\ startBlock' = startBlock
  BY DEF LatestBlockNumber
<1>7. StartTypeOK'
  BY <1>1, <1>2, <1>4, <1>5, <1>6, FaultType DEF StartTypeOK, Pc, Senders
<1>8. ConfigRead'
  BY <1>1, <1>4, Places
     DEF StartInv, ConfigRead, TooManyLines, ParsePasswordFile, LoadWanted, ReadPassword
<1>9. SenderKeyRead' /\ ReceiverKeyRead'
  BY <1>1, <1>4, <1>6, Places
     DEF StartInv, SenderKeyRead, ReceiverKeyRead, GenerateKeyPair
<1>10. SenderBuilt'
  <2>1. CASE startBlock' = height /\ pc' = "load" /\ sender' = "none"
    <3>1. startBlock' \in 0..height'
      <4>1. height' = startBlock' /\ height' \in Nat
        BY <1>1, <1>2, <2>1
      <4> QED
        BY <4>1
    <3> QED
      BY <2>1, <3>1 DEF SenderBuilt
  <2>2. CASE sender' = "nil" /\ pc' = "receiver chain"
    BY <2>2, Places DEF SenderBuilt
  <2> QED
    BY <1>5, <1>6, <2>1, <2>2
<1>11. ReceiverBuilt'
  <2>1. pc' \notin AtToken /\ pc' \notin AtStart /\ background' = FALSE
    BY <1>1, <1>5, <1>6, Places
  <2> QED
    BY <2>1, Places DEF ReceiverBuilt, AtToken, AtStart
<1> QED
  BY <1>7, <1>8, <1>9, <1>10, <1>11 DEF StartInv

LEMMA LoadInv == StartInv /\ TryLoadLatestBlock => StartInv'
<1> SUFFICES ASSUME StartInv, TryLoadLatestBlock PROVE StartInv'
  OBVIOUS
<1>1. StartTypeOK /\ pc = "load"
  BY DEF StartInv, TryLoadLatestBlock
<1>2. setup \in Setup /\ height \in Nat /\ conf.loaded = LoadWanted
      /\ startBlock \in 0..height
  BY <1>1, Places DEF StartTypeOK, StartInv, ConfigRead, SenderBuilt
<1>3. CASE Panic /\ (Fault \/ NoFault)
  BY <1>1, <1>3, PanicInv
<1>4. CASE /\ Goto("swap contract") /\ UNCHANGED sender /\ NoFault
           /\ \/ ~conf.loaded /\ startBlock' = startBlock
              \/ /\ conf.loaded /\ setup.home /\ LoadedBlock # NoBlock
                 /\ startBlock' = LoadedBlock
  <2>1. /\ setup' = setup /\ height' = height /\ conf' = conf
        /\ pc' = "swap contract" /\ background' = background
    BY <1>4 DEF Goto
  <2>2. LoadedBlock \in Nat \cup {NoBlock}
    BY <1>2, SetupTyped DEF LoadedBlock
  <2>3. sender = "none" /\ background = FALSE
    BY <1>1, Places DEF StartInv, SenderBuilt, ReceiverBuilt, StartTypeOK
  <2>4. StartTypeOK'
    BY <1>1, <1>2, <1>4, <2>1, <2>2, <2>3, FaultType DEF StartTypeOK, Pc, Senders
  <2>5. LoadWanted' = LoadWanted /\ LoadedBlock' = LoadedBlock
    BY <2>1 DEF LoadWanted, LoadedBlock
  <2>6. BlockLoaded'
    <3>1. CASE ~conf.loaded
      BY <1>2, <1>4, <2>1, <2>5, <3>1 DEF BlockLoaded
    <3>2. CASE conf.loaded
      <4>1. setup.file # EmptyFile
        BY <1>4, <3>2, StartupAssumption DEF LoadedBlock
      <4>2. LoadWanted' /\ setup' = setup /\ setup.home /\ startBlock' = LoadedBlock'
        BY <1>2, <1>4, <2>1, <2>5, <3>2
      <4> QED
        BY <4>1, <4>2 DEF BlockLoaded
    <3> QED
      BY <3>1, <3>2
  <2>7. ConfigRead'
    BY <1>1, <2>1, Places, SetupKept
  <2>8. SenderKeyRead' /\ ReceiverKeyRead'
    BY <1>1, <2>1, Places DEF StartInv, SenderKeyRead, ReceiverKeyRead, GenerateKeyPair
  <2>9. SenderBuilt' /\ ReceiverBuilt'
    BY <1>4, <2>1, <2>3, <2>6, Places DEF SenderBuilt, ReceiverBuilt
  <2> QED
    BY <2>4, <2>7, <2>8, <2>9 DEF StartInv
<1> QED
  BY <1>3, <1>4 DEF TryLoadLatestBlock

LEMMA SwapContractInv == StartInv /\ SetSenderBridgeContract => StartInv'
<1> SUFFICES ASSUME StartInv, SetSenderBridgeContract PROVE StartInv'
  OBVIOUS
<1>1. StartTypeOK /\ pc = "swap contract" /\ BlockLoaded
  BY DEF StartInv, SetSenderBridgeContract, SenderBuilt
<1>2. CASE Panic /\ (Fault \/ NoFault)
  BY <1>1, <1>2, PanicInv
<1>3. CASE /\ Goto("receiver chain") /\ UNCHANGED startBlock /\ NoFault
           /\ \/ sender' = "bare"
              \/ sender' = "ready" /\ setup.swap = "code"
  <2>1. /\ setup' = setup /\ height' = height /\ conf' = conf
        /\ pc' = "receiver chain" /\ background' = background
    BY <1>3 DEF Goto
  <2>2. background = FALSE
    BY <1>1, Places DEF StartInv, ReceiverBuilt, StartTypeOK
  <2>3. setup \in Setup /\ height \in Nat
    BY <1>1 DEF StartTypeOK
  <2>4. startBlock \in Nat
    <3>1. setup.file # EmptyFile => LoadedBlock \in Nat
      BY <2>3, SetupTyped DEF LoadedBlock
    <3>2. 0..height \subseteq Nat
      BY <2>3
    <3> QED
      BY <1>1, <3>1, <3>2 DEF BlockLoaded
  <2>5. StartTypeOK'
    BY <1>1, <1>3, <2>1, <2>4, FaultType DEF StartTypeOK, Pc, Senders
  <2>6. BlockLoaded'
    BY <1>1, <1>3, <2>1 DEF BlockLoaded, LoadWanted, LoadedBlock
  <2>7. ConfigRead'
    BY <1>1, <2>1, Places, SetupKept
  <2>8. SenderKeyRead' /\ ReceiverKeyRead'
    BY <1>1, <2>1, Places DEF StartInv, SenderKeyRead, ReceiverKeyRead, GenerateKeyPair
  <2>9. SenderBuilt' /\ ReceiverBuilt'
    BY <1>3, <2>1, <2>2, <2>6, Places DEF SenderBuilt, ReceiverBuilt
  <2> QED
    BY <2>5, <2>7, <2>8, <2>9 DEF StartInv
<1> QED
  BY <1>2, <1>3 DEF SetSenderBridgeContract, EnsureHasBytecode

\* From the receiver's chain on the sender is what it is: a step that keeps
\* it, and goes on among those places, keeps what was said of it.
LEMMA SenderKept ==
    ASSUME StartInv, pc \in AtReceiver, pc' \in AtReceiver,
           UNCHANGED <<setup, conf, sender, startBlock, height>>
    PROVE  ConfigRead' /\ SenderKeyRead' /\ SenderBuilt'
<1>1. ConfigRead'
  BY Places, SetupKept
<1>2. SenderKeyRead'
  BY Places DEF StartInv, SenderKeyRead, GenerateKeyPair
<1>3. BlockLoaded' = BlockLoaded
  BY DEF BlockLoaded, LoadWanted, LoadedBlock
<1>4. pc' # "load" /\ pc' # "swap contract"
  BY Places
<1>5. SenderBuilt'
  BY <1>3, <1>4 DEF StartInv, SenderBuilt, AtReceiver, AtStore, AtToken, AtStart
<1> QED
  BY <1>1, <1>2, <1>5

LEMMA NewReceiverChainInv == StartInv /\ NewReceiverChain => StartInv'
<1> SUFFICES ASSUME StartInv, NewReceiverChain PROVE StartInv'
  OBVIOUS
<1>1. StartTypeOK /\ pc = "receiver chain"
  BY DEF StartInv, NewReceiverChain
<1>2. CASE Panic /\ (Fault \/ NoFault)
  BY <1>1, <1>2, PanicInv
<1>3. CASE /\ 1 < setup.chains /\ GenerateKeyPair(1) /\ setup.gas
           /\ Goto("store") /\ NoFault /\ UNCHANGED <<sender, startBlock>>
  <2>1. StartTypeOK'
    BY <1>1, <1>3 DEF Goto, StartTypeOK, Pc, NoFault
  <2>2. ConfigRead' /\ SenderKeyRead' /\ SenderBuilt'
    BY <1>1, <1>3, Places, SenderKept DEF Goto
  <2>3. ReceiverKeyRead'
    BY <1>3 DEF Goto, ReceiverKeyRead, GenerateKeyPair
  <2>4. background = FALSE
    BY <1>1, Places DEF StartInv, ReceiverBuilt, StartTypeOK
  <2>5. ReceiverBuilt'
    BY <1>3, <2>4, Places DEF Goto, ReceiverBuilt
  <2> QED
    BY <2>1, <2>2, <2>3, <2>5 DEF StartInv
<1> QED
  BY <1>2, <1>3 DEF NewReceiverChain, NewChain

LEMMA NewStoreInv == StartInv /\ NewStore => StartInv'
<1> SUFFICES ASSUME StartInv, NewStore PROVE StartInv'
  OBVIOUS
<1>1. StartTypeOK /\ pc = "store" /\ NoFault
  BY DEF StartInv, NewStore
<1>2. CASE Panic
  BY <1>1, <1>2, PanicInv
<1>3. CASE setup.dsn /\ Goto("token contract") /\ UNCHANGED <<sender, startBlock>>
  <2>1. StartTypeOK'
    BY <1>1, <1>3 DEF Goto, StartTypeOK, Pc, NoFault
  <2>2. ConfigRead' /\ SenderKeyRead' /\ SenderBuilt'
    BY <1>1, <1>3, Places, SenderKept DEF Goto
  <2>3. ReceiverKeyRead'
    BY <1>1, <1>3, Places DEF StartInv, Goto, ReceiverKeyRead, GenerateKeyPair
  <2>4. background = FALSE
    BY <1>1, Places DEF StartInv, ReceiverBuilt, StartTypeOK
  <2>5. ReceiverBuilt'
    BY <1>3, <2>4, Places DEF Goto, ReceiverBuilt
  <2> QED
    BY <2>1, <2>2, <2>3, <2>5 DEF StartInv
<1> QED
  BY <1>2, <1>3 DEF NewStore

LEMMA TokenContractInv == StartInv /\ SetReceiverErc20Contract => StartInv'
<1> SUFFICES ASSUME StartInv, SetReceiverErc20Contract PROVE StartInv'
  OBVIOUS
<1>1. StartTypeOK /\ pc = "token contract"
  BY DEF StartInv, SetReceiverErc20Contract
<1>2. CASE Panic /\ (Fault \/ NoFault)
  BY <1>1, <1>2, PanicInv
<1>3. CASE /\ setup.erc20 = "" \/ EnsureHasBytecode(setup.erc20)
           /\ background' = TRUE /\ pc' = "start" /\ NoFault
           /\ UNCHANGED <<setup, conf, sender, startBlock, height>>
  <2>1. StartTypeOK'
    BY <1>1, <1>3 DEF StartTypeOK, Pc, NoFault
  <2>2. ConfigRead' /\ SenderKeyRead' /\ SenderBuilt'
    BY <1>1, <1>3, Places, SenderKept
  <2>3. ReceiverKeyRead'
    BY <1>1, <1>3, Places DEF StartInv, ReceiverKeyRead, GenerateKeyPair
  <2>4. ReceiverBuilt'
    BY <1>1, <1>3, Places DEF StartInv, ReceiverBuilt, EnsureHasBytecode
  <2> QED
    BY <2>1, <2>2, <2>3, <2>4 DEF StartInv
<1> QED
  BY <1>2, <1>3 DEF SetReceiverErc20Contract

LEMMA StartStepInv == StartInv /\ Start => StartInv'
<1> SUFFICES ASSUME StartInv, Start PROVE StartInv'
  OBVIOUS
<1>1. /\ StartTypeOK /\ pc = "start" /\ NoFault
      /\ Goto("running") /\ UNCHANGED <<sender, startBlock>>
  BY DEF StartInv, Start
<1>2. StartTypeOK'
  BY <1>1 DEF Goto, StartTypeOK, Pc, NoFault
<1>3. ConfigRead' /\ SenderKeyRead' /\ SenderBuilt'
  BY <1>1, Places, SenderKept DEF Goto
<1>4. ReceiverKeyRead'
  BY <1>1, Places DEF StartInv, Goto, ReceiverKeyRead, GenerateKeyPair
<1>5. ReceiverBuilt'
  BY <1>1, Places DEF StartInv, Goto, ReceiverBuilt
<1> QED
  BY <1>2, <1>3, <1>4, <1>5 DEF StartInv

\* A step that leaves the process alone keeps the invariant.
LEMMA ProcessKept ==
    ASSUME StartInv, UNCHANGED <<setup, processVars>>,
           height' \in Nat, height <= height', faults' \in Nat
    PROVE  StartInv'
<1>1. StartTypeOK /\ height \in Nat
  BY DEF StartInv, StartTypeOK
<1>2. /\ setup' = setup /\ pc' = pc /\ conf' = conf /\ sender' = sender
      /\ startBlock' = startBlock /\ background' = background
  BY DEF processVars
<1>3. StartTypeOK'
  BY <1>1, <1>2 DEF StartTypeOK
<1>4. ConfigRead' /\ SenderKeyRead' /\ ReceiverKeyRead' /\ ReceiverBuilt'
  BY <1>2 DEF StartInv, ConfigRead, SenderKeyRead, ReceiverKeyRead, ReceiverBuilt,
              GenerateKeyPair, TooManyLines, ParsePasswordFile, LoadWanted, ReadPassword
<1>5. startBlock \in 0..height => startBlock' \in 0..height'
  BY <1>1, <1>2
<1>6. BlockLoaded => BlockLoaded'
  BY <1>2, <1>5 DEF BlockLoaded, LoadWanted, LoadedBlock
<1>7. SenderBuilt'
  BY <1>2, <1>5, <1>6, Places DEF StartInv, SenderBuilt
<1> QED
  BY <1>3, <1>4, <1>7 DEF StartInv

LEMMA StepInv == StartInv /\ [Next]_vars => StartInv'
<1> SUFFICES ASSUME StartInv, [Next]_vars PROVE StartInv'
  OBVIOUS
<1>1. CASE PollNil \/ Kill \/ Relaunch
  BY <1>1, PanicInv, FaultType, FreshInv DEF PollNil, Kill, Relaunch, StartInv
<1>2. CASE MineBlock \/ UNCHANGED vars
  <2>1. height \in Nat /\ faults \in Nat
    BY DEF StartInv, StartTypeOK
  <2>2. /\ UNCHANGED <<setup, processVars>> /\ faults' = faults
        /\ height' = height \/ height' = height + 1
    BY <1>2 DEF MineBlock, vars
  <2> QED
    BY <2>1, <2>2, ProcessKept
<1> QED
  BY <1>1, <1>2, GetConfigInv, NewBlockstoreInv, NewSenderChainInv, LatestBlockInv,
     LoadInv, SwapContractInv, NewReceiverChainInv, NewStoreInv, TokenContractInv,
     StartStepInv
     DEF Next, MainStep
-----------------------------------------------------------------------------

LEMMA Invariance == Spec => []StartInv
BY InitInv, StepInv, PTL DEF Spec

\* Whatever the flags, the files and the failing calls, a sender that came
\* out of NewSenderChain has a start block, never the nil of a torn file.
THEOREM StartTyped == Spec => []StartTypeOK
<1>1. StartInv => StartTypeOK
  BY DEF StartInv
<1> QED
  BY <1>1, Invariance, PTL

LEMMA LengthIsNat ==
    ASSUME NEW T, NEW s \in Seq(T)
    PROVE  Len(s) \in Nat
OBVIOUS

\* At least two lines for at most two chains.
LEMMA TwoLines ==
    ASSUME NEW n \in 0..2, NEW l \in Nat, 1 < n, 1 < l, ~(l > n)
    PROVE  n = 2 /\ l = 2
OBVIOUS

LEMMA CheckedWhenUp == StartInv /\ Up => Checked
<1> SUFFICES ASSUME StartInv, Up PROVE Checked
  OBVIOUS
<1>1. pc = "running" /\ sender = "ready" /\ StartTypeOK /\ setup \in Setup
  BY DEF Up, StartInv, StartTypeOK
<1>2. /\ setup.json /\ ~TooManyLines /\ setup.gas /\ setup.keys /\ setup.dsn
      /\ 1 < setup.chains /\ conf.password[0] = "right" /\ conf.password[1] = "right"
      /\ conf.password = [c \in 0..1 |-> ReadPassword(c)]
  BY <1>1, Places DEF StartInv, ConfigRead, SenderKeyRead, ReceiverKeyRead,
                      ReceiverBuilt, GenerateKeyPair, ReadFromFileAndDecrypt
<1>3. ReadPassword(0) = "right" /\ ReadPassword(1) = "right"
  BY <1>2
<1>4. /\ setup.chains = 2 /\ Len(setup.passwords) = 2
      /\ setup.passwords[1] = "right" /\ setup.passwords[2] = "right"
  <2>1. setup.passwords \in Seq({"right", "wrong", ""}) /\ setup.chains \in 0..2
    BY <1>1, SetupTyped
  <2>2. Len(setup.passwords) \in Nat
    BY <2>1, LengthIsNat
  <2>3. 1 < Len(setup.passwords)
    BY <1>3 DEF ReadPassword, ParsePasswordFile
  <2>4. ~(Len(setup.passwords) > setup.chains) /\ 1 < setup.chains
    BY <1>2 DEF TooManyLines, ParsePasswordFile
  <2>5. setup.chains = 2 /\ Len(setup.passwords) = 2
    BY <2>1, <2>2, <2>3, <2>4, TwoLines
  <2> QED
    BY <1>3, <2>3, <2>5 DEF ReadPassword, ParsePasswordFile
<1>5. /\ setup.swap = "code" /\ setup.erc20 \in {"code", ""}
      /\ LoadWanted => setup.home /\ setup.file # EmptyFile
  BY <1>1, Places DEF StartInv, SenderBuilt, ReceiverBuilt, BlockLoaded
<1> QED
  BY <1>2, <1>4, <1>5 DEF Checked

\* The errors that are logged and dropped on the way never add up to a bridge
\* that polls with a key, a number, BerithSwap, the database or the block of
\* --load missing: the only one that gets that far is the empty address of the
\* token.
THEOREM OnlyCheckedComesUp == Spec => []UpIsChecked
<1>1. StartInv => UpIsChecked
  BY CheckedWhenUp DEF UpIsChecked
<1> QED
  BY <1>1, Invariance, PTL

\* A step that is not Start and not a fresh process leaves the bridge down or
\* up as it was.
LEMMA QuietStep ==
    ASSUME MainStep, ~Start, ~PollNil
    PROVE  \/ \E p \in {"config", "panic", "exit"} : Fresh(p)
           \/ /\ pc # "running" /\ pc' # "running"
              /\ setup' = setup /\ height' = height
<1>1. CASE GetConfig
  BY <1>1 DEF GetConfig, Panic
<1>2. CASE NewBlockstore
  BY <1>2 DEF NewBlockstore, Panic, Goto
<1>3. CASE NewSenderChain
  BY <1>3 DEF NewSenderChain, NewChain, Panic, Goto
<1>4. CASE LatestBlockNumber
  BY <1>4 DEF LatestBlockNumber
<1>5. CASE TryLoadLatestBlock
  BY <1>5 DEF TryLoadLatestBlock, Panic, Goto
<1>6. CASE SetSenderBridgeContract
  BY <1>6 DEF SetSenderBridgeContract, Panic, Goto
<1>7. CASE NewReceiverChain
  BY <1>7 DEF NewReceiverChain, NewChain, Panic, Goto
<1>8. CASE NewStore
  BY <1>8 DEF NewStore, Panic, Goto
<1>9. CASE SetReceiverErc20Contract
  BY <1>9 DEF SetReceiverErc20Contract, Panic
<1> QED
  BY <1>1, <1>2, <1>3, <1>4, <1>5, <1>6, <1>7, <1>8, <1>9 DEF MainStep

\* The first poll begins where Bridge takes it to begin: the steps from main
\* to there amount to one step of Launch.
THEOREM LaunchRefinement == Spec => ImplementsLaunch
<1> DEFINE first == IF Up THEN startBlock ELSE NoBlock
<1>1. Init => L!Init
  <2> SUFFICES ASSUME Init PROVE L!Init
    OBVIOUS
  <2>1. setup \in Setup /\ height \in Nat /\ ~Up
    BY StartupAssumption DEF Init, Up
  <2> QED
    BY <2>1, SetupTyped DEF L!Init, Up
<1>2. StartInv /\ [Next]_vars => [L!Next]_(L!launchVars)
  <2> SUFFICES ASSUME StartInv, [Next]_vars
               PROVE  L!Next \/ UNCHANGED L!launchVars
    OBVIOUS
  <2>1. StartTypeOK /\ setup \in Setup
    BY DEF StartInv, StartTypeOK
  <2>2. ASSUME NEW p \in {"config", "panic", "exit"}, Fresh(p) PROVE L!Next
    <3>1. ~Up' /\ setup' = setup /\ height' = height /\ LoadWanted' = LoadWanted
      BY <2>2 DEF Fresh, Up, LoadWanted
    <3> QED
      BY <3>1 DEF L!Next, L!Down
  <2>3. CASE Start
    <3>1. /\ ~Up /\ pc = "start" /\ pc' = "running" /\ setup' = setup
          /\ height' = height /\ sender' = sender /\ startBlock' = startBlock
          /\ LoadWanted' = LoadWanted
      BY <2>3 DEF Start, Goto, Up, LoadWanted
    <3>2. CASE sender # "ready"
      BY <3>1, <3>2 DEF Up, L!launchVars
    <3>3. CASE sender = "ready"
      <4>1. BlockLoaded /\ Up'
        BY <3>1, <3>3 DEF StartInv, SenderBuilt, Up
      <4>2. CASE LoadWanted
        <5>1. setup.file # EmptyFile /\ startBlock = LoadedBlock
          BY <4>1, <4>2 DEF BlockLoaded
        <5>2. L!StartLoaded
          BY <3>1, <4>1, <4>2, <5>1 DEF L!StartLoaded, L!Begin, LoadedBlock
        <5> QED
          BY <5>2 DEF L!Next
      <4>3. CASE ~LoadWanted
        <5>1. startBlock \in 0..height
          BY <4>1, <4>3 DEF BlockLoaded
        <5>2. L!StartLatest
          BY <3>1, <4>1, <4>3, <5>1 DEF L!StartLatest, L!Begin
        <5> QED
          BY <5>2 DEF L!Next
      <4> QED
        BY <4>2, <4>3
    <3> QED
      BY <3>2, <3>3
  <2>4. CASE PollNil \/ Kill \/ Relaunch
    BY <2>2, <2>4 DEF PollNil, Panic, Kill, Relaunch
  <2>5. CASE MineBlock
    <3>1. height' = height + 1 /\ setup' = setup /\ Up' = Up /\ startBlock' = startBlock
          /\ LoadWanted' = LoadWanted
      BY <2>5 DEF MineBlock, processVars, Up, LoadWanted
    <3> QED
      BY <3>1 DEF L!Next, L!Grow
  <2>6. CASE MainStep /\ ~Start /\ ~PollNil
    <3>1. CASE \E p \in {"config", "panic", "exit"} : Fresh(p)
      BY <2>2, <3>1
    <3>2. CASE /\ pc # "running" /\ pc' # "running"
               /\ setup' = setup /\ height' = height
      BY <3>2 DEF Up, LoadWanted, L!launchVars
    <3> QED
      BY <2>6, <3>1, <3>2, QuietStep
  <2>7. CASE UNCHANGED vars
    BY <2>7 DEF vars, processVars, Up, LoadWanted, L!launchVars
  <2> QED
    BY <2>3, <2>4, <2>5, <2>6, <2>7 DEF Next
<1> QED
  BY <1>1, <1>2, Invariance, PTL DEF Spec, ImplementsLaunch, L!Spec
==============================================================================
