------------------------------- MODULE Startup -------------------------------
(***************************************************************************)
(* From main() to the first poll: config.GetConfig, bridge.NewBridge with  *)
(* NewSenderChain and NewReceiverChain, and Bridge.Start, in the order of  *)
(* the code and with each way it ends early.  Some errors end the process, *)
(* some are logged and dropped; the module tells them apart.  What the     *)
(* process finds (flags, files, contracts) is one record, setup, that      *)
(* stays as it is while the process is started again and again.            *)
(***************************************************************************)
EXTENDS Integers, Sequences

CONSTANTS
    Setups,        \* the setups of this instance, a subset of Setup
    NoFile, EmptyFile,            \* a block file that is missing, or truncated
    NoBlock,                      \* no start block yet
    NaN,                          \* a blockConfirmations that does not parse
    DefaultBlockConfirmations,    \* 10 in the code
    MaxHeight,     \* bound: the last block that is mined
    MaxFaults      \* bound: failing calls and kills in a behaviour

\* An address of a contract: empty, of an account without code, or right.
Address == {"", "no code", "code"}

Setup == [
    json          : BOOLEAN,    \* config.json opens, is named so and parses
    chains        : 0..2,       \* how many entries "chains" has
    jsonLoaded    : BOOLEAN,    \* "IsLoaded" of the file
    loadFlag      : BOOLEAN,    \* --load, true unless given as false
    passwords     : Seq({"right", "wrong", ""}),   \* lines; none if unreadable
    keys          : BOOLEAN,    \* a key file matches each owner
    gas           : BOOLEAN,    \* gasLimit and maxGasPrice are numbers
    confirmations : Nat \cup {NaN},
    home          : BOOLEAN,    \* the block store has a path
    file          : Nat \cup {NoFile, EmptyFile},
    swap          : Address,
    erc20         : Address,
    dsn           : BOOLEAN ]   \* the driver accepts the data source name

ASSUME StartupAssumption ==
    /\ Setups \subseteq Setup
    /\ DefaultBlockConfirmations \in Nat /\ MaxHeight \in Nat /\ MaxFaults \in Nat
    /\ NoBlock \notin Nat /\ NaN \notin Nat
    /\ NoFile \notin Nat /\ EmptyFile \notin Nat /\ NoFile # EmptyFile

VARIABLES
    setup,         \* what the process finds
    pc,            \* where main is
    conf,          \* the Config that GetConfig returned
    sender,        \* the SenderChain
    startBlock,    \* its startBlock
    background,    \* the listener that NewReceiverChain starts is running
    height,        \* the latest block of the sender's chain
    faults         \* faults so far

processVars == <<pc, conf, sender, startBlock, background>>
vars == <<setup, processVars, height, faults>>

Pc == {"config", "block store", "sender chain", "latest block", "load",
       "swap contract", "receiver chain", "store", "token contract",
       "start", "running", "panic", "exit"}

NoConf == [loaded |-> FALSE, password |-> [c \in 0..1 |-> ""], confirmations |-> 0]

\* A sender is missing, nil, without its contract, or ready.
Senders == {"none", "nil", "bare", "ready"}

Fresh(p) == /\ pc' = p /\ conf' = NoConf
            /\ sender' = "none" /\ startBlock' = NoBlock /\ background' = FALSE
            /\ UNCHANGED <<setup, height>>

Panic == Fresh("panic")

Fault == faults < MaxFaults /\ faults' = faults + 1
NoFault == UNCHANGED faults

Init ==
    /\ setup \in Setups
    /\ pc = "config" /\ conf = NoConf
    /\ sender = "none" /\ startBlock = NoBlock /\ background = FALSE
    /\ height \in 0..MaxHeight /\ faults = 0
-----------------------------------------------------------------------------
(***************************************************************************)
(* GetConfig.                                                              *)
(***************************************************************************)

\* The file opens, is named .json and parses.
LoadConfig == setup.json

\* The lines of the password file; an unreadable file is logged and has none.
ParsePasswordFile == setup.passwords

IsLoadedFlagOnly == setup.loadFlag

\* --load=false does not undo an IsLoaded that the file sets.
IsLoaded == setup.loadFlag \/ setup.jsonLoaded

TooManyLinesStrict == Len(ParsePasswordFile) >= setup.chains

\* ChainConfig[i] is indexed with every line of the password file.
TooManyLines == Len(ParsePasswordFile) > setup.chains

ReadPassword(c) ==
    IF c < Len(ParsePasswordFile) THEN ParsePasswordFile[c + 1] ELSE ""

GetConfig ==
    /\ pc = "config" /\ NoFault
    /\ \/ ~LoadConfig /\ Fresh("exit")
       \/ LoadConfig /\ TooManyLines /\ Panic
       \/ /\ LoadConfig /\ ~TooManyLines
          /\ conf' = [NoConf EXCEPT !.loaded = IsLoaded,
                                    !.password = [c \in 0..1 |-> ReadPassword(c)]]
          /\ pc' = "block store"
          /\ UNCHANGED <<setup, sender, startBlock, background, height>>
-----------------------------------------------------------------------------
(***************************************************************************)
(* NewBridge.                                                              *)
(***************************************************************************)

Goto(p) == pc' = p /\ UNCHANGED <<setup, conf, background, height>>

\* The error of NewBlockstore is logged, and the store stays nil.
NewBlockstore ==
    /\ pc = "block store" /\ NoFault
    /\ \/ setup.chains = 0 /\ Panic
       \/ setup.chains # 0 /\ Goto("sender chain") /\ UNCHANGED <<sender, startBlock>>

GenerateKeyPairAny(c) == conf.password[c] # "" /\ setup.keys

\* The key of the owner is encrypted with the right password.
ReadFromFileAndDecrypt(password) == password = "right"

GenerateKeyPair(c) ==
    /\ conf.password[c] # "" /\ setup.keys
    /\ ReadFromFileAndDecrypt(conf.password[c])

\* An error of NewChain is reported through the chain, which is nil then.
NewChain(c, next) ==
    \/ /\ ~(c < setup.chains /\ GenerateKeyPair(c) /\ setup.gas)
       /\ Panic /\ NoFault
    \/ c < setup.chains /\ GenerateKeyPair(c) /\ Panic /\ Fault
    \/ /\ c < setup.chains /\ GenerateKeyPair(c) /\ setup.gas
       /\ Goto(next) /\ NoFault /\ UNCHANGED <<sender, startBlock>>

NewSenderChain == pc = "sender chain" /\ NewChain(0, "latest block")

\* blockConfirmations, or the default; then the latest block.  When that
\* fails NewSenderChain returns nil and NewBridge goes on.
LatestBlockNumber ==
    /\ pc = "latest block"
    /\ conf' = [conf EXCEPT !.confirmations = IF setup.confirmations = NaN
                                              THEN DefaultBlockConfirmations
                                              ELSE setup.confirmations]
    /\ \/ /\ NoFault /\ startBlock' = height /\ pc' = "load"
          /\ UNCHANGED sender
       \/ /\ Fault /\ sender' = "nil" /\ pc' = "receiver chain"
          /\ UNCHANGED startBlock
    /\ UNCHANGED <<setup, background, height>>

\* TryLoadLatestBlock: nil for a file that holds no number, 0 for no file.
LoadedBlock ==
    CASE setup.file = EmptyFile -> NoBlock
      [] setup.file = NoFile    -> 0
      [] OTHER                  -> setup.file

TryLoadUnchecked ==
    /\ pc = "load" /\ NoFault
    /\ startBlock' = IF conf.loaded THEN LoadedBlock ELSE startBlock
    /\ Goto("swap contract") /\ UNCHANGED sender

TryLoadLatestBlock ==
    /\ pc = "load"
    /\ \/ /\ ~conf.loaded /\ NoFault
          /\ Goto("swap contract") /\ UNCHANGED <<sender, startBlock>>
       \/ conf.loaded /\ (~setup.home \/ LoadedBlock = NoBlock) /\ Panic /\ NoFault
       \/ conf.loaded /\ Panic /\ Fault
       \/ /\ conf.loaded /\ setup.home /\ LoadedBlock # NoBlock /\ NoFault
          /\ startBlock' = LoadedBlock
          /\ Goto("swap contract") /\ UNCHANGED sender

\* The address holds code.
EnsureHasBytecode(a) == a = "code"

\* The error for an empty address is dropped, and swapContract stays nil.
SetSenderBridgeContract ==
    /\ pc = "swap contract"
    /\ \/ /\ setup.swap = "" /\ NoFault
          /\ sender' = "bare" /\ Goto("receiver chain") /\ UNCHANGED startBlock
       \/ setup.swap # "" /\ ~EnsureHasBytecode(setup.swap) /\ Panic /\ NoFault
       \/ setup.swap # "" /\ Panic /\ Fault
       \/ /\ EnsureHasBytecode(setup.swap) /\ NoFault
          /\ sender' = "ready" /\ Goto("receiver chain") /\ UNCHANGED startBlock

NewReceiverChain == pc = "receiver chain" /\ NewChain(1, "store")

NewStore ==
    /\ pc = "store" /\ NoFault
    /\ \/ ~setup.dsn /\ Panic
       \/ setup.dsn /\ Goto("token contract") /\ UNCHANGED <<sender, startBlock>>

\* The error for an empty address is dropped, and the listener starts with
\* the contract at the zero address that InitErc20Contract made.
SetReceiverErc20Contract ==
    /\ pc = "token contract"
    /\ \/ setup.erc20 # "" /\ ~EnsureHasBytecode(setup.erc20) /\ Panic /\ NoFault
       \/ setup.erc20 # "" /\ Panic /\ Fault
       \/ /\ setup.erc20 = "" \/ EnsureHasBytecode(setup.erc20)
          /\ background' = TRUE /\ pc' = "start" /\ NoFault
          /\ UNCHANGED <<setup, conf, sender, startBlock, height>>
-----------------------------------------------------------------------------
(***************************************************************************)
(* Bridge.Start, and what becomes of the process.                          *)
(***************************************************************************)

Start == /\ pc = "start" /\ NoFault
         /\ Goto("running") /\ UNCHANGED <<sender, startBlock>>

\* pollBlocks of a nil sender, and the first block that is ready for a sender
\* without its contract: a nil pointer in a goroutine ends the process.
PollNil ==
    /\ pc = "running"
    /\ \/ sender = "nil"
       \/ sender = "bare" /\ height - startBlock >= conf.confirmations
    /\ Panic /\ NoFault

Kill == pc \notin {"panic", "exit"} /\ Fresh("exit") /\ Fault

Relaunch == pc \in {"panic", "exit"} /\ Fresh("config") /\ NoFault

MineBlock == /\ height < MaxHeight
             /\ height' = height + 1
             /\ UNCHANGED <<setup, processVars, faults>>

MainStep ==
    \/ GetConfig \/ NewBlockstore \/ NewSenderChain \/ LatestBlockNumber
    \/ TryLoadLatestBlock \/ SetSenderBridgeContract \/ NewReceiverChain
    \/ NewStore \/ SetReceiverErc20Contract \/ Start \/ PollNil

Next == MainStep \/ Kill \/ Relaunch \/ MineBlock

Spec == Init /\ [][Next]_vars

\* main goes on until it ends, and the process is started again.
FairSpec == Spec /\ WF_vars(MainStep) /\ WF_vars(Relaunch)
-----------------------------------------------------------------------------
(***************************************************************************)
(* Properties.                                                             *)
(***************************************************************************)

\* Every variable has its type, and a sender that polls has a start block: the
\* nil that TryLoadLatestBlock may return never gets into one.
StartTypeOK ==
    /\ setup \in Setup /\ pc \in Pc
    /\ conf \in [loaded : BOOLEAN,
                 password : [0..1 -> {"right", "wrong", ""}], confirmations : Nat]
    /\ sender \in Senders
    /\ startBlock \in Nat \cup {NoBlock}
    /\ background \in BOOLEAN /\ height \in Nat /\ faults \in Nat
    /\ sender \in {"bare", "ready"} => startBlock \in Nat

Up == pc = "running" /\ sender = "ready"

LoadWanted == setup.loadFlag \/ setup.jsonLoaded

\* What the start makes sure of: both keys decrypt, BerithSwap is there, a
\* block is loaded if it has to be.  Of the token it makes sure only that an
\* address that is given has code.
Checked ==
    /\ setup.json /\ setup.chains = 2 /\ Len(setup.passwords) = 2
    /\ setup.passwords[1] = "right" /\ setup.passwords[2] = "right"
    /\ setup.keys /\ setup.gas /\ setup.dsn
    /\ setup.swap = "code" /\ setup.erc20 # "no code"
    /\ LoadWanted => setup.home /\ setup.file # EmptyFile

\* All that has to be right for the bridge to pay: there is a token too.
Sound == Checked /\ setup.erc20 = "code"

\* Whichever errors are logged and dropped on the way, a bridge that polls has
\* passed every check but the one for an empty address of the token, whose
\* error is dropped like the others and stops nothing.
UpIsChecked == Up => Checked

\* What the message of SetReceiverErc20Contract ("check config.json") and
\* EnsureHasBytecode ask for: a bridge that polls has a token to pay in.
UpIsSound == Up => Sound

\* A sound setup comes up for good once no more calls fail: no check refuses
\* what it should let through.
ComesUp == Sound => <>[]Up

L == INSTANCE Launch WITH
    isLoaded <- LoadWanted, file <- setup.file, up <- Up,
    first <- IF Up THEN startBlock ELSE NoBlock

\* The start that Bridge makes in one step is what all these steps amount to:
\* from the right block, and never under --load with a file without number.
ImplementsLaunch == L!Spec
=============================================================================
