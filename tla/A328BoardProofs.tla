-------------------------- MODULE A328BoardProofs --------------------------
(***************************************************************************)
(* Proofs about A328Board, for any number of cards and any reset pin.      *)
(*                                                                         *)
(* First what each clock operation makes of one card's clocks, then the    *)
(* invariant: from cgu_init on the bookkeeping agrees with the use case,   *)
(* so that an activation has nothing to write; and a registered frontend   *)
(* has been mounted, or is bare, with the pins high.                       *)
(***************************************************************************)
EXTENDS A328Board, TLAPS

-----------------------------------------------------------------------------
(* One card's clocks.                                                      *)

\* The outputs of the use case are noted as it wants them.
Agrees(k) == \A d \in {6, 13} : k.setup[d] = Noted(clk_in(d), div(d) - 1, 0)

LEMMA Tables ==
  ASSUME NEW d \in Domains PROVE clk_in(d) \in Nat /\ div(d) \in Nat /\ div(d) > 0
<1>1. /\ Len(Sources) = 19 /\ \A j \in 1 .. 19 : Sources[j] \in Nat
      /\ Len(Divisors) = 19 /\ \A j \in 1 .. 19 : Divisors[j] \in Nat /\ Divisors[j] > 0
  BY DEF Sources, Divisors
<1>2. d + 1 \in 1 .. 19
  BY DEF Domains
<1> QED BY <1>1, <1>2 DEF clk_in, div

LEMMA Dividers ==
  ASSUME NEW d \in Domains PROVE Divider(d) = div(d) - 1 /\ Divider(d) \in Nat
BY Tables DEF Divider

LEMMA InitClocksRight ==
  ASSUME NEW k
  PROVE  cgu_init(k) \in Clocks /\ Agrees(cgu_init(k)) /\ cgu_init(k).wrote = Domains
<1> DEFINE o == [d \in Domains |->
                   CASE d = PCC -> Setting(2, 3, 0)
                     [] d = EXT_CA -> Setting(clk_in(d), CLOCKOUT_DIVIDER_LOW, Disable)
                     [] OTHER -> Setting(clk_in(d), Divider(d), Enable)]
           s == [d \in Domains |->
                   CASE d = PCC -> Noted(0, 0, 0)
                     [] d = EXT_CA -> Noted(clk_in(d), CLOCKOUT_DIVIDER_LOW, 0)
                     [] OTHER -> Noted(clk_in(d), Divider(d), 0)]
<1>1. cgu_init(k) = [out |-> o, setup |-> s, active |-> FALSE, adc |-> 0, wrote |-> Domains]
  BY DEF cgu_init
<1>2. o \in [Domains -> Output]
  <2> SUFFICES ASSUME NEW d \in Domains PROVE o[d] \in Output
    OBVIOUS
  <2> QED BY Tables, Dividers DEF Setting, Output, Enable, Disable, CLOCKOUT_DIVIDER_LOW
<1>3. s \in [Domains -> [clk_in : Nat, div : Nat, preset : Nat]]
  <2> SUFFICES ASSUME NEW d \in Domains PROVE s[d] \in [clk_in : Nat, div : Nat, preset : Nat]
    OBVIOUS
  <2> QED BY Tables, Dividers DEF Noted, CLOCKOUT_DIVIDER_LOW
<1>4. \A d \in {6, 13} : s[d] = Noted(clk_in(d), div(d) - 1, 0)
  <2> SUFFICES ASSUME NEW d \in {6, 13} PROVE s[d] = Noted(clk_in(d), div(d) - 1, 0)
    OBVIOUS
  <2>1. d \in Domains /\ d # PCC /\ d # EXT_CA
    BY DEF Domains, PCC, EXT_CA
  <2>2. Divider(d) = div(d) - 1
    BY <2>1, Dividers
  <2> QED BY <2>1, <2>2
<1> HIDE DEF o, s
<1> QED BY <1>1, <1>2, <1>3, <1>4 DEF Clocks, Agrees

\* Nothing is to be changed where the bookkeeping agrees: an activation writes nothing.
LEMMA NothingToChange ==
  ASSUME NEW k, Agrees(k) PROVE ToChange(k) = {}
BY DEF ToChange, Agrees, UseCaseDomains, PCC, CTRL_PCC, XTAL_DCSN

LEMMA ActivateChangesNothing ==
  ASSUME NEW k \in Clocks, Agrees(k)
  PROVE  LET a == activate_clocks(k)
         IN  a \in Clocks /\ Agrees(a) /\ a.out = k.out /\ a.wrote = {}
<1> DEFINE a == activate_clocks(k)
           o == [d \in Domains |-> IF d \in ToChange(k) THEN Setting(clk_in(d), div(d) - 1, 0)
                                                        ELSE k.out[d]]
           s == [d \in Domains |-> IF d \in ToChange(k) THEN Noted(clk_in(d), div(d) - 1, 0)
                                                        ELSE k.setup[d]]
<1>0. DOMAIN k = {"out", "setup", "active", "adc", "wrote"}
      /\ k.out \in [Domains -> Output]
      /\ k.setup \in [Domains -> [clk_in : Nat, div : Nat, preset : Nat]]
  BY DEF Clocks
<1>1. ToChange(k) = {}
  BY NothingToChange
<1>2. o = k.out /\ s = k.setup
  BY <1>0, <1>1
<1>3. CASE k.active
  BY <1>3 DEF activate_clocks, Clocks, Agrees
<1>4. CASE ~k.active
  <2>1. a.out = o /\ a.setup = s /\ a.active = TRUE /\ a.adc = 2 /\ a.wrote = ToChange(k)
    BY <1>4, <1>0 DEF activate_clocks, cgu_update_clk
  <2>2. a \in Clocks
    BY <1>4, <1>0, <1>1, <1>2 DEF activate_clocks, cgu_update_clk, Clocks
  <2> QED BY <2>1, <2>2, <1>1, <1>2 DEF Agrees
<1> QED BY <1>3, <1>4

LEMMA MscdOpens ==
  ASSUME NEW k \in Clocks, Agrees(k)
  PROVE  LET m == a328_mscd_clk_on(k)
         IN  m \in Clocks /\ Agrees(m) /\ MscdOpen(m) /\ m.wrote = MscdDomains
<1> DEFINE m == a328_mscd_clk_on(k)
           o == [d \in Domains |-> IF d \in MscdDomains THEN MscdSetting(d) ELSE k.out[d]]
<1>1. m = [k EXCEPT !.out = o, !.wrote = MscdDomains]
  BY DEF a328_mscd_clk_on, WithMscd, Clocks
<1>2. o \in [Domains -> Output]
  <2> SUFFICES ASSUME NEW d \in Domains PROVE o[d] \in Output
    OBVIOUS
  <2>1. CASE d \in MscdDomains
    <3>1. MscdSources[d + 1] \in Nat
      BY <2>1 DEF MscdDomains, MscdSources
    <3> QED BY <2>1, <3>1 DEF MscdSetting, Setting, Output
  <2>2. CASE d \notin MscdDomains
    BY <2>2 DEF Clocks
  <2> QED BY <2>1, <2>2
<1>3. m.out = o /\ m.setup = k.setup /\ m.wrote = MscdDomains
  BY <1>1 DEF Clocks
<1>4. MscdOpen(m)
  <2> SUFFICES ASSUME NEW d \in MscdDomains \ {XTAL_DCSN} PROVE m.out[d].ena = 1
    BY DEF MscdOpen
  <2>1. d \in Domains
    BY DEF MscdDomains, Domains
  <2> QED BY <1>3, <2>1 DEF MscdSetting, Setting
<1>5. m \in Clocks
  <2>1. MscdDomains \subseteq Domains
    BY DEF MscdDomains, Domains
  <2> HIDE DEF o, m
  <2> QED BY <1>1, <1>2, <2>1 DEF Clocks
<1> HIDE DEF m, o
<1> QED BY <1>3, <1>4, <1>5 DEF Agrees, m

-----------------------------------------------------------------------------
(* The board.                                                              *)

Initialised(c) == pc[c] # "off"
HighAt == {"pulse", "demod", "tuner", "mount", "register", "stream", "bound"}

ClocksInv ==
  \A c \in Cards :
    /\ Initialised(c) => Agrees(clocks[c])
    /\ clocks[c].wrote \cap Landmines # {} => clocks[c].wrote = Domains
    /\ tuned[c] = "clocked" => MscdOpen(clocks[c])

FrontendInv ==
  \A c \in Cards :
    /\ pc[c] \in HighAt => low[c] = {}
    /\ pc[c] = "pulse" => ResetPin \in Pins
    /\ pc[c] = "release" => low[c] = {ResetPin}
    /\ pc[c] = "mount" => fe[c] = "tuner"
    /\ pc[c] = "register" => fe[c] \in {"bare", "wrapped"}
    /\ c \in registered => pc[c] \in {"stream", "bound"} /\ fe[c] \in {"bare", "wrapped"}
    /\ pc[c] = "tuner" => fe[c] = "bare"
    /\ pc[c] \notin {"off", "stream", "bound"} => tuned[c] = "no"
    /\ c \in registered /\ tuned[c] = "unclocked" => fe[c] = "bare"

IInv == TypeOK /\ ClocksInv /\ FrontendInv /\ TunesOwnCard

LEMMA InitInv == Init => IInv
<1> SUFFICES ASSUME Init PROVE IInv
  OBVIOUS
<1>1. Unset \in Clocks /\ Unset.wrote = {}
  <2>1. Setting(0, 0, 0) \in Output /\ Noted(0, 0, 0) \in [clk_in : Nat, div : Nat, preset : Nat]
    BY DEF Setting, Output, Noted
  <2> QED BY <2>1 DEF Unset, Clocks
<1>2. TypeOK
  BY <1>1 DEF Init, TypeOK
<1>3. ClocksInv /\ FrontendInv /\ TunesOwnCard
  BY <1>1 DEF Init, ClocksInv, FrontendInv, TunesOwnCard, Initialised, HighAt
<1> QED BY <1>2, <1>3 DEF IInv

-----------------------------------------------------------------------------
(* The steps that touch the clocks.                                        *)

\* The clocks of one card change to k, those of the others stay.
LEMMA OneCardsClocks ==
  ASSUME TypeOK, NEW c \in Cards, NEW k \in Clocks, clocks' = [clocks EXCEPT ![c] = k]
  PROVE  /\ clocks' \in [Cards -> Clocks]
         /\ clocks'[c] = k
         /\ \A d \in Cards \ {c} : clocks'[d] = clocks[d]
BY DEF TypeOK

LEMMA InitClocksInv ==
  ASSUME IInv, NEW c \in Cards, InitClocks(c)
  PROVE  clocks' \in [Cards -> Clocks] /\ ClocksInv'
<1> DEFINE k == cgu_init(clocks[c])
<1>1. k \in Clocks /\ Agrees(k) /\ k.wrote = Domains
  BY InitClocksRight
<1>2. clocks' = [clocks EXCEPT ![c] = k] /\ tuned' = [tuned EXCEPT ![c] = "no"]
      /\ pc' = [pc EXCEPT ![c] = "enable"]
  BY DEF InitClocks, At, IInv, TypeOK
<1> HIDE DEF k
<1>3. /\ clocks' \in [Cards -> Clocks] /\ clocks'[c] = k
      /\ \A d \in Cards \ {c} : clocks'[d] = clocks[d]
  BY <1>1, <1>2, OneCardsClocks DEF IInv
<1>4. ClocksInv'
  <2> SUFFICES ASSUME NEW d \in Cards
               PROVE  /\ pc'[d] # "off" => Agrees(clocks'[d])
                      /\ clocks'[d].wrote \cap Landmines # {} => clocks'[d].wrote = Domains
                      /\ tuned'[d] = "clocked" => MscdOpen(clocks'[d])
    BY DEF ClocksInv, Initialised
  <2>1. CASE d = c
    BY <1>1, <1>2, <1>3, <2>1 DEF IInv, TypeOK
  <2>2. CASE d # c
    BY <1>2, <1>3, <2>2 DEF IInv, TypeOK, ClocksInv, Initialised
  <2> QED BY <2>1, <2>2
<1> QED BY <1>3, <1>4

\* An activation changes no output, and is recorded as writing none.
LEMMA AcquiredInv ==
  ASSUME IInv, NEW c \in Cards, Initialised(c), Acquired(c), UNCHANGED tuned,
         pc' = pc \/ pc' = [pc EXCEPT ![c] = "bound"]
  PROVE  clocks' \in [Cards -> Clocks] /\ ClocksInv'
<1>1. CASE c \in clock_run
  <2>1. clocks' = clocks
    BY <1>1 DEF Acquired
  <2>2. \A d \in Cards : Initialised(d)' => Initialised(d)
    BY DEF Initialised, IInv, TypeOK
  <2> QED BY <2>1, <2>2 DEF IInv, TypeOK, ClocksInv
<1>2. CASE c \notin clock_run
  <2> DEFINE k == activate_clocks(clocks[c])
  <2>1. clocks[c] \in Clocks /\ Agrees(clocks[c])
    BY DEF IInv, TypeOK, ClocksInv
  <2>2. k \in Clocks /\ Agrees(k) /\ k.out = clocks[c].out /\ k.wrote = {}
    BY <2>1, ActivateChangesNothing
  <2>3. clocks' = [clocks EXCEPT ![c] = k]
    BY <1>2 DEF Acquired
  <2> HIDE DEF k
  <2>4. /\ clocks' \in [Cards -> Clocks] /\ clocks'[c] = k
        /\ \A d \in Cards \ {c} : clocks'[d] = clocks[d]
    BY <2>2, <2>3, OneCardsClocks DEF IInv
  <2>5. ClocksInv'
    <3> SUFFICES ASSUME NEW d \in Cards
                 PROVE  /\ pc'[d] # "off" => Agrees(clocks'[d])
                        /\ clocks'[d].wrote \cap Landmines # {} => clocks'[d].wrote = Domains
                        /\ tuned'[d] = "clocked" => MscdOpen(clocks'[d])
      BY DEF ClocksInv, Initialised
    <3>1. CASE d = c
      BY <2>2, <2>4, <3>1 DEF IInv, ClocksInv, MscdOpen
    <3>2. CASE d # c
      BY <2>4, <3>2 DEF IInv, TypeOK, ClocksInv, Initialised
    <3> QED BY <3>1, <3>2
  <2> QED BY <2>4, <2>5
<1> QED BY <1>1, <1>2

\* A tune of a mounted frontend opens the clocks, of its own card; of a bare one, nothing.
LEMMA TuneInv ==
  ASSUME IInv, NEW c \in Cards, Tune(c)
  PROVE  IInv'
<1>0. /\ c \in registered /\ UNCHANGED <<pc, low, fe, registered, clock_run, latest>>
      /\ tuned' = [tuned EXCEPT ![c] = IF MscdOpen(clocks'[c]) THEN "clocked" ELSE "unclocked"]
      /\ Initialised(c) /\ clocks[c] \in Clocks /\ Agrees(clocks[c])
  BY DEF Tune, a328_fe_to_dev, IInv, TypeOK, FrontendInv, ClocksInv, Initialised
<1>1. /\ clocks' \in [Cards -> Clocks]
      /\ Agrees(clocks'[c])
      /\ clocks'[c].wrote \cap Landmines # {} => clocks'[c].wrote = Domains
      /\ \A d \in Cards \ {c} : clocks'[d] = clocks[d]
      /\ fe[c] = "wrapped" => MscdOpen(clocks'[c])
      /\ reached' \subseteq reached \cup {<<c, c>>}
  <2>1. CASE fe[c] = "wrapped"
    <3> DEFINE k == a328_mscd_clk_on(clocks[c])
    <3>1. k \in Clocks /\ Agrees(k) /\ MscdOpen(k) /\ k.wrote = MscdDomains
      BY <1>0, MscdOpens
    <3>2. clocks' = [clocks EXCEPT ![c] = k] /\ reached' = reached \cup {<<c, c>>}
      BY <2>1 DEF Tune, a328_fe_to_dev
    <3> HIDE DEF k
    <3>3. /\ clocks' \in [Cards -> Clocks] /\ clocks'[c] = k
          /\ \A d \in Cards \ {c} : clocks'[d] = clocks[d]
      BY <3>1, <3>2, OneCardsClocks DEF IInv
    <3>4. MscdDomains \cap Landmines = {}
      BY DEF MscdDomains, Landmines
    <3> QED BY <3>1, <3>2, <3>3, <3>4
  <2>2. CASE fe[c] # "wrapped"
    BY <1>0, <2>2 DEF Tune, IInv, TypeOK, ClocksInv
  <2> QED BY <2>1, <2>2
<1>2. TypeOK'
  <2>1. tuned' \in [Cards -> {"no", "clocked", "unclocked"}] /\ reached' \subseteq Cards \X Cards
    BY <1>0, <1>1 DEF IInv, TypeOK
  <2> QED BY <1>0, <1>1, <2>1 DEF IInv, TypeOK
<1>3. ClocksInv'
  <2> SUFFICES ASSUME NEW d \in Cards
               PROVE  /\ pc'[d] # "off" => Agrees(clocks'[d])
                      /\ clocks'[d].wrote \cap Landmines # {} => clocks'[d].wrote = Domains
                      /\ tuned'[d] = "clocked" => MscdOpen(clocks'[d])
    BY DEF ClocksInv, Initialised
  <2>1. CASE d = c
    BY <1>0, <1>1, <2>1 DEF IInv, TypeOK
  <2>2. CASE d # c
    BY <1>0, <1>1, <2>2 DEF IInv, TypeOK, ClocksInv, Initialised
  <2> QED BY <2>1, <2>2
<1>4. FrontendInv'
  <2> SUFFICES ASSUME NEW d \in Cards
               PROVE  /\ pc[d] \notin {"off", "stream", "bound"} => tuned'[d] = "no"
                      /\ d \in registered /\ tuned'[d] = "unclocked" => fe[d] = "bare"
    BY <1>0 DEF IInv, FrontendInv
  <2>1. CASE d = c
    <3>1. pc[c] \in {"stream", "bound"} /\ fe[c] \in {"bare", "wrapped"}
      BY <1>0 DEF IInv, FrontendInv
    <3>2. tuned'[c] = "unclocked" => ~MscdOpen(clocks'[c])
      BY <1>0 DEF IInv, TypeOK
    <3> QED BY <1>1, <2>1, <3>1, <3>2
  <2>2. CASE d # c
    BY <1>0, <2>2 DEF IInv, TypeOK, FrontendInv
  <2> QED BY <2>1, <2>2
<1>5. TunesOwnCard'
  BY <1>1 DEF IInv, TunesOwnCard
<1> QED BY <1>2, <1>3, <1>4, <1>5 DEF IInv

-----------------------------------------------------------------------------
(* The other steps.                                                        *)

LEMMA InitClocksStep ==
  ASSUME IInv, NEW c \in Cards, InitClocks(c) PROVE IInv'
<1>1. /\ pc[c] = "off" /\ pc' = [pc EXCEPT ![c] = "enable"]
      /\ tuned' = [tuned EXCEPT ![c] = "no"]
      /\ UNCHANGED <<low, fe, registered, clock_run, latest, reached>>
  BY DEF InitClocks, At, IInv, TypeOK
<1>2. clocks' \in [Cards -> Clocks] /\ ClocksInv'
  BY InitClocksInv
<1>3. TypeOK'
  BY <1>1, <1>2 DEF IInv, TypeOK
<1>4. FrontendInv'
  BY <1>1 DEF IInv, TypeOK, FrontendInv, HighAt
<1>5. TunesOwnCard'
  BY <1>1 DEF IInv, TunesOwnCard
<1> QED BY <1>2, <1>3, <1>4, <1>5 DEF IInv

LEMMA PinSteps ==
  ASSUME IInv, NEW c \in Cards, FrontendEnable(c) \/ PullLow(c) \/ Release(c) PROVE IInv'
<1> USE DEF IInv, TypeOK
<1>1. UNCHANGED <<clocks, fe, registered, clock_run, latest, tuned, reached>>
  BY DEF FrontendEnable, PullLow, Release
<1>2. PICK next \in {"pulse", "demod", "release"} :
        pc[c] # "off" /\ pc' = [pc EXCEPT ![c] = next]
  BY DEF FrontendEnable, PullLow, Release, At
<1>3. low' \in [Cards -> SUBSET Pins]
  <2>1. CASE FrontendEnable(c)
    BY <2>1 DEF FrontendEnable
  <2>2. CASE PullLow(c)
    <3>1. ResetPin \in Pins
      BY <2>2 DEF PullLow, At, FrontendInv, HighAt
    <3> QED BY <2>2, <3>1 DEF PullLow
  <2>3. CASE Release(c)
    BY <2>3 DEF Release
  <2> QED BY <2>1, <2>2, <2>3
<1>4. TypeOK' /\ TunesOwnCard'
  BY <1>1, <1>2, <1>3 DEF TunesOwnCard
<1>5. ClocksInv'
  BY <1>1, <1>2 DEF ClocksInv, Initialised
<1>6. FrontendInv'
  <2>1. CASE FrontendEnable(c)
    BY <1>1, <2>1 DEF FrontendEnable, At, FrontendInv, HighAt
  <2>2. CASE PullLow(c)
    BY <1>1, <2>2 DEF PullLow, At, FrontendInv, HighAt
  <2>3. CASE Release(c)
    BY <1>1, <2>3 DEF Release, At, FrontendInv, HighAt
  <2> QED BY <2>1, <2>2, <2>3
<1> QED BY <1>4, <1>5, <1>6

LEMMA AttachSteps ==
  ASSUME IInv, NEW c \in Cards, AttachDemod(c) \/ AttachTuner(c) \/ Mount(c) \/ Register(c)
  PROVE  IInv'
<1> USE DEF IInv, TypeOK
<1>1. UNCHANGED <<clocks, low, clock_run, tuned, reached>>
  BY DEF AttachDemod, AttachTuner, Mount, Register
<1>2. PICK next \in {"tuner", "stream", "register", "mount"} :
        pc[c] # "off" /\ pc' = [pc EXCEPT ![c] = next]
  BY DEF AttachDemod, AttachTuner, Mount, Register, At
<1>3. /\ fe' \in [Cards -> {"none", "bare", "tuner", "wrapped"}]
      /\ registered' \subseteq Cards
      /\ latest' \in Cards \cup {NoCard}
  BY DEF AttachDemod, AttachTuner, Mount, Mounted, Register
<1>4. TypeOK' /\ TunesOwnCard'
  BY <1>1, <1>2, <1>3 DEF TunesOwnCard
<1>5. ClocksInv'
  BY <1>1, <1>2 DEF ClocksInv, Initialised
<1>6. FrontendInv'
  <2>1. CASE AttachDemod(c)
    BY <1>1, <2>1 DEF AttachDemod, At, FrontendInv, HighAt
  <2>2. CASE AttachTuner(c)
    BY <1>1, <2>2 DEF AttachTuner, At, FrontendInv, HighAt
  <2>3. CASE Mount(c)
    BY <1>1, <2>3 DEF Mount, Mounted, At, FrontendInv, HighAt
  <2>4. CASE Register(c)
    BY <1>1, <2>4 DEF Register, At, FrontendInv, HighAt
  <2> QED BY <2>1, <2>2, <2>3, <2>4
<1> QED BY <1>4, <1>5, <1>6

LEMMA StreamSteps ==
  ASSUME IInv, NEW c \in Cards,
         InitStream(c) \/ StartFeed(c) \/ StopFeed(c) \/ Remove(c)
  PROVE  IInv'
<1> USE DEF IInv, TypeOK
<1>1. UNCHANGED <<low, latest, tuned, reached>>
  BY DEF InitStream, StartFeed, StopFeed, Remove
<1>2. CASE InitStream(c) \/ StartFeed(c)
  <2>1. Acquired(c) /\ UNCHANGED <<fe, registered>> /\ pc[c] \in {"stream", "bound"}
        /\ (pc' = pc \/ pc' = [pc EXCEPT ![c] = "bound"])
    BY <1>2 DEF InitStream, StartFeed, At
  <2>2. clocks' \in [Cards -> Clocks] /\ ClocksInv'
    BY <1>1, <2>1, AcquiredInv DEF Initialised
  <2>3. TypeOK' /\ TunesOwnCard'
    BY <1>1, <2>1, <2>2 DEF Acquired, TunesOwnCard
  <2>4. FrontendInv'
    BY <1>1, <2>1 DEF FrontendInv, HighAt
  <2> QED BY <2>2, <2>3, <2>4
<1>3. CASE StopFeed(c)
  BY <1>1, <1>3 DEF StopFeed, ClocksInv, Initialised, FrontendInv, HighAt, TunesOwnCard
<1>4. CASE Remove(c)
  <2>1. TypeOK' /\ TunesOwnCard'
    BY <1>1, <1>4 DEF Remove, At, TunesOwnCard
  <2>2. ClocksInv'
    BY <1>1, <1>4 DEF Remove, At, ClocksInv, Initialised
  <2>3. FrontendInv'
    BY <1>1, <1>4 DEF Remove, At, FrontendInv, HighAt
  <2> QED BY <2>1, <2>2, <2>3
<1> QED BY <1>2, <1>3, <1>4

LEMMA Inductive == IInv /\ [Next]_vars => IInv'
<1> SUFFICES ASSUME IInv, [Next]_vars PROVE IInv'
  OBVIOUS
<1>1. ASSUME NEW c \in Cards, Probe(c) \/ Remove(c) \/ User(c) PROVE IInv'
  BY <1>1, InitClocksStep, PinSteps, AttachSteps, StreamSteps, TuneInv DEF Probe, User
<1>2. CASE UNCHANGED vars
  BY <1>2 DEF vars, IInv, TypeOK, ClocksInv, Initialised, FrontendInv, TunesOwnCard
<1> QED BY <1>1, <1>2 DEF Next

LEMMA Invariance == Spec => []IInv
BY InitInv, Inductive, PTL DEF Spec

-----------------------------------------------------------------------------
(* The theorems.                                                           *)

\* The state of the cards keeps its types.
THEOREM BoardTypes == Spec => []TypeOK
<1>1. IInv => TypeOK
  BY DEF IInv
<1> QED BY <1>1, Invariance, PTL

\* On any number of cards, only cgu_init ever writes the outputs 0x80 .. 0x90, which
\* a328_mscd_clk_on's comment warns of: an activation finds nothing to change.
THEOREM BoardLandminesUntouched == Spec => []LandminesUntouched
<1>1. IInv => LandminesUntouched
  BY DEF IInv, ClocksInv, LandminesUntouched
<1> QED BY <1>1, Invariance, PTL

\* What a tune has opened no activation shuts, nor anything done to another card.
THEOREM BoardTunedClocksStay == Spec => []TunedClocksStay
<1>1. IInv => TunedClocksStay
  BY DEF IInv, ClocksInv, TunedClocksStay
<1> QED BY <1>1, Invariance, PTL

\* The wrappers, whose originals are static and shared, reach the card of their own frontend.
THEOREM BoardTunesOwnCard == Spec => []TunesOwnCard
<1>1. IInv => TunesOwnCard
  BY DEF IInv
<1> QED BY <1>1, Invariance, PTL

\* A registered frontend that has been tuned has its pins high, its reset among them, and its
\* clocks were open unless the tuner was missing.
THEOREM BoardFrontendReady == Spec => []FrontendReady
<1>1. IInv => FrontendReady
  <2> SUFFICES ASSUME IInv, NEW c \in registered
               PROVE low[c] = {} /\ (tuned[c] = "unclocked" => fe[c] = "bare")
    BY DEF FrontendReady
  <2>1. c \in Cards
    BY DEF IInv, TypeOK
  <2> QED BY <2>1 DEF IInv, FrontendInv, HighAt
<1> QED BY <1>1, Invariance, PTL
=============================================================================
