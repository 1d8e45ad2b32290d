----------------------------- MODULE CguClocks -----------------------------
(***************************************************************************)
(* The clock outputs of the chip as saa7231_cgu.c sets them, for the use   *)
(* case of an external transport stream: the registers, and the            *)
(* bookkeeping of them in struct saa7231_cgu by which a later activation   *)
(* decides what to write.                                                  *)
(*                                                                         *)
(* A card's clocks are a record of both. wrote is history: the outputs     *)
(* the last operation has written. The PLLs and dividers are set once, in  *)
(* cgu_init: none is ever marked active, which cgu_system_setup asks for.  *)
(***************************************************************************)
EXTENDS Naturals, Sequences

\* enum saa7231_clk_domain. The outputs 15 .. 18 follow those of the tests.
Domains == 0 .. 18
XTAL_DCSN == 0
PCC == 11
CTRL_PCC == 12
EXT_CA == 17

Setting(src, div, ena) == [src |-> src, div |-> div, ena |-> ena]
Output == [src : Nat, div : Nat, ena : {0, 1}]
Noted(src, div, preset) == [clk_in |-> src, div |-> div, preset |-> preset]

\* clk_out_setup[domain][0], and the domains with a preset in column 1 of clkout_sel,
\* that of use case 0: it is the first for each.
Sources == <<0, 10, 0, 15, 15, 0, 0, 11, 18, 0, 11, 0, 0, 11, 12, 0, 0, 0, 0>>
Divisors == <<1, 2, 1, 8, 1, 1, 1, 1, 1, 8, 1, 1, 1, 1, 1, 1, 1, 1, 8>>
clk_in(d) == Sources[d + 1]
div(d) == Divisors[d + 1]
UseCaseDomains == {0, 6, 12, 13}

CLOCKOUT_DIVIDER_LOW == 7
Enable == 0     \* CLOCK_ENABLE
Disable == 1    \* CLOCK_DISABLE

\* Faulty variants: the divisor written as it is, and decremented once too often.
WholeDivisor(d) == div(d)
SmallDivisor(d) == IF div(d) > 0 THEN div(d) - 2 ELSE div(d)

\* The divider's field for a divisor, as saa7231_set_clk computes it.
Divider(d) == IF div(d) > 0 THEN div(d) - 1 ELSE div(d)

\* saa7231_cgu_init: set_clk(CLK_USECASE) for every domain but PCC, from bookkeeping that is
\* zero; then EXT_CA is turned off and PCC_OUT written directly.
cgu_init(clocks) ==
  [out |->
     [d \in Domains |->
        CASE d = PCC -> Setting(2, 3, 0)
          [] d = EXT_CA -> Setting(clk_in(d), CLOCKOUT_DIVIDER_LOW, Disable)
          [] OTHER -> Setting(clk_in(d), Divider(d), Enable)],
   setup |->
     [d \in Domains |->
        CASE d = PCC -> Noted(0, 0, 0)
          [] d = EXT_CA -> Noted(clk_in(d), CLOCKOUT_DIVIDER_LOW, 0)
          [] OTHER -> Noted(clk_in(d), Divider(d), 0)],
   active |-> FALSE,
   adc |-> 0,
   wrote |-> Domains]

\* The outputs the use case does not find as it wants them. The system's are left alone.
ToChange(clocks) ==
  {d \in UseCaseDomains \ {PCC, CTRL_PCC, XTAL_DCSN} :
     clocks.setup[d] # Noted(clk_in(d), div(d) - 1, 0)}

\* cgu_system_setup and saa7231_adc_clksetup, use case 0: ADC 1 is fed by clock 2.
cgu_update_clk(clocks) ==
  [clocks EXCEPT
     !.out = [d \in Domains |-> IF d \in ToChange(clocks)
                                THEN Setting(clk_in(d), div(d) - 1, 0) ELSE @[d]],
     !.setup = [d \in Domains |-> IF d \in ToChange(clocks)
                                  THEN Noted(clk_in(d), div(d) - 1, 0) ELSE @[d]],
     !.adc = 2,
     !.wrote = ToChange(clocks)]

\* saa7231_activate_clocks for the port TS0. cgu_clkupdate_instance objects to nothing.
activate_clocks(clocks) ==
  IF clocks.active THEN [clocks EXCEPT !.wrote = {}]
                   ELSE [cgu_update_clk(clocks) EXCEPT !.active = TRUE]

\* The ten outputs a328_mscd_clk_on writes, and with what.
MscdDomains == 0 .. 9
MscdSources == <<0, 10, 0, 15, 15, 0, 0, 11, 18, 0>>
MscdSetting(d) == Setting(MscdSources[d + 1], 7, IF d = XTAL_DCSN THEN 0 ELSE 1)

WithMscd(clocks) ==
  [clocks EXCEPT
     !.out = [d \in Domains |-> IF d \in MscdDomains THEN MscdSetting(d) ELSE @[d]],
     !.wrote = MscdDomains]

\* Faulty variant: the bookkeeping is kept as well.
MscdNoted(clocks) ==
  [WithMscd(clocks) EXCEPT
     !.setup = [d \in Domains |-> IF d \in MscdDomains
                                  THEN Noted(MscdSetting(d).src, MscdSetting(d).div, 0) ELSE @[d]]]

\* a328_mscd_clk_on: only the registers.
a328_mscd_clk_on(clocks) == WithMscd(clocks)

\* On this board an output is open with bit 0 set.
MscdOpen(clocks) == \A d \in MscdDomains \ {XTAL_DCSN} : clocks.out[d].ena = 1

\* 0x80 .. 0x90: EPICS, PCC, CTRL_PCC, STREAM_PCC and TS_OUT_CA_EXT_PCC.
Landmines == 10 .. 14
=============================================================================
