----------------------------- MODULE MCCommands -----------------------------
(***************************************************************************)
(* A board like that of board/VN-P-B2197-00.json: the selects of the JTAG  *)
(* mux, the line that switches the power on with its constraint, a         *)
(* read-only line and an open-drain one, a voltage that only a script can  *)
(* read, and a power domain of two sensors one of whose names is a part of *)
(* the other's.                                                            *)
(***************************************************************************)
EXTENDS Commands

CONSTANTS PWR, PRSNT, EN, SW3

MCValue ==
  [s \in Selects |-> CASE s = "SC" -> 0 [] s = "FTDI" -> 1 [] s = "EXT" -> 2]

MCType ==
  [l \in {0, 1, PWR, PRSNT, EN} |->
     CASE l = PRSNT -> "RO" [] l = EN -> "OD" [] OTHER -> "RW"]
MCGroups == [g \in {SW3} |-> [type |-> "RW", lines |-> <<1, 0>>]]

MCSensors == <<"VCCAUX", "VCCAUX_LPD">>
MCShunt == [s \in SensorSet |-> IF s = "VCCAUX" THEN 250 ELSE 9600]
MCDomains == [LPD |-> <<"INA226_VCCAUX_LPD", "INA226_VCCAUX">>]
MCPartOf ==
  [INA226_VCCAUX |-> {"VCCAUX"},
   INA226_VCCAUX_LPD |-> {"VCCAUX", "VCCAUX_LPD"}]
MCMeant == [INA226_VCCAUX |-> "VCCAUX", INA226_VCCAUX_LPD |-> "VCCAUX_LPD"]

\* A calibration, one that the register cannot hold, none at all, a
\* calibration of 0, and a value that is missing.
MCSettings ==
  {<<Skip, 2560, Skip, 1>>, <<Skip, 32768, Skip, Skip>>,
   <<Skip, Skip, Skip, Skip>>, <<Skip, 0, Skip, Skip>>, <<Skip, 2560, Skip>>}

MCTable ==
  [setgpio |-> "GPIO_Ops", getgpio |-> "GPIO_Ops",
   setinputgpio |-> "GPIO_Ops", setJTAGselect |-> "JTAG_Ops",
   getIDCODE |-> "XSDB", getpower |-> "Power", getcalpower |-> "Power",
   getINA226 |-> "Power", setINA226 |-> "Power", powerdomain |-> "Power",
   getvoltage |-> "other"]
Power_Line == "SYSCTLR_UCD90320_CTLR_B"
Power_Display == "45 - SYSCTLR_UCD90320_CTLR_B"
MCLine ==
  [n \in {Power_Line, Power_Display, "DC_PRSNT", "EN", "JTAG_S0", "SW3"} |->
     CASE n = "SW3" -> SW3 [] n = "JTAG_S0" -> 0 [] n = "EN" -> EN
       [] n = "DC_PRSNT" -> PRSNT [] OTHER -> PWR]
\* strtol() makes 0 of what is no number.
MCNumber ==
  [v \in {"0", "1", "01", "2", "6", "on"} |->
     CASE v \in {"0", "on"} -> 0 [] v \in {"1", "01"} -> 1
       [] v = "2" -> 2 [] v = "6" -> 6]
MCConstraints ==
  <<[type |-> "Complete", command |-> "setgpio", target |-> Power_Line,
     value |-> "1", phases |-> <<"powerup.py", "FMC_Autodetect_Vadj">>],
    [type |-> "Terminate", command |-> "getvoltage", target |-> "VCCINT",
     value |-> NoArg, phases |-> <<"get_tps53681.py">>],
    [type |-> "Terminate", command |-> "getsensor", target |-> AnyArg,
     value |-> NoArg, phases |-> <<"get_sensors.py">>]>>

R(c, t, v) == [command |-> c, target |-> t, value |-> v, set |-> <<>>]
MCRequests ==
  {R("setgpio", Power_Line, "1"), R("setgpio", Power_Line, "0"),
   R("setgpio", Power_Display, "1"), R("setgpio", Power_Line, "01"),
   R("setgpio", Power_Line, "on"), R("setgpio", "JTAG_S0", "1"),
   R("setgpio", "JTAG_S0", "2"), R("setgpio", "SW3", "2"),
   R("setgpio", "SW3", "6"), R("setgpio", "SW3", NoArg),
   R("setgpio", "DC_PRSNT", "1"), R("setgpio", "EN", "0"),
   R("setgpio", "EN", "1"), R("setinputgpio", "SW3", NoArg),
   R("getgpio", "SW3", NoArg), R("getgpio", NoArg, NoArg),
   R("getgpio", "all", NoArg),
   R("setJTAGselect", "SC", NoArg), R("setJTAGselect", "FTDI", NoArg),
   R("setJTAGselect", "EXT", NoArg), R("setJTAGselect", "ALL", NoArg),
   R("getIDCODE", NoArg, NoArg), R("getvoltage", "VCCINT", NoArg),
   R("getvoltage", "VCCO", NoArg), R("getsensor", "VCCINT", NoArg),
   R("getsensors", NoArg, NoArg), R("?", NoArg, NoArg),
   R("getpower", "VCCAUX", NoArg), R("getpower", "VCCO", NoArg),
   R("getcalpower", "VCCAUX", NoArg), R("getINA226", "VCCAUX", NoArg),
   R("powerdomain", "LPD", NoArg), R("powerdomain", "PLD", NoArg)}
  \cup {[R("setINA226", "VCCAUX", "set") EXCEPT !.set = x] : x \in MCSettings}

=============================================================================
