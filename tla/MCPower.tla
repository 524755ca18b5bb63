------------------------------ MODULE MCPower ------------------------------
(***************************************************************************)
(* The domain HBM of board/VHK158.json with the sensors whose names are a  *)
(* part of the names of its rails, in the order of that file.              *)
(***************************************************************************)
EXTENDS Power

MCSensors == <<"VCCO_HBM", "VCC_HBM", "VCCAUX_HBM", "VCCAUX">>
MCShunt ==
  [s \in SensorSet |->
     CASE s = "VCCO_HBM" -> 1250 [] s = "VCC_HBM" -> 1650
       [] s = "VCCAUX_HBM" -> 1000 [] s = "VCCAUX" -> 4000]
MCDomains ==
  [HBM |-> <<"INA226_VCC_HBM", "INA226_VCCO_HBM", "INA226_VCCAUX_HBM">>]
MCPartOf ==
  [INA226_VCC_HBM |-> {"VCC_HBM"}, INA226_VCCO_HBM |-> {"VCCO_HBM"},
   INA226_VCCAUX_HBM |-> {"VCCAUX_HBM", "VCCAUX"}]
MCMeant ==
  [INA226_VCC_HBM |-> "VCC_HBM", INA226_VCCO_HBM |-> "VCCO_HBM",
   INA226_VCCAUX_HBM |-> "VCCAUX_HBM"]

=============================================================================
