----------------------------- MODULE Peripherals -----------------------------
(***************************************************************************)
(* Eight parts around the airing of alerts that share no state: the ears   *)
(* that hear other stations, the routine programme, the rotation while     *)
(* alerts hold the focus, the places a product is for, the tokens of the   *)
(* control API, the public statements, the client of Liquidsoap and the    *)
(* log on Discord.  As no step of one touches another, a behaviour of this *)
(* specification follows one of them, and leaves the others as they began. *)
(***************************************************************************)
EXTENDS ErnEars, Programme, FocusRotation, SameTargets, ApiAuth,
        PublicNotices, TelnetControl, DiscordLog

VARIABLE part  \* the part that this behaviour follows

vars == <<part, earsVars, programmeVars, rotationVars, targetVars, authVars,
          noticeVars, telnetVars, discordVars>>

Init ==
  /\ part \in {"ears", "programme", "rotation", "targets", "auth",
               "notices", "telnet", "discord"}
  /\ EarsInit /\ ProgrammeInit /\ RotationInit /\ TargetsInit /\ AuthInit
  /\ NoticesInit /\ TelnetInit /\ DiscordInit
  /\ part # "ears" => backend = "native"
  /\ part # "targets" => dbx = "none" /\ mareas = "none"
  /\ part # "telnet" => script = CHOOSE s \in Scripts : TRUE

Ears == part = "ears" /\ EarsNext
Programmed == part = "programme" /\ ProgrammeNext
Rotation == part = "rotation" /\ RotationNext
Located == part = "targets" /\ TargetsNext
Authorised == part = "auth" /\ AuthNext
Noticed == part = "notices" /\ NoticesNext
Controlled == part = "telnet" /\ TelnetNext
Logged == part = "discord" /\ DiscordNext

\* The parts that a behaviour does not follow stay as they are.
Still ==
  /\ UNCHANGED part
  /\ part # "ears" => UNCHANGED earsVars
  /\ part # "programme" => UNCHANGED programmeVars
  /\ part # "rotation" => UNCHANGED rotationVars
  /\ part # "targets" => UNCHANGED targetVars
  /\ part # "auth" => UNCHANGED authVars
  /\ part # "notices" => UNCHANGED noticeVars
  /\ part # "telnet" => UNCHANGED telnetVars
  /\ part # "discord" => UNCHANGED discordVars

Next ==
  /\ \/ Ears \/ Programmed \/ Rotation \/ Located
     \/ Authorised \/ Noticed \/ Controlled \/ Logged
  /\ Still

Spec == Init /\ [][Next]_vars
===============================================================================
