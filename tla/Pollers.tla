------------------------------- MODULE Pollers ------------------------------
(***************************************************************************)
(* The channels that fetch what users wrote: Discord from its gateway, the *)
(* mail channel from its mailbox.  They share no state; each implements    *)
(* Intake.  Telegram does so too, in a module of its own.                  *)
(***************************************************************************)
EXTENDS Discord, EmailPoll

PollersSpec == DiscordSpec /\ EmailSpec

(* The channels that fetch their messages hand each over at most once and  *)
(* in order, through every broken connection, crash and restart.           *)
PollersImplementIntake ==
  DiscordImplementsIntake /\ EmailImplementsIntake
=============================================================================
