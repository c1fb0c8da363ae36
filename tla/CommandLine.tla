---------------------------- MODULE CommandLine ----------------------------
(***************************************************************************)
(* The command grammar and the exit codes (cli/__main__.py).  argparse is  *)
(* modelled by what it accepts: a command of the tree, each of its options *)
(* known and well formed, the required ones there, and as many operands as *)
(* the command has.                                                        *)
(***************************************************************************)
EXTENDS Integers

EXIT_PRODUCED == 0
EXIT_NO_RESULT == 1

(* _leaf, with what each _add function gives the command.                  *)
Command(required, optional, operands, func) ==
  [required |-> required, optional |-> optional, operands |-> operands, func |-> func]

Unimplemented(required, optional, operands) ==
  Command(required, optional, operands, "_not_implemented")

Tree ==
  [stations |->
     [discover |-> Unimplemented({"--lat", "--lon", "--radius-km"}, {}, 0),
      diff |-> Unimplemented({}, {"--site"}, 0),
      update |-> Unimplemented({}, {"--site"}, 0),
      show |-> Unimplemented({}, {}, 1)],
   baseline |->
     [build |-> Unimplemented({"--site", "--from", "--to"}, {}, 0),
      show |-> Unimplemented({}, {}, 1)],
   inspect |-> [alone |-> Command({}, {}, 1, "inspect_command")],
   run |-> [alone |-> Unimplemented({}, {"--check"}, 1)],
   report |-> [render |-> Unimplemented({}, {"--pdf"}, 1)],
   checks |->
     [list |-> Command({}, {}, 0, "checks_list_command"),
      show |-> Command({}, {}, 1, "checks_show_command"),
      docs |-> Unimplemented({"--out"}, {}, 0)]]

(* An invocation names a command, "alone" where it has no subcommands; the *)
(* options given, those whose value is no number, and the operands.        *)
Numbers == {"--lat", "--lon", "--radius-km"}

IsCommand(argv) == argv.command \in DOMAIN Tree /\ argv.sub \in DOMAIN Tree[argv.command]
Leaf(argv) == Tree[argv.command][argv.sub]

IsUsage(argv) ==
  /\ IsCommand(argv)
  /\ Leaf(argv).required \subseteq argv.options
  /\ argv.options \subseteq Leaf(argv).required \cup Leaf(argv).optional
  /\ argv.malformed \cap Numbers = {}
  /\ argv.operands = Leaf(argv).operands

(* _Parser.error, of every parser in the tree, whatever argparse would do. *)
UsageExit == EXIT_NO_RESULT

(* checks list and checks show, over the registry that is assembled: it   *)
(* holds no check yet.                                                     *)
Registered == {}
ChecksExit(argv) ==
  IF Leaf(argv).func = "checks_list_command" \/ argv.check_id \in Registered
  THEN EXIT_PRODUCED ELSE EXIT_NO_RESULT
=============================================================================
