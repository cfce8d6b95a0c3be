--------------------------- MODULE MCDesktopService ---------------------------
(* A small DesktopService: as many runtimes as its requests can ask for.       *)
EXTENDS DesktopService

MCCoordinators == 1..(MaxRequests + 1)
=============================================================================
