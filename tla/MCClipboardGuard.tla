-------------------------- MODULE MCClipboardGuard --------------------------
EXTENDS ClipboardGuard

CONSTANTS secret, note, report, chat, mail

\* A text and a file refused in one application at least; a text that warns in
\* one application and passes in the other.
MCVerdict == [k \in Keys |->
    CASE k[1] = secret -> "block"
      [] k = <<note, chat>> -> "warn"
      [] k = <<report, chat>> -> "block"
      [] OTHER -> "allow"]
=============================================================================
