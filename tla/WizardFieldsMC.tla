--------------------------- MODULE WizardFieldsMC ---------------------------
EXTENDS WizardFields, TLC

CONSTANTS v, u

\* Fields that are always filled in, and fields that never are.
Rest == [f \in Fields |-> IF f \in {"eula", "db", "units", "accent"}
                          THEN {v} ELSE {Blank}]

\* A title that changes; no text about the station, and its name is not typed in.
Titles == [title |-> {v, u}] @@ Rest
\* The name of the station is typed in.
Named == [name |-> {v}] @@ Rest

\* A webcam that may be turned off, or all of it left as it was.
Webcams == [webcam |-> {Blank, v}, image |-> {v}, about |-> {v}] @@ Named
\* What only the API keeps, beside the legal pages and TLS.
Marine == [providers |-> {v}, regions |-> {v}, tls |-> {v}, locations |-> {Blank, v}]
          @@ Named

AllOffers   == {Titles, Webcams, Marine}
WebcamsOnly == {Webcams}
=============================================================================
