\* Three operators: one changes the title, one may turn the webcam off, one has
\* marine locations. The API runs on another host.
CONSTANTS
    v = v
    u = u
    Values = {v, u}
    Blank = blank
    NoAnswer = noanswer
    Offers <- AllOffers
    Found = {v}
    ApiConfHere = FALSE
SPECIFICATION Spec
INVARIANT TypeOK
PROPERTIES AnswersShown AnswersApplied AppliedAccepted
