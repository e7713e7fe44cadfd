SPECIFICATION Spec
INVARIANTS
    RequestFinalized
    RequestSent
    HeadUnderstood
    BodyDelivered
    MailInStep
PROPERTIES
    EverythingEnds
