CONSTANTS
    Streams <- ThreeStreams
    Choices <- SomeChoices
    Reports <- SomeReports
    MaxChanges = 2
SPECIFICATION MountsSpec
INVARIANT PathsAreServed
PROPERTY StreamsArrive
CHECK_DEADLOCK FALSE
