CONSTANTS
    Cols = 2
    WsTexts = {"short", "long"}
    MqttTexts = {"short", "long"}
    MainTexts = {"client"}
    Title = "title"
    Booting = "short"
    TextLen <- Lengths
    Losses = {"cursor", "data"}
SPECIFICATION Spec
INVARIANTS DamageIsLocal CopyIsText
