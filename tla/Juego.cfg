SPECIFICATION Partidas
CONSTANTS
    Entrenadores = {t1, t2, t3, t4}
    Pokenests = {"a", "b"}
    Objetivos <- ObjetivosDeCuatro
    Coordenada <- Lugares
    Stock <- UnoDeCada
    Modos <- SinBatalla
    MaxFd = 4
    MaxPcb = 5
    Quantum = 2
    Vidas <- VidasDeCuatro
    Sensibles = {t2, t3}
    MaxSeniales = 1
    t1 = t1
    t2 = t2
    t3 = t3
    t4 = t4
INVARIANTS
    TypeOK
    PosicionCoherente
    StockConservado
    StockRespaldado
    
    UnSoloLugar
    
PROPERTIES
    CapturaEnElLugar
CHECK_DEADLOCK FALSE
